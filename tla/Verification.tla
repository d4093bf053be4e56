---------------------------- MODULE Verification ----------------------------
(* Verification of an environment in the store, and the attestation that    *)
(* goes with its publication.                                               *)
(*                                                                          *)
(* Code: Runtime.verify and the end of publish_environment in runtime.py,   *)
(* verify_environment and its helpers in verification.py, verify_package    *)
(* and verify_workspace_lock in _sources.py, EnvironmentManager.open and    *)
(* ensure_sparse_modules in environments.py, _extend_sparse_projection in   *)
(* oci.py.                                                                  *)
(*                                                                          *)
(* A part is what is compared with the lock or the capsule: a package or    *)
(* the root workspace of a whole environment, a module of a sparse one. The *)
(* outputs of a whole environment are compared with nothing, except by a    *)
(* rebuild. Compiling is deterministic.                                     *)
EXTENDS Integers, FiniteSets

CONSTANTS
    Verifiers,
    Library,        \* extends the environment for somebody else
    NoExtender,
    Parts,
    MaxHarms     \* bound on edits, removals, deaths and failing steps

ASSUME VerificationAssumption ==
    /\ NoExtender \notin Verifiers \cup {Library}
    /\ Library \notin Verifiers
    /\ MaxHarms \in Nat

VARIABLES
    held,           \* the environment
    extension,      \* who extends it, which holds its lock
    lean,           \* is the toolchain in the store?
    check,          \* check[v]: a call of verify
    harms

verificationVars == <<held, extension, lean, check, harms>>

-----------------------------------------------------------------------------
(* Vocabulary.                                                             *)

NotExtended == [by |-> NoExtender, step |-> "idle", parts |-> {}]

\* touched, pruned, sound, excused and fetched are history: what happened to the
\* environment and to the toolchain since the call began, what was there when it
\* began, whether it met a torn manifest, a failing probe or, offline, no toolchain,
\* and whether it downloaded anything.
NotChecking == [step |-> "idle", offline |-> FALSE, rebuild |-> FALSE, attests |-> FALSE,
                sparse |-> FALSE, seen |-> {}, todo |-> {}, source |-> TRUE, probe |-> FALSE,
                match |-> "none", result |-> "none", packed |-> "none", attested |-> "none",
                touched |-> FALSE, pruned |-> FALSE, sound |-> FALSE, excused |-> FALSE,
                fetched |-> FALSE]

Outputs == {"as built", "changed"}

VerificationTypeOK ==
    /\ held.kind \in {"none", "whole", "sparse"}
    /\ held.fits \in BOOLEAN
    /\ held.part \in [Parts -> {"good", "changed", "absent"}]
    /\ held.recorded \subseteq Parts
    /\ held.manifest \in {"complete", "torn"}
    /\ held.outputs \in Outputs
    /\ extension.by = NoExtender <=> extension = NotExtended
    /\ extension.step \in {"idle", "place", "manifest", "record"}
    /\ \A v \in Verifiers :
         /\ check[v].step \in {"idle", "metadata", "open", "manifest", "parts", "lean", "probe",
                               "acquire", "run", "end", "rebuild", "over"}
         /\ check[v].seen \subseteq Parts /\ check[v].todo \subseteq check[v].seen
         /\ check[v].result \in {"none", "refused", "raised", "failed", "ok"}
         /\ check[v].result # "none" <=> check[v].step = "over"
         /\ check[v].attested # "none" => check[v].attests
         /\ extension.by = v => check[v].step = "acquire"

\* The environment of another platform, or of a lock with another identity, does
\* not fit.
VerificationInit ==
    /\ \E kind \in {"whole", "sparse"}, fits \in BOOLEAN, first \in Parts :
         held = [kind |-> kind, fits |-> fits,
                 part |-> [p \in Parts |->
                             IF kind = "whole" \/ p = first THEN "good" ELSE "absent"],
                 recorded |-> IF kind = "whole" THEN Parts ELSE {first},
                 manifest |-> "complete", outputs |-> "as built"]
    /\ extension = NotExtended
    /\ lean \in BOOLEAN
    /\ check = [v \in Verifiers |-> NotChecking]
    /\ harms = 0

Checking(v, next) == check' = [check EXCEPT ![v] = next]
Now(v, step) == Checking(v, [check[v] EXCEPT !.step = step])
Reports(v, result) == Checking(v, [check[v] EXCEPT !.step = "over", !.result = result])
OneHarm == harms < MaxHarms /\ harms' = harms + 1

\* The digest of the built outputs; there are none when the environment is gone.
Inventory == IF held.kind = "none" THEN "nothing" ELSE held.outputs

\* The source tree of a package has the identity of the lock, an artifact its digest.
Matches(p) == held.part[p] = "good"

Running(v) == check[v].step \notin {"idle", "over"}

\* For those who verify now, and for those who have yet to attest.
Touching(v) == check[v].step # "idle"
Touched == [v \in Verifiers |-> [check[v] EXCEPT !.touched = @ \/ Touching(v)]]

-----------------------------------------------------------------------------
(* Verifying.                                                              *)

\* publish_environment packs the outputs before it verifies, to attest to them.
Verify(v, offline, rebuild, attests) ==
    /\ check[v].step = "idle"
    /\ attests => held.kind = "whole" /\ ~offline /\ ~rebuild
    /\ Checking(v, [NotChecking EXCEPT
         !.step = IF offline /\ rebuild THEN "over" ELSE "metadata",
         !.result = IF offline /\ rebuild THEN "refused" ELSE "none",
         !.offline = offline, !.rebuild = rebuild, !.attests = attests,
         !.packed = IF attests THEN held.outputs ELSE "none",
         !.sound = /\ held.kind # "none" /\ held.fits /\ extension = NotExtended
                   /\ \A p \in held.recorded : held.part[p] = "good"
                   /\ held.outputs = "as built"])
    /\ UNCHANGED <<held, extension, lean, harms>>

ReadMetadata(v) ==
    /\ check[v].step = "metadata"
    /\ IF held.kind # "none" /\ ~held.fits THEN Reports(v, "failed") ELSE Now(v, "open")
    /\ UNCHANGED <<held, extension, lean, harms>>

OpenRecorded(v) ==
    /\ check[v].step = "open"
    /\ IF held.kind = "none"
       THEN Reports(v, "raised")
       ELSE Checking(v, [check[v] EXCEPT !.step = "manifest", !.seen = held.recorded,
                                         !.sparse = held.kind = "sparse"])
    /\ UNCHANGED <<held, extension, lean, harms>>

\* Of an environment that is gone by now the workspace does not match the lock.
ReadCapsule(v) ==
    /\ check[v].step = "manifest"
    /\ IF held.kind = "none" \/ held.manifest = "torn"
       THEN Checking(v, [check[v] EXCEPT !.step = "lean", !.source = FALSE,
                                         !.excused = held.manifest = "torn"])
       ELSE Checking(v, [check[v] EXCEPT !.step = "parts", !.todo = check[v].seen])
    /\ UNCHANGED <<held, extension, lean, harms>>

\* Mutant of VerifyPart: a file that is there is good.
VerifyPartPresent(v) ==
    /\ check[v].step = "parts"
    /\ held.kind # "none"
    /\ \E p \in check[v].todo :
         IF held.part[p] # "absent"
         THEN Checking(v, [check[v] EXCEPT !.todo = @ \ {p}])
         ELSE Checking(v, [check[v] EXCEPT !.step = "lean", !.todo = {}, !.source = FALSE])
    /\ UNCHANGED <<held, extension, lean, harms>>

\* The first part that is not what the lock says ends the comparison, not the call.
VerifyPart(v) ==
    /\ check[v].step = "parts"
    /\ held.kind # "none"
    /\ \E p \in check[v].todo :
         IF Matches(p)
         THEN Checking(v, [check[v] EXCEPT !.todo = @ \ {p}])
         ELSE Checking(v, [check[v] EXCEPT !.step = "lean", !.todo = {}, !.source = FALSE])
    /\ UNCHANGED <<held, extension, lean, harms>>

\* A file that is removed between two looks at it: an OSError, which nobody catches.
PartVanishes(v) ==
    /\ check[v].step = "parts" /\ check[v].todo # {}
    /\ held.kind = "none"
    /\ Reports(v, "raised")
    /\ UNCHANGED <<held, extension, lean, harms>>

PartsVerified(v) ==
    /\ check[v].step = "parts" /\ check[v].todo = {}
    /\ Now(v, "lean")
    /\ UNCHANGED <<held, extension, lean, harms>>

-----------------------------------------------------------------------------
(* Probing, which a failure before does not prevent.                       *)

LookForLean(v) ==
    /\ check[v].step = "lean"
    /\ IF check[v].offline /\ ~lean
       THEN Checking(v, [check[v] EXCEPT !.step = "end", !.excused = TRUE])
       ELSE Now(v, "probe")
    /\ UNCHANGED <<held, extension, lean, harms>>

\* Mutant of SparseProbe: what is missing is acquired, offline or not.
SparseProbeAnyway(v) ==
    /\ check[v].step = "probe" /\ check[v].sparse
    /\ held.kind # "none" /\ held.manifest = "complete"
    /\ \E p \in check[v].seen :
         IF held.part[p] # "absent"
         THEN Now(v, "run") /\ UNCHANGED <<extension, lean>>
         ELSE /\ extension = NotExtended
              /\ extension' = [by |-> v, step |-> "place", parts |-> {p}]
              /\ Checking(v, [check[v] EXCEPT !.step = "acquire", !.fetched = TRUE])
              /\ UNCHANGED lean
    /\ UNCHANGED <<held, harms>>

\* The probe of a sparse environment imports one retained module. When a file of
\* it is gone the probe acquires it, unless it is offline.
SparseProbe(v) ==
    /\ check[v].step = "probe" /\ check[v].sparse
    /\ held.kind # "none" /\ held.manifest = "complete"
    /\ \E p \in check[v].seen :
         IF held.part[p] # "absent"
         THEN Now(v, "run") /\ UNCHANGED <<extension, lean>>
         ELSE IF check[v].offline
         THEN Now(v, "end") /\ UNCHANGED <<extension, lean>>
         ELSE /\ extension = NotExtended
              /\ extension' = [by |-> v, step |-> "place", parts |-> {p}]
              /\ Checking(v, [check[v] EXCEPT !.step = "acquire", !.fetched = TRUE])
              /\ UNCHANGED lean
    /\ UNCHANGED <<held, harms>>

WholeProbe(v) ==
    /\ check[v].step = "probe"
    /\ ~check[v].sparse \/ held.kind = "none"
    /\ Now(v, IF held.kind = "none" THEN "end" ELSE "run")
    /\ UNCHANGED <<held, extension, lean, harms>>

TornProbe(v) ==
    /\ check[v].step = "probe" /\ check[v].sparse
    /\ held.kind # "none" /\ held.manifest = "torn"
    /\ Checking(v, [check[v] EXCEPT !.step = "end", !.excused = TRUE])
    /\ UNCHANGED <<held, extension, lean, harms>>

ProbeAcquired(v) ==
    /\ check[v].step = "acquire" /\ extension.by # v
    /\ \/ Now(v, "run") /\ UNCHANGED harms
       \/ Now(v, "end") /\ OneHarm
    /\ UNCHANGED <<held, extension, lean>>

\* A toolchain that is not there is fetched to run Lean. What was changed may
\* compile or not.
RunProbe(v) ==
    /\ check[v].step = "run"
    /\ lean' = TRUE
    /\ \E passed \in BOOLEAN :
         /\ (\A p \in check[v].seen : held.part[p] = "good") /\ held.outputs = "as built" => passed
         /\ (\A p \in check[v].seen : held.part[p] = "absent") => ~passed
         /\ Checking(v, [check[v] EXCEPT !.step = "end", !.probe = passed,
                                         !.fetched = @ \/ ~lean])
    /\ UNCHANGED <<held, extension, harms>>

ProbeBreaks(v) ==
    /\ check[v].step = "run"
    /\ OneHarm
    /\ Checking(v, [check[v] EXCEPT !.step = "end", !.excused = TRUE])
    /\ UNCHANGED <<held, extension, lean>>

-----------------------------------------------------------------------------
(* The end.                                                                *)

Report(v) ==
    /\ check[v].step = "end"
    /\ IF ~(check[v].source /\ check[v].probe)
       THEN Reports(v, "failed")
       ELSE IF check[v].rebuild THEN Now(v, "rebuild") ELSE Reports(v, "ok")
    /\ UNCHANGED <<held, extension, lean, harms>>

\* The outputs are compared with those of the lock built anew in a temporary store.
\* Those of a sparse environment are never the same. A difference is a warning.
Rebuild(v) ==
    /\ check[v].step = "rebuild"
    /\ \/ Checking(v, [check[v] EXCEPT
            !.step = "over", !.result = "ok",
            !.match = IF ~check[v].sparse /\ Inventory = "as built" THEN "yes" ELSE "no"])
          /\ UNCHANGED harms
       \/ Reports(v, "raised") /\ OneHarm
    /\ lean' = TRUE
    /\ UNCHANGED <<held, extension>>

\* Mutant of Attest: whatever the report says.
AttestAnyway(v) ==
    /\ check[v].step = "over" /\ check[v].attests /\ check[v].attested = "none"
    /\ Checking(v, [check[v] EXCEPT !.attested = Inventory])
    /\ UNCHANGED <<held, extension, lean, harms>>

\* The inventory of the outputs is taken when the report is there.
Attest(v) ==
    /\ check[v].step = "over" /\ check[v].attests /\ check[v].attested = "none"
    /\ check[v].result = "ok"
    /\ Checking(v, [check[v] EXCEPT !.attested = Inventory])
    /\ UNCHANGED <<held, extension, lean, harms>>

-----------------------------------------------------------------------------
(* Extending a sparse environment, under its lock.                         *)

Extend(parts) ==
    /\ extension = NotExtended
    /\ held.kind = "sparse"
    /\ parts \ held.recorded # {}
    /\ extension' = [by |-> Library, step |-> "place", parts |-> parts]
    /\ UNCHANGED <<held, lean, check, harms>>

\* Mutant of PlaceArtifacts: the modules are recorded before their files are there.
RecordArtifacts ==
    /\ extension.step = "place"
    /\ held' = [held EXCEPT !.recorded = @ \cup extension.parts]
    /\ extension' = [extension EXCEPT !.step = "manifest"]
    /\ UNCHANGED <<lean, check, harms>>

\* A changed file is a conflict: the extension ends.
PlaceArtifacts ==
    /\ extension.step = "place"
    /\ IF \E p \in extension.parts : held.part[p] = "changed"
       THEN extension' = NotExtended /\ UNCHANGED held
       ELSE /\ held' = [held EXCEPT !.part =
                 [p \in Parts |-> IF p \in extension.parts THEN "good" ELSE held.part[p]]]
            /\ extension' = [extension EXCEPT !.step = "manifest"]
    /\ UNCHANGED <<lean, check, harms>>

\* write_bytes truncates the manifest and writes it again.
TruncateManifest ==
    /\ extension.step = "manifest"
    /\ held' = [held EXCEPT !.manifest = "torn"]
    /\ extension' = [extension EXCEPT !.step = "record"]
    /\ UNCHANGED <<lean, check, harms>>

RecordModules ==
    /\ extension.step = "record"
    /\ held' = [held EXCEPT !.manifest = "complete", !.recorded = @ \cup extension.parts]
    /\ extension' = NotExtended
    /\ UNCHANGED <<lean, check, harms>>

\* A failure or a death leaves what was written.
ExtensionBreaks ==
    /\ extension # NotExtended
    /\ OneHarm
    /\ extension' = NotExtended
    /\ UNCHANGED <<held, lean, check>>

-----------------------------------------------------------------------------
(* What others do.                                                         *)

EditPart(p, content) ==
    /\ held.kind # "none" /\ held.part[p] # "absent" /\ content # held.part[p]
    /\ OneHarm
    /\ held' = [held EXCEPT !.part[p] = content]
    /\ check' = Touched
    /\ UNCHANGED <<extension, lean>>

ChangeOutputs ==
    /\ held.kind = "whole" /\ held.outputs = "as built"
    /\ OneHarm
    /\ held' = [held EXCEPT !.outputs = "changed"]
    /\ check' = Touched
    /\ UNCHANGED <<extension, lean>>

\* clean waits for the lock and leaves an environment alone that runs something.
RemoveHeld ==
    /\ held.kind # "none" /\ extension = NotExtended
    /\ \A v \in Verifiers : check[v].step # "run"
    /\ OneHarm
    /\ held' = [held EXCEPT !.kind = "none"]
    /\ check' = Touched
    /\ UNCHANGED <<extension, lean>>

PruneLean ==
    /\ lean /\ \A v \in Verifiers : check[v].step # "run"
    /\ OneHarm
    /\ lean' = FALSE
    /\ check' = [v \in Verifiers |-> [check[v] EXCEPT !.pruned = @ \/ Running(v)]]
    /\ UNCHANGED <<held, extension>>

-----------------------------------------------------------------------------

VerificationNext ==
    \/ \E v \in Verifiers :
         \/ \E offline, rebuild, attests \in BOOLEAN : Verify(v, offline, rebuild, attests)
         \/ ReadMetadata(v) \/ OpenRecorded(v) \/ ReadCapsule(v)
         \/ VerifyPart(v) \/ PartVanishes(v) \/ PartsVerified(v)
         \/ LookForLean(v) \/ SparseProbe(v) \/ WholeProbe(v) \/ TornProbe(v)
         \/ ProbeAcquired(v) \/ RunProbe(v) \/ ProbeBreaks(v) \/ Report(v) \/ Rebuild(v) \/ Attest(v)
    \/ \E parts \in SUBSET Parts : Extend(parts)
    \/ PlaceArtifacts \/ TruncateManifest \/ RecordModules \/ ExtensionBreaks
    \/ \E p \in Parts, content \in {"changed", "absent"} : EditPart(p, content)
    \/ ChangeOutputs \/ RemoveHeld \/ PruneLean

VerificationSpec == VerificationInit /\ [][VerificationNext]_verificationVars

-----------------------------------------------------------------------------
(* Properties.                                                             *)

\* An environment that was found good is there and all it recorded is what the
\* lock or the capsule says, unless it was touched since the call began, whatever
\* extends it meanwhile; and outputs that match those of a rebuild are as built.
ReportTrue ==
    \A v \in Verifiers :
        check[v].result = "ok" /\ ~check[v].touched =>
            /\ held.kind # "none" /\ held.fits
            /\ \A p \in check[v].seen : held.part[p] = "good"
            /\ check[v].match = "yes" => held.outputs = "as built"

\* A sound environment nobody touches is not found bad while others extend it: only
\* a manifest caught while it is rewritten (oci.py:1164), Lean that does not run or,
\* offline, a toolchain that is not there fails the call.
NoFalseAlarm ==
    \A v \in Verifiers :
        check[v].result = "failed" /\ check[v].sound /\ ~check[v].touched =>
            check[v].excused

\* Offline verification downloads nothing, unless the toolchain was removed while
\* it ran: docs/trust.md:56.
OfflineLocal ==
    \A v \in Verifiers : check[v].offline /\ check[v].fetched => check[v].pruned

\* What is attested to was found good, and is what was packed for the library,
\* unless the environment was touched since.
AttestedAsPacked ==
    \A v \in Verifiers :
        check[v].attested # "none" =>
            /\ check[v].result = "ok"
            /\ check[v].touched \/ check[v].attested = check[v].packed
=============================================================================
