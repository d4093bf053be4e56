----------------------------- MODULE MCArtifacts -----------------------------
(* What finds, fetches, publishes, packs and verifies, checked in one run.  *)
(* The components share no state with each other: a behaviour moves one of  *)
(* them and the others stay as they begin.                                  *)
EXTENDS Discovery, Registry, DeclarationIndex, Copies, Programs, Acquisition,
        Verification, TLC

CONSTANTS s1, s2, u1, u2, h1, h2, i1, i2, t1, t2, a1, a2, m1, m2

VARIABLE component

Components == {"discovery", "registry", "declaration index", "copies", "programs",
               "acquisition", "verification"}

-----------------------------------------------------------------------------
(* The instance.                                                           *)

\* What the store answers for each of three candidates, and which are local.
Scene(first, second, third, local) ==
    [verdict |-> <<first, second, third>>, local |-> local]

SomeScenes ==
    {Scene("missing", "missing", "accepts", {1, 2}),
     Scene("proof", "missing", "identifier", {1})}

\* The first library has a part of what the second has.
TwoLibraries == <<{m1}, {m1, m2}>>

\* The actors of every component are alike, and only one component moves.
Other == s1 :> s2 @@ s2 :> s1 @@ u1 :> u2 @@ u2 :> u1 @@ h1 :> h2 @@ h2 :> h1
           @@ i1 :> i2 @@ i2 :> i1 @@ t1 :> t2 @@ t2 :> t1 @@ a1 :> a2 @@ a2 :> a1

Swaps == {[x \in DOMAIN Other |-> IF same THEN x ELSE Other[x]] : same \in BOOLEAN}

-----------------------------------------------------------------------------

Others(c) ==
    /\ c # "discovery" => UNCHANGED discoveryVars
    /\ c # "registry" => UNCHANGED registryVars
    /\ c # "declaration index" => UNCHANGED indexVars
    /\ c # "copies" => UNCHANGED copyVars
    /\ c # "programs" => UNCHANGED programVars
    /\ c # "acquisition" => UNCHANGED acquisitionVars
    /\ c # "verification" => UNCHANGED verificationVars

ArtifactsInit ==
    /\ component \in Components
    /\ DiscoveryInit /\ RegistryInit /\ DeclarationInit /\ CopiesInit /\ ProgramsInit
    /\ AcquisitionInit /\ VerificationInit
    /\ component = "discovery" \/ (~download /\ past = NoPast /\ localLocks = {1})
    /\ \/ component = "registry"
       \/ library = CHOOSE l \in Libraries : TRUE
    /\ \/ component = "registry"
       \/ \A c \in Clients : plan[c].platform = CHOOSE p \in Platforms : TRUE
    /\ component = "copies" \/ (environment = NoTree /\ copies = {})
    /\ component = "acquisition" \/ env = Missing
    /\ \/ component = "verification"
       \/ held.kind = "whole" /\ held.fits /\ ~lean

ArtifactsNext ==
    /\ Others(component)
    /\ UNCHANGED component
    /\ \/ component = "discovery" /\ DiscoveryNext
       \/ component = "registry" /\ RegistryNext
       \/ component = "declaration index" /\ DeclarationNext
       \/ component = "copies" /\ CopiesNext
       \/ component = "programs" /\ ProgramsNext
       \/ component = "acquisition" /\ AcquisitionNext
       \/ component = "verification" /\ VerificationNext

artifactsVars == <<discoveryVars, registryVars, indexVars, copyVars, programVars,
                   acquisitionVars, verificationVars, component>>

ArtifactsSpec == ArtifactsInit /\ [][ArtifactsNext]_artifactsVars

-----------------------------------------------------------------------------
(* What the components promise, gathered by what goes wrong otherwise: of   *)
(* the one that moves, as the others stay as they were checked to begin.    *)

\* What a caller is told is so: decisions remembered about a problem, a search that
\* gave up, answers from an index, the report on an environment, an attestation.
AnswersTrue ==
    /\ component = "discovery" => DiscoveryTypeOK /\ HistoryTrue /\ ExhaustedTried
    /\ component = "declaration index" =>
         DeclarationTypeOK /\ AnswersOfOneEdition /\ RetainedUnlessRepublished
    /\ component = "verification" =>
         VerificationTypeOK /\ ReportTrue /\ NoFalseAlarm /\ AttestedAsPacked

\* What is stored or published is all there and is what its name says: manifests and
\* what they refer to, copies, programs, environments that are checked in; and it
\* came by the means the caller allows.
ArtifactsComplete ==
    /\ component = "registry" => RegistryTypeOK /\ NothingMissing /\ FailureTold
    /\ component = "declaration index" => TemporariesOwned
    /\ component = "copies" => CopiesTypeOK /\ CopiesImportable /\ CapsulesAsAsked
    /\ component = "programs" => ProgramsTypeOK /\ ProgramsAsNamed
    /\ component = "acquisition" =>
         AcquisitionTypeOK /\ ChecksHaveRoots /\ OnlyPermittedMeans
    /\ component = "verification" => OfflineLocal

\* No step forgets or takes away what others rely on: decisions, the index that is
\* served, modules of a projection; and nothing is fetched when the answer is known.
NothingLost ==
    /\ NoFetchAfterVerdict /\ NothingForgotten
    /\ ServedStaysServed
    /\ NeverShrinks
=============================================================================
