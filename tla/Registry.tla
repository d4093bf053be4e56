------------------------------ MODULE Registry ------------------------------
(* Publication to an OCI registry and the plans clients make from it:      *)
(* blobs first, then the manifest of a platform, then an index under a     *)
(* reference and its tags, then a signature. Several publishers work on    *)
(* one reference and the registry is the only thing they share.            *)
(*                                                                         *)
(* Code: oci.py (OCIRegistryClient, OCIEnvironmentPublisher, plan_capsule), *)
(* toolchain_oci.py, programs.py (ProgramLibrary), publisher_verification. *)
(*                                                                         *)
(* A platform stands for the content of its manifest; an index is the set  *)
(* of platforms it lists. Authentication and the HTTP layer are a request  *)
(* that succeeds, is lost, or is carried out without its answer arriving.  *)
EXTENDS Integers, Sequences, FiniteSets

CONSTANTS
    Publishers,     \* runs of a publishing command
    Clients,        \* runs that plan a download
    Platforms,      \* computers something is published for
    Verifying,      \* do clients check signatures?
    MaxOutages      \* bound on lost requests and deaths

ASSUME RegistryAssumption == Verifying \in BOOLEAN /\ MaxOutages \in Nat

VARIABLES
    library,        \* what is published: an environment, a toolchain, a program
    remoteBlobs,    \* blobs the registry has: <<platform, part>>
    manifests,      \* platform manifests it has, by digest
    index,          \* index[r]: the index under reference r, {} when there is none
    signatures,     \* indexes that are signed
    publication,    \* publication[u]: local variables of a publisher
    plan,           \* plan[c]: local variables of a client
    outages

registryVars == <<library, remoteBlobs, manifests, index, signatures,
                  publication, plan, outages>>

Content == <<library, remoteBlobs, manifests>>

-----------------------------------------------------------------------------
(* Vocabulary.                                                             *)

Libraries == {"environment", "toolchain", "program"}

\* The reference derived from the identity, and a tag.
References == {"identity", "tag"}

BlobKinds == {"config", "layer"}

Blobs == Platforms \X BlobKinds

InOrder(p, first, last) == << <<p, first>>, <<p, last>> >>

\* The order of the uploads: a toolchain's layer comes before its config.
Uploads(p) == IF library = "toolchain" THEN InOrder(p, "layer", "config")
              ELSE InOrder(p, "config", "layer")

NotPublishing == [step |-> "idle", lists |-> {}, uploads |-> <<>>, references |-> <<>>,
                  final |-> FALSE, sign |-> FALSE, attempted |-> FALSE,
                  platform |-> FALSE, index |-> FALSE, sent |-> FALSE, end |-> "none"]

Publishing == {"idle", "upload", "manifest", "read manifest", "look", "index",
               "read index", "sign", "over"}

PublicationEnds == {"none", "published", "failed", "partial", "refused", "dead"}

PlanEnds == {"none", "planned", "unavailable", "unsigned", "missing"}

RegistryTypeOK ==
    /\ library \in Libraries
    /\ remoteBlobs \in SUBSET Blobs
    /\ manifests \in SUBSET Platforms
    /\ index \in [References -> SUBSET Platforms]
    /\ signatures \in SUBSET SUBSET Platforms
    /\ \A u \in Publishers :
         /\ publication[u].step \in Publishing
         /\ publication[u].lists \in SUBSET Platforms
         /\ publication[u].end \in PublicationEnds
         /\ publication[u].step = "upload" => publication[u].uploads # <<>>
         /\ publication[u].step \in {"index", "read index"}
              => publication[u].references # <<>>
    /\ plan \in [Clients -> [step : {"idle", "index", "manifest", "config", "over"},
                             platform : Platforms, index : SUBSET Platforms,
                             end : PlanEnds]]
    /\ outages \in Nat

RegistryInit ==
    /\ library \in Libraries
    /\ remoteBlobs = {} /\ manifests = {} /\ signatures = {}
    /\ index = [r \in References |-> {}]
    /\ publication = [u \in Publishers |-> NotPublishing]
    /\ plan \in [Clients -> {[step |-> "idle", platform |-> p, index |-> {}, end |-> "none"]
                               : p \in Platforms}]
    /\ outages = 0

-----------------------------------------------------------------------------
(* Publishers.                                                             *)

Publish(u, next) == publication' = [publication EXCEPT ![u] = next]
PublisherAt(u, step) == publication[u].step = step

\* publish: one platform, followed by an index under the references given.
Begin(u, p, final, references, sign) ==
    /\ PublisherAt(u, "idle")
    /\ Publish(u, [NotPublishing EXCEPT
         !.step = "upload", !.lists = {p}, !.uploads = Uploads(p),
         !.final = final, !.sign = sign, !.references = references])
    /\ UNCHANGED <<Content, index, signatures, plan, outages>>

Tags(tagged) == IF tagged THEN <<"tag">> ELSE <<>>

\* An environment is final, with an index of its own, or waits for finalize.
BeginEnvironment(u, p, final, tagged, sign) ==
    /\ library = "environment"
    /\ sign => final
    /\ Begin(u, p, final, (IF final THEN <<"identity">> ELSE <<>>) \o Tags(tagged), sign)

BeginToolchain(u, p) == library = "toolchain" /\ Begin(u, p, FALSE, <<>>, FALSE)

\* The index of a program is put under its tags only. (A signature would name the
\* manifest of the platform, which clients of an index do not look at.)
BeginProgram(u, p, tagged) ==
    library = "program" /\ Begin(u, p, FALSE, Tags(tagged), FALSE)

\* publish_index: the platforms of the records it is given.
BeginIndex(u, lists, references, sign) ==
    /\ PublisherAt(u, "idle")
    /\ lists # {}
    /\ Publish(u, [NotPublishing EXCEPT
         !.step = "look", !.lists = lists, !.final = TRUE, !.sign = sign,
         !.references = references])
    /\ UNCHANGED <<Content, index, signatures, plan, outages>>

EnvironmentIndex(u, lists, tagged, sign) ==
    library = "environment" /\ BeginIndex(u, lists, <<"identity">> \o Tags(tagged), sign)

ToolchainIndex(u, lists, sign) ==
    library = "toolchain" /\ BeginIndex(u, lists, <<"identity">>, sign)

ProgramIndex(u, lists, tagged, sign) ==
    library = "program" /\ BeginIndex(u, lists, <<"identity">> \o Tags(tagged), sign)

\* Mutant of Upload: the manifest goes first.
UploadManifestFirst(u) ==
    /\ PublisherAt(u, "upload")
    /\ manifests' = manifests \cup publication[u].lists
    /\ Publish(u, [publication[u] EXCEPT
         !.step = "read manifest", !.attempted = TRUE, !.sent = TRUE])
    /\ UNCHANGED <<library, remoteBlobs, index, signatures, plan, outages>>

\* One descriptor after the other; a blob the registry has is not sent again.
Upload(u) ==
    /\ PublisherAt(u, "upload")
    /\ remoteBlobs' = remoteBlobs \cup {Head(publication[u].uploads)}
    /\ LET rest == Tail(publication[u].uploads) IN
       Publish(u, [publication[u] EXCEPT
         !.uploads = rest, !.step = IF rest = <<>> THEN "manifest" ELSE "upload"])
    /\ UNCHANGED <<library, manifests, index, signatures, plan, outages>>

\* publish_manifest: PUT, then read what the registry serves for it.
PutManifest(u) ==
    /\ PublisherAt(u, "manifest")
    /\ manifests' = manifests \cup publication[u].lists
    /\ Publish(u, [publication[u] EXCEPT
         !.step = "read manifest", !.attempted = TRUE, !.sent = TRUE])
    /\ UNCHANGED <<library, remoteBlobs, index, signatures, plan, outages>>

PublisherEnds(u, how) == Publish(u, [publication[u] EXCEPT !.step = "over", !.end = how])

\* What follows the manifest of a platform.
AfterManifest(u) ==
    IF publication[u].references = <<>> THEN "over"
    ELSE IF publication[u].final THEN "look"
    ELSE IF library = "program" THEN "index"
    ELSE "refused"

ReadManifest(u) ==
    /\ PublisherAt(u, "read manifest")
    /\ publication[u].lists \subseteq manifests
    /\ LET read == [publication[u] EXCEPT !.platform = TRUE]
           next == AfterManifest(u)
       IN Publish(u, IF next \in {"over", "refused"}
                     THEN [read EXCEPT !.step = "over",
                                       !.end = IF next = "over" THEN "published"
                                               ELSE "refused"]
                     ELSE [read EXCEPT !.step = next])
    /\ UNCHANGED <<Content, index, signatures, plan, outages>>

\* Mutant of Look: the records are believed.
LookAtNothing(u) ==
    /\ PublisherAt(u, "look")
    /\ Publish(u, [publication[u] EXCEPT !.step = "index"])
    /\ UNCHANGED <<Content, index, signatures, plan, outages>>

ManifestExists(p) == p \in manifests

\* An index may name only manifests that are there.
Look(u) ==
    /\ PublisherAt(u, "look")
    /\ IF \A p \in publication[u].lists : ManifestExists(p)
       THEN Publish(u, [publication[u] EXCEPT !.step = "index"])
       ELSE PublisherEnds(u, "refused")
    /\ UNCHANGED <<Content, index, signatures, plan, outages>>

PutIndex(u) ==
    /\ PublisherAt(u, "index")
    /\ index' = [index EXCEPT ![Head(publication[u].references)] = publication[u].lists]
    /\ Publish(u, [publication[u] EXCEPT
         !.step = "read index", !.attempted = TRUE, !.sent = TRUE])
    /\ UNCHANGED <<Content, signatures, plan, outages>>

\* The index of somebody else in its place is an error after four looks.
ReadIndex(u) ==
    /\ PublisherAt(u, "read index")
    /\ LET rest == Tail(publication[u].references) IN
       IF index[Head(publication[u].references)] = publication[u].lists
       THEN Publish(u, [publication[u] EXCEPT
              !.index = TRUE, !.references = rest,
              !.step = IF rest # <<>> THEN "index"
                       ELSE IF publication[u].sign THEN "sign" ELSE "over",
              !.end = IF rest = <<>> /\ ~publication[u].sign THEN "published" ELSE "none"])
       ELSE PublisherEnds(u, "partial")
    /\ UNCHANGED <<Content, index, signatures, plan, outages>>

Sign(u) ==
    /\ PublisherAt(u, "sign")
    /\ signatures' = signatures \cup {publication[u].lists}
    /\ PublisherEnds(u, "published")
    /\ UNCHANGED <<Content, index, plan, outages>>

Outage == outages < MaxOutages /\ outages' = outages + 1

\* _publication_failure: what was attempted decides what the user is told.
Reported(u, attempted) ==
    IF attempted \/ publication[u].platform \/ publication[u].index
    THEN "partial" ELSE "failed"

\* The request for access, a lookup, an upload, a read or a signature fails.
RequestFails(u) ==
    /\ publication[u].step \notin {"idle", "over", "manifest", "index"}
    /\ Outage
    /\ PublisherEnds(u, Reported(u, publication[u].attempted))
    /\ UNCHANGED <<Content, index, signatures, plan>>

\* Mutant of PutFails: attempted is set by the answer.
PutFailsUnnoticed(u) ==
    /\ publication[u].step \in {"manifest", "index"}
    /\ Outage
    /\ Publish(u, [publication[u] EXCEPT
         !.sent = TRUE, !.step = "over", !.end = Reported(u, publication[u].attempted)])
    /\ UNCHANGED <<Content, index, signatures, plan>>

\* A PUT fails, whether or not the registry carried it out.
PutFails(u) ==
    /\ publication[u].step \in {"manifest", "index"}
    /\ Outage
    /\ Publish(u, [publication[u] EXCEPT
         !.attempted = TRUE, !.sent = TRUE, !.step = "over", !.end = Reported(u, TRUE)])
    /\ \/ UNCHANGED <<manifests, index>>
       \/ /\ PublisherAt(u, "manifest")
          /\ manifests' = manifests \cup publication[u].lists
          /\ UNCHANGED index
       \/ /\ PublisherAt(u, "index")
          /\ index' = [index EXCEPT
                 ![Head(publication[u].references)] = publication[u].lists]
          /\ UNCHANGED manifests
    /\ UNCHANGED <<library, remoteBlobs, signatures, plan>>

PublisherDies(u) ==
    /\ publication[u].step \notin {"idle", "over"}
    /\ Outage
    /\ PublisherEnds(u, "dead")
    /\ UNCHANGED <<Content, index, signatures, plan>>

-----------------------------------------------------------------------------
(* Clients: _platform_manifest, _manifest, pull, plan_capsule.             *)

PlanNext(c, next) == plan' = [plan EXCEPT ![c] = next]
PlanEnd(c, how) == PlanNext(c, [plan[c] EXCEPT !.step = "over", !.end = how])

\* The reference of the identity is read once; what follows goes by digests.
LookUp(c) ==
    /\ plan[c].step = "idle"
    /\ IF index["identity"] = {} THEN PlanEnd(c, "unavailable")
       ELSE PlanNext(c, [plan[c] EXCEPT !.step = "index", !.index = index["identity"]])
    /\ UNCHANGED <<Content, index, signatures, publication, outages>>

\* cosign verify, where a client asks for it.
SignatureHolds(found) == Verifying => found \in signatures

Choose(c) ==
    /\ plan[c].step = "index"
    /\ IF ~SignatureHolds(plan[c].index) THEN PlanEnd(c, "unsigned")
       ELSE IF plan[c].platform \notin plan[c].index THEN PlanEnd(c, "unavailable")
       ELSE PlanNext(c, [plan[c] EXCEPT !.step = "manifest"])
    /\ UNCHANGED <<Content, index, signatures, publication, outages>>

GetManifest(c) ==
    /\ plan[c].step = "manifest"
    /\ IF plan[c].platform \in manifests
       THEN PlanNext(c, [plan[c] EXCEPT !.step = "config"])
       ELSE PlanEnd(c, "missing")
    /\ UNCHANGED <<Content, index, signatures, publication, outages>>

\* The config is read whole; the layers it describes are what is downloaded later.
GetConfig(c) ==
    /\ plan[c].step = "config"
    /\ PlanEnd(c, IF {plan[c].platform} \X BlobKinds \subseteq remoteBlobs
                  THEN "planned" ELSE "missing")
    /\ UNCHANGED <<Content, index, signatures, publication, outages>>

-----------------------------------------------------------------------------

RegistryNext ==
    \/ \E u \in Publishers :
         \/ \E p \in Platforms, final, tagged, sign \in BOOLEAN :
                \/ BeginEnvironment(u, p, final, tagged, sign)
                \/ BeginToolchain(u, p)
                \/ BeginProgram(u, p, tagged)
         \/ \E lists \in SUBSET Platforms, tagged, sign \in BOOLEAN :
                \/ EnvironmentIndex(u, lists, tagged, sign)
                \/ ToolchainIndex(u, lists, sign)
                \/ ProgramIndex(u, lists, tagged, sign)
         \/ Upload(u) \/ PutManifest(u) \/ ReadManifest(u) \/ Look(u)
         \/ PutIndex(u) \/ ReadIndex(u) \/ Sign(u)
         \/ RequestFails(u) \/ PutFails(u) \/ PublisherDies(u)
    \/ \E c \in Clients : LookUp(c) \/ Choose(c) \/ GetManifest(c) \/ GetConfig(c)

RegistrySpec == RegistryInit /\ [][RegistryNext]_registryVars

-----------------------------------------------------------------------------
(* Properties.                                                             *)

\* What a client finds in an index is there to the last blob, in whatever order
\* publishers of several platforms come, fail and die.
NothingMissing == \A c \in Clients : plan[c].end # "missing"

\* "Nothing was published: no manifest or index was finalized" is said only by
\* who sent none, and success only by who left all it lists.
FailureTold ==
    \A u \in Publishers :
        /\ publication[u].end = "failed" => ~publication[u].sent
        /\ publication[u].end = "published" =>
             /\ publication[u].lists \subseteq manifests
             /\ publication[u].sign => publication[u].lists \in signatures

\* A reference, once it lists a platform, goes on listing it. It does not: the
\* index of one publisher takes the place of the index of another.
PlatformsKept ==
    [][\A r \in References : index[r] \subseteq index'[r]]_registryVars

=============================================================================
