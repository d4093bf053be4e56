-------------------------- MODULE DeclarationIndex --------------------------
(* Declaration hints: an index of an environment is a manifest of shards.  *)
(* A reader keeps shards it downloaded as objects named by their content,  *)
(* and one record per environment that names all shards of the manifest.   *)
(*                                                                         *)
(* Code: declaration_index_oci.py, EnvironmentStore.declaration_index_*    *)
(* and publish_declaration_index_shards, with_declaration_hints.           *)
(*                                                                         *)
(* An object is a shard at an edition: two builds of one shard have the    *)
(* same shard id and another SQLite digest.                                *)
EXTENDS Integers, Sequences, FiniteSets

CONSTANTS
    Locks,          \* environments
    Shards,         \* shard ids, the same in every manifest
    Readers,        \* threads that look for hints
    NoReader,
    MaxEditions,    \* bound on the manifests published for an environment
    MaxFailures     \* bound on failed downloads, cancellations and deaths

ASSUME IndexAssumption ==
    /\ Locks # {} /\ NoReader \notin Readers
    /\ MaxEditions \in Nat \ {0} /\ MaxFailures \in Nat

VARIABLES
    editions,       \* editions[l]: the manifests published for l, in order
    uploaded,       \* objects whose layers the registry has
    objects,        \* objects the store has
    retention,      \* retention[l]: the manifest of the record, or {} when there is none
    shelfKeeper,    \* shelfKeeper[l]: who holds the lock of the record
    reader,         \* reader[r]: local variables of a thread
    failures

indexVars == <<editions, uploaded, objects, retention, shelfKeeper, reader, failures>>

-----------------------------------------------------------------------------

\* A manifest is the set of its objects, one for each shard.
Edition(l) == editions[l][Len(editions[l])]

ManifestsOf(numbers) == {{<<s, f[s]>> : s \in Shards} : f \in [Shards -> numbers]}

\* The objects of a manifest for the shards wanted.
Select(manifest, wanted) == {o \in manifest : o[1] \in wanted}

\* complete: may it download, so that only all of the shards wanted will do?
NotReading == [step |-> "idle", lock |-> CHOOSE l \in Locks : TRUE, wanted |-> {},
               complete |-> TRUE, manifest |-> {}, missing |-> {}, temporaries |-> {}, answer |-> {},
               end |-> "none"]

DeclarationTypeOK ==
    /\ \A l \in Locks :
         /\ Len(editions[l]) \in 1..MaxEditions
         /\ \A i \in 1..Len(editions[l]) : editions[l][i] \in ManifestsOf(1..MaxEditions)
    /\ uploaded \subseteq Shards \X (1..MaxEditions)
    /\ objects \subseteq uploaded
    /\ retention \in [Locks -> {{}} \cup ManifestsOf(1..MaxEditions)]
    /\ shelfKeeper \in [Locks -> Readers \cup {NoReader}]
    /\ \A r \in Readers :
         /\ reader[r].step \in {"idle", "lookup", "download", "lock", "place", "record",
                                "reread", "over"}
         /\ reader[r].temporaries \subseteq reader[r].missing
         /\ reader[r].missing \subseteq reader[r].manifest
         /\ reader[r].end \in {"none", "answered", "without", "unavailable", "not retained",
                             "dead"}
         /\ reader[r].step \in {"place", "record"} => shelfKeeper[reader[r].lock] = r

DeclarationInit ==
    /\ editions = [l \in Locks |-> << {<<s, 1>> : s \in Shards} >>]
    /\ uploaded = Shards \X {1}
    /\ objects = {}
    /\ retention = [l \in Locks |-> {}]
    /\ shelfKeeper = [l \in Locks |-> NoReader]
    /\ reader = [r \in Readers |-> NotReading]
    /\ failures = 0

-----------------------------------------------------------------------------

\* publish: layers first, then the manifest under the reference of the lock.
UploadShards(l, rebuilt) ==
    /\ Len(editions[l]) < MaxEditions
    /\ uploaded' = uploaded \cup (rebuilt \X {Len(editions[l]) + 1})
    /\ UNCHANGED <<editions, objects, retention, shelfKeeper, reader, failures>>

PublishManifest(l, manifest) ==
    /\ Len(editions[l]) < MaxEditions
    /\ manifest \subseteq uploaded
    /\ editions' = [editions EXCEPT ![l] = Append(@, manifest)]
    /\ UNCHANGED <<uploaded, objects, retention, shelfKeeper, reader, failures>>

Reads(r, next) == reader' = [reader EXCEPT ![r] = next]
Reading(r, step) == reader[r].step = step
ReaderEnds(r, how) ==
    Reads(r, [reader[r] EXCEPT !.step = "over", !.end = how, !.temporaries = {}])

\* declaration_index_shards: those of the record whose object is there.
RetainedShards(l) == retention[l] \cap objects

\* retained_declaration_index_set: with require_complete all shards wanted or
\* nothing, without it whichever of them are there.
Retained(l, wanted) == Select(RetainedShards(l), wanted)

Complete(l, wanted) ==
    retention[l] # {} /\ Select(retention[l], wanted) \subseteq objects

Asks(r, l, wanted, complete, enough) ==
    /\ Reading(r, "idle")
    /\ LET asks == [NotReading EXCEPT !.lock = l, !.wanted = wanted, !.complete = complete]
       IN Reads(r, IF enough
                   THEN [asks EXCEPT !.step = "over", !.end = "answered",
                                     !.answer = Retained(l, wanted)]
                   ELSE IF complete
                   THEN [asks EXCEPT !.step = "lookup"]
                   ELSE [asks EXCEPT !.step = "over", !.end = "without"])
    /\ UNCHANGED <<editions, uploaded, objects, retention, shelfKeeper, failures>>

\* Mutant of Enrich: require_complete is left at its default.
EnrichFromSome(r, l, wanted, complete) ==
    Asks(r, l, wanted, complete, Retained(l, wanted) # {})

\* The answer on the spot, from all shards where a download could complete them, from
\* those retained offline and for the alternatives of a search; or a lookup, or none.
Enrich(r, l, wanted, complete) ==
    Asks(r, l, wanted, complete,
         IF complete THEN Complete(l, wanted) ELSE Retained(l, wanted) # {})

\* acquire: which shards are missing is decided by their ids in the record of now.
LookUpIndex(r) ==
    /\ Reading(r, "lookup")
    /\ LET l == reader[r].lock
           manifest == Edition(l)
           existing == {o[1] : o \in retention[l] \cap objects}
       IN Reads(r, [reader[r] EXCEPT
            !.step = "download", !.manifest = manifest,
            !.missing = Select(manifest, reader[r].wanted \ existing)])
    /\ UNCHANGED <<editions, uploaded, objects, retention, shelfKeeper, failures>>

\* One shard is downloaded, unpacked into a temporary file, and compared.
DownloadShard(r) ==
    /\ Reading(r, "download")
    /\ IF reader[r].temporaries = reader[r].missing
       THEN Reads(r, [reader[r] EXCEPT !.step = "lock"])
       ELSE \E o \in (reader[r].missing \ reader[r].temporaries) \cap uploaded :
              Reads(r, [reader[r] EXCEPT !.temporaries = @ \cup {o}])
    /\ UNCHANGED <<editions, uploaded, objects, retention, shelfKeeper, failures>>

Failure == failures < MaxFailures /\ failures' = failures + 1

\* Mutant of DownloadFails: the temporary files are left to nobody.
DownloadFailsUntidily(r) ==
    /\ reader[r].step \in {"lookup", "download", "lock"}
    /\ Failure
    /\ Reads(r, [reader[r] EXCEPT !.step = "over", !.end = "unavailable"])
    /\ UNCHANGED <<editions, uploaded, objects, retention, shelfKeeper>>

\* A registry that does not answer, the limit, a cancellation, the lock's timeout.
DownloadFails(r) ==
    /\ reader[r].step \in {"lookup", "download", "lock"}
    /\ Failure
    /\ ReaderEnds(r, "unavailable")
    /\ UNCHANGED <<editions, uploaded, objects, retention, shelfKeeper>>

LockRecord(r) ==
    /\ Reading(r, "lock")
    /\ shelfKeeper[reader[r].lock] = NoReader
    /\ shelfKeeper' = [shelfKeeper EXCEPT ![reader[r].lock] = r]
    /\ Reads(r, [reader[r] EXCEPT !.step = "place"])
    /\ UNCHANGED <<editions, uploaded, objects, retention, failures>>

\* An object that is there already is kept, and the temporary file removed.
PlaceShard(r) ==
    /\ Reading(r, "place")
    /\ IF reader[r].temporaries = {}
       THEN /\ Reads(r, [reader[r] EXCEPT !.step = "record"])
            /\ UNCHANGED objects
       ELSE \E o \in reader[r].temporaries :
              /\ objects' = objects \cup {o}
              /\ Reads(r, [reader[r] EXCEPT !.temporaries = @ \ {o}])
    /\ UNCHANGED <<editions, uploaded, retention, shelfKeeper, failures>>

\* Mutants of WriteRecord: only the shards that were wanted; what is new is added
\* to what is there.
WriteRecordWanted(r) ==
    /\ Reading(r, "record")
    /\ retention' = [retention EXCEPT
         ![reader[r].lock] = Select(reader[r].manifest, reader[r].wanted)]
    /\ shelfKeeper' = [shelfKeeper EXCEPT ![reader[r].lock] = NoReader]
    /\ Reads(r, [reader[r] EXCEPT !.step = "reread"])
    /\ UNCHANGED <<editions, uploaded, objects, failures>>

WriteRecordMerged(r) ==
    /\ Reading(r, "record")
    /\ LET l == reader[r].lock
           kept == {o \in retention[l] : o[1] \notin {m[1] : m \in reader[r].missing}}
       IN retention' = [retention EXCEPT ![l] =
            IF @ = {} THEN reader[r].manifest ELSE kept \cup reader[r].missing]
    /\ shelfKeeper' = [shelfKeeper EXCEPT ![reader[r].lock] = NoReader]
    /\ Reads(r, [reader[r] EXCEPT !.step = "reread"])
    /\ UNCHANGED <<editions, uploaded, objects, failures>>

\* The record of the whole manifest takes the place of the one before it.
WriteRecord(r) ==
    /\ Reading(r, "record")
    /\ retention' = [retention EXCEPT ![reader[r].lock] = reader[r].manifest]
    /\ shelfKeeper' = [shelfKeeper EXCEPT ![reader[r].lock] = NoReader]
    /\ Reads(r, [reader[r] EXCEPT !.step = "reread"])
    /\ UNCHANGED <<editions, uploaded, objects, failures>>

ReadAgain(r) ==
    /\ Reading(r, "reread")
    /\ LET l == reader[r].lock IN
       IF Complete(l, reader[r].wanted)
       THEN Reads(r, [reader[r] EXCEPT !.step = "over", !.end = "answered",
                                       !.answer = Retained(l, reader[r].wanted)])
       ELSE ReaderEnds(r, "not retained")
    /\ UNCHANGED <<editions, uploaded, objects, retention, shelfKeeper, failures>>

\* The next compilation with an unknown name asks again.
AskAgain(r) ==
    /\ Reading(r, "over")
    /\ reader[r].end = "not retained"
    /\ Reads(r, NotReading)
    /\ UNCHANGED <<editions, uploaded, objects, retention, shelfKeeper, failures>>

\* The lock goes with the process; files stay.
ReaderDies(r) ==
    /\ reader[r].step \notin {"idle", "over"}
    /\ Failure
    /\ Reads(r, [reader[r] EXCEPT !.step = "over", !.end = "dead"])
    /\ shelfKeeper' = [l \in Locks |->
                         IF shelfKeeper[l] = r THEN NoReader ELSE shelfKeeper[l]]
    /\ UNCHANGED <<editions, uploaded, objects, retention>>

DeclarationNext ==
    \/ \E l \in Locks :
         \/ \E rebuilt \in (SUBSET Shards) \ {{}} : UploadShards(l, rebuilt)
         \/ \E manifest \in ManifestsOf(1..MaxEditions) : PublishManifest(l, manifest)
    \/ \E r \in Readers :
         \/ \E l \in Locks, wanted \in (SUBSET Shards) \ {{}}, complete \in BOOLEAN :
              Enrich(r, l, wanted, complete)
         \/ LookUpIndex(r) \/ DownloadShard(r) \/ DownloadFails(r) \/ LockRecord(r)
         \/ PlaceShard(r) \/ WriteRecord(r) \/ ReadAgain(r) \/ AskAgain(r)
         \/ ReaderDies(r)

DeclarationSpec == DeclarationInit /\ [][DeclarationNext]_indexVars

-----------------------------------------------------------------------------
(* Properties.                                                             *)

AnswersFrom(x, edition) ==
    IF x.complete THEN x.answer = Select(edition, x.wanted)
                  ELSE x.answer \subseteq Select(edition, x.wanted)

\* Hints come from one build of the index: an answer never joins the shards of two
\* manifests, and a shard that was wanted is missing only where none may be downloaded.
AnswersOfOneEdition ==
    \A r \in Readers : reader[r].end = "answered" =>
      /\ reader[r].answer # {}
      /\ \E i \in 1..Len(editions[reader[r].lock]) :
           AnswersFrom(reader[r], editions[reader[r].lock][i])

\* "declaration shards were not retained after acquisition" is said only when the
\* index was published a second time.
RetainedUnlessRepublished ==
    \A r \in Readers :
        reader[r].end = "not retained" => Len(editions[reader[r].lock]) > 1

\* Only a process that died leaves temporary files among the objects.
TemporariesOwned ==
    \A r \in Readers : reader[r].temporaries # {} => reader[r].end \in {"none", "dead"}

\* While there is one manifest, what the store could answer offline it still can.
ServedStaysServed ==
    [][\A l \in Locks : Len(editions'[l]) = 1 =>
         retention[l] \cap objects \subseteq retention'[l] \cap objects']_indexVars

=============================================================================
