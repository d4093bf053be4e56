----------------------------- MODULE Downloads -----------------------------
(***************************************************************************)
(* The caches of downloads: OCI blobs, each fetched with resumption and    *)
(* integrity retries under its own lock, module artifacts, unpacked and    *)
(* projected under a collection lease, and clean_downloads, which removes  *)
(* the old ones of both.                                                   *)
(*                                                                         *)
(* Code: lean_runtime/oci.py (download_blob, cache_verified_blob,          *)
(* pull_capsule), lean_runtime/packs.py (unpack_frame, project_artifacts), *)
(* lean_runtime/store.py (cas_artifact_lease, clean_downloads) and the     *)
(* callers of download_blob, which read the file once they have its path.  *)
(*                                                                         *)
(* Abstractions.  A blob is Size chunks long, and its bytes are sound or   *)
(* not.  What happens to one artifact inside its lock is one step: others  *)
(* see the file before or after it.  oci_blob_lease has no caller, so no   *)
(* blob is ever leased.  A dry run changes nothing and is left out.        *)
(***************************************************************************)
EXTENDS Integers, FiniteSets

CONSTANTS
    Procs,
    Blobs,
    Artifacts,
    NoProc, NoItem,
    Size,           \* chunks of a blob
    Attempts,       \* _BLOB_INTEGRITY_ATTEMPTS
    MaxFaults       \* bound on files that go bad on disk and processes that die

Items == Blobs \cup Artifacts

ASSUME DownloadsAssumption ==
    /\ NoProc \notin Procs
    /\ NoItem \notin Items
    /\ Blobs \cap Artifacts = {}
    /\ Size \in Nat \ {0}
    /\ Attempts \in Nat \ {0}
    /\ MaxFaults \in Nat

VARIABLES
    file,       \* file[i]: "none", "good" or "bad"
    aged,       \* aged[i]: the file of i is older than the minimum age
    partial,    \* partial[b]: chunks in the .partial file of b
    sound,      \* sound[b]: those chunks are the right ones
    referenced, \* blobs the metadata of an environment refers to
    lock,       \* lock[i]: who holds the lock of i
    gcLock,     \* who holds the collector's lock
    leases,     \* <<p, a>>: p has a lease file for artifact a
    orphans,    \* artifacts with a lease file of a process that died
    pc,
    item,       \* item[p]: the blob p pulls, or the candidate it may remove
    attempt,    \* attempt[p]: of the download
    wanted,     \* wanted[p]: artifacts a sparse pull has still to project
    missing,    \* missing[p]: those the frames it has to fetch hold
    unpacked,   \* unpacked[p]: those it has unpacked
    todo,       \* todo[p]: what a collector has still to look at
    known,      \* known[p]: referenced, as the collector read it last
    faults

cache == <<file, aged, partial, sound, referenced>>
locks == <<lock, gcLock>>
leaseFiles == <<leases, orphans>>
pull == <<attempt, wanted, missing, unpacked>>
gc == <<todo, known>>
vars == <<cache, locks, leaseFiles, pc, item, pull, gc, faults>>

Downloading == {"checking", "asking", "receiving"}
Sparse == {"inspect", "unpack", "project"}
Collecting == {"looking", "candidate", "unlinking"}

TypeOK ==
    /\ file \in [Items -> {"none", "good", "bad"}]
    /\ aged \in [Items -> BOOLEAN]
    /\ partial \in [Blobs -> 0..Size]
    /\ sound \in [Blobs -> BOOLEAN]
    /\ referenced \subseteq Blobs
    /\ lock \in [Items -> Procs \cup {NoProc}]
    /\ gcLock \in Procs \cup {NoProc}
    /\ leases \subseteq Procs \X Artifacts
    /\ orphans \subseteq Artifacts
    /\ pc \in [Procs -> {"idle", "queued", "using", "collect"} \cup Downloading \cup Sparse \cup Collecting]
    /\ item \in [Procs -> Items \cup {NoItem}]
    /\ attempt \in [Procs -> 0..Attempts]
    /\ wanted \in [Procs -> SUBSET Artifacts]
    /\ missing \in [Procs -> SUBSET Artifacts]
    /\ unpacked \in [Procs -> SUBSET Artifacts]
    /\ todo \in [Procs -> SUBSET Items]
    /\ known \in [Procs -> SUBSET Blobs]
    /\ faults \in Nat
    /\ \A p \in Procs : pc[p] \in {"queued", "using"} \cup Downloading => item[p] \in Blobs
    /\ \A i \in Items, p \in Procs :
           lock[i] = p <=> item[p] = i /\ pc[p] \in Downloading \cup {"unlinking"}

Init ==
    /\ file = [i \in Items |-> "none"]
    /\ aged = [i \in Items |-> FALSE]
    /\ partial = [b \in Blobs |-> 0]
    /\ sound = [b \in Blobs |-> TRUE]
    /\ referenced = {}
    /\ lock = [i \in Items |-> NoProc]
    /\ gcLock = NoProc
    /\ leases = {}
    /\ orphans = {}
    /\ pc = [p \in Procs |-> "idle"]
    /\ item = [p \in Procs |-> NoItem]
    /\ attempt = [p \in Procs |-> 0]
    /\ wanted = [p \in Procs |-> {}]
    /\ missing = [p \in Procs |-> {}]
    /\ unpacked = [p \in Procs |-> {}]
    /\ todo = [p \in Procs |-> {}]
    /\ known = [p \in Procs |-> {}]
    /\ faults = 0

Goto(p, to) == pc' = [pc EXCEPT ![p] = to]

Locals(p) ==
    /\ item' = [item EXCEPT ![p] = NoItem]
    /\ attempt' = [attempt EXCEPT ![p] = 0]
    /\ wanted' = [wanted EXCEPT ![p] = {}]
    /\ missing' = [missing EXCEPT ![p] = {}]
    /\ unpacked' = [unpacked EXCEPT ![p] = {}]
    /\ todo' = [todo EXCEPT ![p] = {}]
    /\ known' = [known EXCEPT ![p] = {}]

Unlocked(p) == [i \in Items |-> IF lock[i] = p THEN NoProc ELSE lock[i]]

\* The operation of p is over, with a result or an error: every `with` block and
\* lease context on its stack is left.
Leave(p) ==
    /\ lock' = Unlocked(p)
    /\ gcLock' = IF gcLock = p THEN NoProc ELSE gcLock
    /\ leases' = leases \ ({p} \X Artifacts)
    /\ Locals(p)
    /\ Goto(p, "idle")

Abort(p) == Leave(p) /\ UNCHANGED <<orphans, faults>>

-----------------------------------------------------------------------------
(* Blobs: download_blob, cache_verified_blob and the use of the file.      *)

PullBegin(p, b) ==
    /\ pc[p] = "idle"
    /\ item' = [item EXCEPT ![p] = b]
    /\ attempt' = [attempt EXCEPT ![p] = 1]
    /\ Goto(p, "queued")
    /\ UNCHANGED <<cache, locks, leaseFiles, wanted, missing, unpacked, gc, faults>>

TakeBlob(p) ==
    /\ pc[p] = "queued"
    /\ lock[item[p]] = NoProc
    /\ lock' = [lock EXCEPT ![item[p]] = p]
    /\ Goto(p, "checking")
    /\ UNCHANGED <<cache, gcLock, leaseFiles, item, pull, gc, faults>>

\* Cancelled, wherever the code looks at the event; what has arrived stays.
Cancel(p) ==
    /\ pc[p] \in {"queued"} \cup Downloading
    /\ Abort(p)
    /\ UNCHANGED cache

\* The path is returned and the lock let go: the caller goes on to read the file.
Return(p) ==
    /\ lock' = [lock EXCEPT ![item[p]] = NoProc]
    /\ Goto(p, "using")
    /\ UNCHANGED <<gcLock, leaseFiles, item, pull, gc, faults>>

Cached(p) ==
    /\ pc[p] = "checking"
    /\ file[item[p]] = "good"
    /\ Return(p)
    /\ UNCHANGED cache

\* Nothing there, or its digest is wrong: that one is removed. A file of another
\* size stays until the download replaces it.
NotCached(p) ==
    /\ pc[p] = "checking"
    /\ file[item[p]] # "good"
    /\ \E left \in {"none", file[item[p]]} : file' = [file EXCEPT ![item[p]] = left]
    /\ Goto(p, "asking")
    /\ UNCHANGED <<aged, partial, sound, referenced, locks, leaseFiles, item, pull, gc, faults>>

\* The registry honours the range, which is not empty (206).
Resume(p) ==
    /\ pc[p] = "asking"
    /\ partial[item[p]] \in 1..(Size - 1)
    /\ Goto(p, "receiving")
    /\ UNCHANGED <<cache, locks, leaseFiles, item, pull, gc, faults>>

\* Mutant of Restart: the answer is appended to what is there.
RestartAppending(p) ==
    /\ pc[p] = "asking"
    /\ Goto(p, "receiving")
    /\ sound' = [sound EXCEPT ![item[p]] = partial[item[p]] = 0]
    /\ UNCHANGED <<file, aged, partial, referenced, locks, leaseFiles, item, pull, gc, faults>>

\* The whole blob comes (200): written over the partial file.
Restart(p) ==
    /\ pc[p] = "asking"
    /\ partial' = [partial EXCEPT ![item[p]] = 0]
    /\ sound' = [sound EXCEPT ![item[p]] = TRUE]
    /\ Goto(p, "receiving")
    /\ UNCHANGED <<file, aged, referenced, locks, leaseFiles, item, pull, gc, faults>>

\* An HTTP error, 416 for an empty range among them: not retried.
HttpError(p) ==
    /\ pc[p] = "asking"
    /\ Abort(p)
    /\ UNCHANGED cache

\* The answer is of another range than the one asked for.
WrongRange(p) ==
    /\ pc[p] = "asking"
    /\ partial[item[p]] > 0
    /\ partial' = [partial EXCEPT ![item[p]] = 0]
    /\ sound' = [sound EXCEPT ![item[p]] = TRUE]
    /\ Abort(p)
    /\ UNCHANGED <<file, aged, referenced>>

\* A chunk arrives, the right one or not.
Receive(p, right) ==
    /\ pc[p] = "receiving"
    /\ partial[item[p]] < Size
    /\ partial' = [partial EXCEPT ![item[p]] = @ + 1]
    /\ sound' = [sound EXCEPT ![item[p]] = @ /\ right]
    /\ UNCHANGED <<file, aged, referenced, locks, leaseFiles, pc, item, pull, gc, faults>>

\* More than the declared size arrives: an error, and nothing more is written.
Overlong(p) ==
    /\ pc[p] = "receiving"
    /\ Abort(p)
    /\ UNCHANGED cache

Again(p) ==
    /\ attempt[p] < Attempts
    /\ attempt' = [attempt EXCEPT ![p] = @ + 1]
    /\ Goto(p, "asking")
    /\ UNCHANGED <<locks, leaseFiles, item, wanted, missing, unpacked, gc, faults>>

GiveUp(p) == attempt[p] = Attempts /\ Abort(p)

\* Mutant of Transport: the attempts are not counted.
TransportUncounted(p) ==
    /\ pc[p] \in {"asking", "receiving"}
    /\ Goto(p, "asking")
    /\ UNCHANGED <<cache, locks, leaseFiles, item, pull, gc, faults>>

\* A reset or a read timeout: what has arrived stays for the next attempt.
Transport(p) ==
    /\ pc[p] \in {"asking", "receiving"}
    /\ Again(p) \/ GiveUp(p)
    /\ UNCHANGED cache

\* The stream ends early: resumed, unless this was the last attempt.
Truncated(p) ==
    /\ pc[p] = "receiving"
    /\ partial[item[p]] < Size
    /\ \/ Again(p) /\ UNCHANGED cache
       \/ /\ GiveUp(p)
          /\ partial' = [partial EXCEPT ![item[p]] = 0]
          /\ sound' = [sound EXCEPT ![item[p]] = TRUE]
          /\ UNCHANGED <<file, aged, referenced>>

\* Complete, and the digest is wrong: from the beginning.
Corrupt(p) ==
    /\ pc[p] = "receiving"
    /\ partial[item[p]] = Size
    /\ ~sound[item[p]]
    /\ Again(p) \/ GiveUp(p)
    /\ partial' = [partial EXCEPT ![item[p]] = 0]
    /\ sound' = [sound EXCEPT ![item[p]] = TRUE]
    /\ UNCHANGED <<file, aged, referenced>>

\* Mutant of Commit: the digest is not compared.
CommitUnverified(p) ==
    /\ pc[p] = "receiving"
    /\ partial[item[p]] = Size
    /\ file' = [file EXCEPT ![item[p]] = IF sound[item[p]] THEN "good" ELSE "bad"]
    /\ aged' = [aged EXCEPT ![item[p]] = FALSE]
    /\ partial' = [partial EXCEPT ![item[p]] = 0]
    /\ sound' = [sound EXCEPT ![item[p]] = TRUE]
    /\ Return(p)
    /\ UNCHANGED referenced

Commit(p) ==
    /\ pc[p] = "receiving"
    /\ partial[item[p]] = Size
    /\ sound[item[p]]
    /\ file' = [file EXCEPT ![item[p]] = "good"]
    /\ aged' = [aged EXCEPT ![item[p]] = FALSE]
    /\ partial' = [partial EXCEPT ![item[p]] = 0]
    /\ Return(p)
    /\ UNCHANGED <<sound, referenced>>

\* The caller reads the blob and unpacks it, or finds it gone or bad.
Use(p) ==
    /\ pc[p] = "using"
    /\ Abort(p)
    /\ UNCHANGED cache

\* A small blob whose bytes are in memory and verified; all inside its lock.
CacheVerified(p, b) ==
    /\ pc[p] = "idle"
    /\ lock[b] = NoProc
    /\ file[b] # "good"
    /\ file' = [file EXCEPT ![b] = "good"]
    /\ aged' = [aged EXCEPT ![b] = FALSE]
    /\ UNCHANGED <<partial, sound, referenced, locks, leaseFiles, pc, item, pull, gc, faults>>

-----------------------------------------------------------------------------
(* Artifacts: the sparse pull.                                             *)

\* Mutant of SparseBegin: no lease.
SparseBeginUnleased(p, A) ==
    /\ pc[p] = "idle"
    /\ wanted' = [wanted EXCEPT ![p] = A]
    /\ Goto(p, "inspect")
    /\ UNCHANGED <<cache, locks, leaseFiles, item, attempt, missing, unpacked, gc, faults>>

\* cas_artifact_lease writes the lease files before anything is looked at.
SparseBegin(p, A) ==
    /\ pc[p] = "idle"
    /\ leases' = leases \cup ({p} \X A)
    /\ wanted' = [wanted EXCEPT ![p] = A]
    /\ Goto(p, "inspect")
    /\ UNCHANGED <<cache, locks, orphans, item, attempt, missing, unpacked, gc, faults>>

\* missing_capsule_frames, without a lock.  A frame that has something missing is
\* unpacked whole.
Inspect(p, A) ==
    /\ pc[p] = "inspect"
    /\ {a \in wanted[p] : file[a] # "good"} \subseteq A
    /\ A # {} => \E a \in A : file[a] # "good"
    /\ missing' = [missing EXCEPT ![p] = A]
    /\ Goto(p, "unpack")
    /\ UNCHANGED <<cache, locks, leaseFiles, item, attempt, wanted, unpacked, gc, faults>>

\* The download of a range fails or is cancelled, or a frame does not verify.
FrameFails(p) ==
    /\ pc[p] = "unpack"
    /\ unpacked[p] # missing[p]
    /\ Abort(p)
    /\ UNCHANGED cache

\* unpack_frame: an artifact that exists is left alone.
Unpack(p, a) ==
    /\ pc[p] = "unpack"
    /\ a \in missing[p] \ unpacked[p]
    /\ lock[a] = NoProc
    /\ unpacked' = [unpacked EXCEPT ![p] = @ \cup {a}]
    /\ IF file[a] = "none"
       THEN /\ file' = [file EXCEPT ![a] = "good"]
            /\ aged' = [aged EXCEPT ![a] = FALSE]
       ELSE UNCHANGED <<file, aged>>
    /\ UNCHANGED <<partial, sound, referenced, locks, leaseFiles, pc, item, attempt, wanted, missing, gc, faults>>

Unpacked(p) ==
    /\ pc[p] = "unpack"
    /\ unpacked[p] = missing[p]
    /\ Goto(p, "project")
    /\ UNCHANGED <<cache, locks, leaseFiles, item, pull, gc, faults>>

\* project_artifacts: verified, touched and linked into the environment.
Project(p, a) ==
    /\ pc[p] = "project"
    /\ a \in wanted[p]
    /\ lock[a] = NoProc
    /\ file[a] = "good"
    /\ aged' = [aged EXCEPT ![a] = FALSE]
    /\ wanted' = [wanted EXCEPT ![p] = @ \ {a}]
    /\ UNCHANGED <<file, partial, sound, referenced, locks, leaseFiles, pc, item, attempt, missing, unpacked, gc, faults>>

Unavailable(p, a) ==
    /\ pc[p] = "project"
    /\ a \in wanted[p]
    /\ lock[a] = NoProc
    /\ file[a] # "good"
    /\ Abort(p)
    /\ UNCHANGED cache

SparseEnd(p) ==
    /\ pc[p] = "project"
    /\ wanted[p] = {}
    /\ Abort(p)
    /\ UNCHANGED cache

-----------------------------------------------------------------------------
(* clean_downloads.                                                        *)

HasLease(i) == i \in orphans \/ \E p \in Procs : <<p, i>> \in leases

\* The files are listed and the time is taken before the lock is waited for: what
\* comes or grows old later is not for this clean. What is young at its turn is kept,
\* so a file that is listed, replaced and old again at its turn is the only one the
\* code, which measures against the time it took, would still keep.
CleanBegin(p) ==
    /\ pc[p] = "idle"
    /\ todo' = [todo EXCEPT ![p] = {i \in Items : file[i] # "none" /\ aged[i]}]
    /\ Goto(p, "collect")
    /\ UNCHANGED <<cache, locks, leaseFiles, item, pull, known, faults>>

TakeCollector(p) ==
    /\ pc[p] = "collect"
    /\ gcLock = NoProc
    /\ gcLock' = p
    /\ known' = [known EXCEPT ![p] = referenced]
    /\ Goto(p, "looking")
    /\ UNCHANGED <<cache, lock, leaseFiles, item, pull, todo, faults>>

Kept(i, refs) == file[i] = "none" \/ i \in refs \/ ~aged[i] \/ HasLease(i)

\* The first look, without the lock of the file.
LookKeep(p, i) ==
    /\ pc[p] = "looking"
    /\ i \in todo[p]
    /\ Kept(i, known[p])
    /\ todo' = [todo EXCEPT ![p] = @ \ {i}]
    /\ UNCHANGED <<cache, locks, leaseFiles, pc, item, pull, known, faults>>

LookCandidate(p, i) ==
    /\ pc[p] = "looking"
    /\ i \in todo[p]
    /\ ~Kept(i, known[p])
    /\ todo' = [todo EXCEPT ![p] = @ \ {i}]
    /\ item' = [item EXCEPT ![p] = i]
    /\ Goto(p, "candidate")
    /\ UNCHANGED <<cache, locks, leaseFiles, pull, known, faults>>

\* Mutant of Recheck: the second look is left out.
RecheckNothing(p) ==
    /\ pc[p] = "candidate"
    /\ lock[item[p]] = NoProc
    /\ lock' = [lock EXCEPT ![item[p]] = p]
    /\ Goto(p, "unlinking")
    /\ UNCHANGED <<cache, gcLock, leaseFiles, item, pull, gc, faults>>

\* The second look, inside the lock of the file, at the references read anew.
Recheck(p) ==
    /\ pc[p] = "candidate"
    /\ lock[item[p]] = NoProc
    /\ known' = [known EXCEPT ![p] = IF item[p] \in Blobs THEN referenced ELSE @]
    /\ IF Kept(item[p], known'[p])
       THEN /\ item' = [item EXCEPT ![p] = NoItem]
            /\ Goto(p, "looking")
            /\ UNCHANGED lock
       ELSE /\ lock' = [lock EXCEPT ![item[p]] = p]
            /\ Goto(p, "unlinking")
            /\ UNCHANGED item
    /\ UNCHANGED <<cache, gcLock, leaseFiles, pull, todo, faults>>

\* Mutant of Unlink: the lock of the file is kept until the end of the clean.
UnlinkLocked(p) ==
    /\ pc[p] = "unlinking"
    /\ file' = [file EXCEPT ![item[p]] = "none"]
    /\ aged' = [aged EXCEPT ![item[p]] = FALSE]
    /\ item' = [item EXCEPT ![p] = NoItem]
    /\ Goto(p, "looking")
    /\ UNCHANGED <<partial, sound, referenced, locks, leaseFiles, pull, gc, faults>>

Unlink(p) ==
    /\ pc[p] = "unlinking"
    /\ file' = [file EXCEPT ![item[p]] = "none"]
    /\ aged' = [aged EXCEPT ![item[p]] = FALSE]
    /\ lock' = [lock EXCEPT ![item[p]] = NoProc]
    /\ item' = [item EXCEPT ![p] = NoItem]
    /\ Goto(p, "looking")
    /\ UNCHANGED <<partial, sound, referenced, gcLock, leaseFiles, pull, gc, faults>>

CleanEnd(p) ==
    /\ pc[p] = "looking"
    /\ todo[p] = {}
    /\ Abort(p)
    /\ UNCHANGED cache

-----------------------------------------------------------------------------
(* The world.                                                              *)

\* The lock somebody waits for is not let go within its timeout.
LockTimeout(p) ==
    /\ \/ pc[p] \in {"queued", "candidate"} /\ lock[item[p]] # NoProc
       \/ pc[p] = "collect" /\ gcLock # NoProc
       \/ pc[p] = "unpack" /\ \E a \in missing[p] \ unpacked[p] : lock[a] # NoProc
       \/ pc[p] = "project" /\ \E a \in wanted[p] : lock[a] # NoProc
    /\ Abort(p)
    /\ UNCHANGED cache

\* An environment whose metadata names b is published or removed.
Refer(b) ==
    /\ file[b] = "good"
    /\ referenced' = IF b \in referenced THEN referenced \ {b} ELSE referenced \cup {b}
    /\ UNCHANGED <<file, aged, partial, sound, locks, leaseFiles, pc, item, pull, gc, faults>>

Age(i) ==
    /\ file[i] # "none"
    /\ ~aged[i]
    /\ aged' = [aged EXCEPT ![i] = TRUE]
    /\ UNCHANGED <<file, partial, sound, referenced, locks, leaseFiles, pc, item, pull, gc, faults>>

\* A blob that nobody is at work on goes bad on disk.
Rot(b) ==
    /\ faults < MaxFaults
    /\ faults' = faults + 1
    /\ lock[b] = NoProc
    /\ file[b] = "good"
    /\ file' = [file EXCEPT ![b] = "bad"]
    /\ UNCHANGED <<aged, partial, sound, referenced, locks, leaseFiles, pc, item, pull, gc>>

\* A process dies: its locks go, its lease files and what it has written stay.
Crash(p) ==
    /\ pc[p] # "idle"
    /\ faults < MaxFaults
    /\ faults' = faults + 1
    /\ orphans' = orphans \cup {a \in Artifacts : <<p, a>> \in leases}
    /\ Leave(p)
    /\ UNCHANGED cache

-----------------------------------------------------------------------------

Start(p) ==
    \/ \E b \in Blobs : PullBegin(p, b) \/ CacheVerified(p, b)
    \/ \E A \in (SUBSET Artifacts) \ {{}} : SparseBegin(p, A)
    \/ CleanBegin(p)

Step(p) ==
    \/ TakeBlob(p) \/ Cached(p) \/ NotCached(p)
    \/ Resume(p) \/ Restart(p) \/ HttpError(p) \/ WrongRange(p)
    \/ \E right \in BOOLEAN : Receive(p, right)
    \/ Overlong(p) \/ Transport(p) \/ Truncated(p) \/ Corrupt(p) \/ Commit(p) \/ Use(p)
    \/ \E A \in SUBSET wanted[p] : Inspect(p, A)
    \/ FrameFails(p) \/ Unpacked(p) \/ SparseEnd(p)
    \/ \E a \in Artifacts : Unpack(p, a) \/ Project(p, a) \/ Unavailable(p, a)
    \/ TakeCollector(p) \/ Recheck(p) \/ Unlink(p) \/ CleanEnd(p)
    \/ \E i \in Items : LookKeep(p, i) \/ LookCandidate(p, i)
    \/ LockTimeout(p)

Next ==
    \/ \E p \in Procs : Start(p) \/ Step(p) \/ Cancel(p) \/ Crash(p)
    \/ \E b \in Blobs : Refer(b) \/ Rot(b)
    \/ \E i \in Items : Age(i)

\* Requests and reads time out, and so do waits for locks: what has been started
\* goes on.
Fairness == \A p \in Procs : WF_vars(Step(p))

Spec == Init /\ [][Next]_vars /\ Fairness

-----------------------------------------------------------------------------
(* Properties.                                                             *)

\* Whatever the registry sends, however often it stops, and whatever an earlier
\* process has left behind: the path download_blob returns is that of a file
\* with the right bytes.
ReturnsVerified ==
    [][\A p \in Procs : pc[p] \in Downloading /\ pc'[p] = "using" => file'[item[p]] = "good"]_vars

\* clean_downloads removes only what is old and without a lease at the moment it
\* took the lock, and what is new is kept until that lock is let go.
YoungKept ==
    [][\A i \in Items : file[i] = "good" /\ file'[i] = "none" => aged[i]]_vars

\* An artifact that a sparse pull has unpacked stays until it is projected
\* (CHANGELOG.md: "a concurrent `clean --include-downloads` cannot reclaim an
\* artifact that is being projected").
UnpackedKept == \A p \in Procs : \A a \in unpacked[p] \cap wanted[p] : file[a] # "none"

\* Every pull and every clean comes to an end.
Ends == \A p \in Procs : pc[p] # "idle" ~> pc[p] = "idle"

-----------------------------------------------------------------------------
(* What the code says of itself and does not keep.                         *)

\* download_blob: "Connection resets and read timeouts mid-transfer are
\* retryable; the kept partial resumes on the next attempt."  There is something
\* left to ask for when a partial file is resumed.
ResumesBelowSize == \A p \in Procs : pc[p] = "asking" => partial[item[p]] < Size
=============================================================================
