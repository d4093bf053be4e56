-------------------------- MODULE DownloadsProofs --------------------------
(***************************************************************************)
(* What is proved about the caches of downloads for every number of        *)
(* callers, blobs, artifacts, chunks, attempts and faults: the types with  *)
(* the discipline of the locks (TypeOK), that a returned blob is verified  *)
(* (ReturnsVerified), that nothing young is collected (YoungKept) and that *)
(* what was unpacked for a pull stays until it is projected (UnpackedKept).*)
(*                                                                         *)
(* UnpackedKept is not inductive.  The collector takes an artifact that    *)
(* has no lease when it looks again inside the lock, and a lease may be    *)
(* written after that: the artifact is still nobody's unpacked one, because*)
(* unpacking needs the lock the collector holds (Removable), and what is   *)
(* unpacked has been leased since before (Covered).                        *)
(***************************************************************************)
EXTENDS Downloads, TLAPS

\* What is to be removed is a file of the cache.
Candidates == \A p \in Procs : pc[p] \in {"candidate", "unlinking"} => item[p] \in Items

\* A pull has a lease on all it has still to project, and has unpacked nothing
\* unless it is at work.
Covered ==
    \A p \in Procs :
        /\ \A a \in wanted[p] : <<p, a>> \in leases
        /\ pc[p] \notin Sparse => unpacked[p] = {} /\ wanted[p] = {}

\* What is being removed is old, and was unpacked for nobody who still wants it.
Removable ==
    \A p \in Procs :
        pc[p] = "unlinking" =>
            /\ aged[item[p]]
            /\ \A q \in Procs : item[p] \notin unpacked[q] \cap wanted[q]

IInv == TypeOK /\ Candidates /\ Covered /\ Removable /\ UnpackedKept

LEMMA Initially == Init => IInv
  BY DownloadsAssumption
  DEF Init, IInv, TypeOK, Candidates, Covered, Removable, UnpackedKept, Sparse, Downloading, Collecting

-----------------------------------------------------------------------------
(* Leaving an operation.                                                   *)

LEMMA LeaveKeeps ==
  ASSUME IInv, NEW p \in Procs, Leave(p), orphans' \subseteq Artifacts, faults' \in Nat,
         UNCHANGED <<file, aged, referenced>>,
         partial' \in [Blobs -> 0..Size], sound' \in [Blobs -> BOOLEAN]
  PROVE  IInv'
<1> USE DownloadsAssumption DEF IInv, Leave, Locals, Unlocked, Goto, Sparse, Downloading, Collecting
<1>1. TypeOK'
  BY DEF TypeOK
<1>2. Candidates'
  BY DEF TypeOK, Candidates
<1>3. Covered'
  BY DEF TypeOK, Covered
<1>4. Removable'
  BY DEF TypeOK, Removable
<1>5. UnpackedKept'
  BY DEF TypeOK, UnpackedKept
<1> QED BY <1>1, <1>2, <1>3, <1>4, <1>5

\* The steps that end an operation and leave the files alone.
LEMMA AbortKeeps ==
  ASSUME IInv, NEW p \in Procs, Abort(p), UNCHANGED cache
  PROVE  IInv'
  BY LeaveKeeps DEF Abort, cache, IInv, TypeOK

\* The steps that end an operation and throw the partial file away.
LEMMA DiscardKeeps ==
  ASSUME IInv, NEW p \in Procs, Abort(p), pc[p] \in Downloading,
         partial' = [partial EXCEPT ![item[p]] = 0],
         sound' = [sound EXCEPT ![item[p]] = TRUE],
         UNCHANGED <<file, aged, referenced>>
  PROVE  IInv'
<1>1. partial' \in [Blobs -> 0..Size] /\ sound' \in [Blobs -> BOOLEAN]
  BY DownloadsAssumption DEF IInv, TypeOK
<1> QED BY <1>1, LeaveKeeps DEF Abort, IInv, TypeOK


-----------------------------------------------------------------------------
(* The steps of a pull that go on.                                         *)

\* Towards the answer of the registry.
LEMMA AskKeeps ==
  ASSUME IInv, NEW p \in Procs,
         TakeBlob(p) \/ Cached(p) \/ NotCached(p) \/ Resume(p) \/ Restart(p)
  PROVE  IInv'
<1> USE DownloadsAssumption DEF IInv, Items, Goto, Sparse, Downloading, Collecting, cache, locks, leaseFiles, pull, gc, Return
<1>1. CASE TakeBlob(p)
  <2>1. TypeOK'
    BY <1>1 DEF TakeBlob, TypeOK
  <2>2. Candidates'
    BY <1>1 DEF TakeBlob, TypeOK, Candidates
  <2>3. Covered'
    BY <1>1 DEF TakeBlob, TypeOK, Covered
  <2>4. Removable'
    BY <1>1 DEF TakeBlob, TypeOK, Covered, Removable
  <2>5. UnpackedKept'
    BY <1>1 DEF TakeBlob, TypeOK, Covered, Removable, UnpackedKept
  <2> QED BY <2>1, <2>2, <2>3, <2>4, <2>5
<1>2. CASE Cached(p)
  <2>1. TypeOK'
    BY <1>2 DEF Cached, TypeOK
  <2>2. Candidates'
    BY <1>2 DEF Cached, TypeOK, Candidates
  <2>3. Covered'
    BY <1>2 DEF Cached, TypeOK, Covered
  <2>4. Removable'
    BY <1>2 DEF Cached, TypeOK, Covered, Removable
  <2>5. UnpackedKept'
    BY <1>2 DEF Cached, TypeOK, Covered, Removable, UnpackedKept
  <2> QED BY <2>1, <2>2, <2>3, <2>4, <2>5
<1>3. CASE NotCached(p)
  <2>1. TypeOK'
    BY <1>3 DEF NotCached, TypeOK
  <2>2. Candidates'
    BY <1>3 DEF NotCached, TypeOK, Candidates
  <2>3. Covered'
    BY <1>3 DEF NotCached, TypeOK, Covered
  <2>4. Removable'
    BY <1>3 DEF NotCached, TypeOK, Covered, Removable
  <2>5. UnpackedKept'
    BY <1>3 DEF NotCached, TypeOK, Covered, Removable, UnpackedKept
  <2> QED BY <2>1, <2>2, <2>3, <2>4, <2>5
<1>4. CASE Resume(p)
  <2>1. TypeOK'
    BY <1>4 DEF Resume, TypeOK
  <2>2. Candidates'
    BY <1>4 DEF Resume, TypeOK, Candidates
  <2>3. Covered'
    BY <1>4 DEF Resume, TypeOK, Covered
  <2>4. Removable'
    BY <1>4 DEF Resume, TypeOK, Covered, Removable
  <2>5. UnpackedKept'
    BY <1>4 DEF Resume, TypeOK, Covered, Removable, UnpackedKept
  <2> QED BY <2>1, <2>2, <2>3, <2>4, <2>5
<1>5. CASE Restart(p)
  <2>1. TypeOK'
    BY <1>5 DEF Restart, TypeOK
  <2>2. Candidates'
    BY <1>5 DEF Restart, TypeOK, Candidates
  <2>3. Covered'
    BY <1>5 DEF Restart, TypeOK, Covered
  <2>4. Removable'
    BY <1>5 DEF Restart, TypeOK, Covered, Removable
  <2>5. UnpackedKept'
    BY <1>5 DEF Restart, TypeOK, Covered, Removable, UnpackedKept
  <2> QED BY <2>1, <2>2, <2>3, <2>4, <2>5
<1> QED BY <1>1, <1>2, <1>3, <1>4, <1>5

\* A pull begins, a small blob is stored.
LEMMA BeginKeeps ==
  ASSUME IInv, NEW p \in Procs, NEW b \in Blobs,
         PullBegin(p, b) \/ CacheVerified(p, b)
  PROVE  IInv'
<1> USE DownloadsAssumption DEF IInv, Items, Goto, Sparse, Downloading, Collecting, cache, locks, leaseFiles, pull, gc
<1>1. CASE PullBegin(p, b)
  <2>1. TypeOK'
    BY <1>1 DEF PullBegin, TypeOK
  <2>2. Candidates'
    BY <1>1 DEF PullBegin, TypeOK, Candidates
  <2>3. Covered'
    BY <1>1 DEF PullBegin, TypeOK, Covered
  <2>4. Removable'
    BY <1>1 DEF PullBegin, TypeOK, Covered, Removable
  <2>5. UnpackedKept'
    BY <1>1 DEF PullBegin, TypeOK, Covered, Removable, UnpackedKept
  <2> QED BY <2>1, <2>2, <2>3, <2>4, <2>5
<1>2. CASE CacheVerified(p, b)
  <2>1. TypeOK'
    BY <1>2 DEF CacheVerified, TypeOK
  <2>2. Candidates'
    BY <1>2 DEF CacheVerified, TypeOK, Candidates
  <2>3. Covered'
    BY <1>2 DEF CacheVerified, TypeOK, Covered
  <2>4. Removable'
    BY <1>2 DEF CacheVerified, TypeOK, Covered, Removable
  <2>5. UnpackedKept'
    BY <1>2 DEF CacheVerified, TypeOK, Covered, Removable, UnpackedKept
  <2> QED BY <2>1, <2>2, <2>3, <2>4, <2>5
<1> QED BY <1>1, <1>2

\* Bytes arrive.
LEMMA ReceiveKeeps ==
  ASSUME IInv, NEW p \in Procs, NEW right \in BOOLEAN,
         Receive(p, right)
  PROVE  IInv'
<1> USE DownloadsAssumption DEF IInv, Items, Goto, Sparse, Downloading, Collecting, cache, locks, leaseFiles, pull, gc
<1>1. CASE Receive(p, right)
  <2>1. TypeOK'
    BY <1>1 DEF Receive, TypeOK
  <2>2. Candidates'
    BY <1>1 DEF Receive, TypeOK, Candidates
  <2>3. Covered'
    BY <1>1 DEF Receive, TypeOK, Covered
  <2>4. Removable'
    BY <1>1 DEF Receive, TypeOK, Covered, Removable
  <2>5. UnpackedKept'
    BY <1>1 DEF Receive, TypeOK, Covered, Removable, UnpackedKept
  <2> QED BY <2>1, <2>2, <2>3, <2>4, <2>5
<1> QED BY <1>1

\* The blob is complete and right.
LEMMA CommitKeeps ==
  ASSUME IInv, NEW p \in Procs,
         Commit(p)
  PROVE  IInv'
<1> USE DownloadsAssumption DEF IInv, Items, Goto, Sparse, Downloading, Collecting, cache, locks, leaseFiles, pull, gc, Return
<1>1. CASE Commit(p)
  <2>1. TypeOK'
    BY <1>1 DEF Commit, TypeOK
  <2>2. Candidates'
    BY <1>1 DEF Commit, TypeOK, Candidates
  <2>3. Covered'
    BY <1>1 DEF Commit, TypeOK, Covered
  <2>4. Removable'
    BY <1>1 DEF Commit, TypeOK, Covered, Removable
  <2>5. UnpackedKept'
    BY <1>1 DEF Commit, TypeOK, Covered, Removable, UnpackedKept
  <2> QED BY <2>1, <2>2, <2>3, <2>4, <2>5
<1> QED BY <1>1

\* The next attempt.
LEMMA AgainKeeps ==
  ASSUME IInv, NEW p \in Procs, pc[p] \in Downloading,
         Again(p), UNCHANGED cache
  PROVE  IInv'
<1> USE DownloadsAssumption DEF IInv, Items, Goto, Sparse, Downloading, Collecting, cache, locks, leaseFiles, pull, gc
<1>1. CASE Again(p) /\ UNCHANGED cache
  <2>1. TypeOK'
    BY <1>1 DEF Again, TypeOK
  <2>2. Candidates'
    BY <1>1 DEF Again, TypeOK, Candidates
  <2>3. Covered'
    BY <1>1 DEF Again, TypeOK, Covered
  <2>4. Removable'
    BY <1>1 DEF Again, TypeOK, Covered, Removable
  <2>5. UnpackedKept'
    BY <1>1 DEF Again, TypeOK, Covered, Removable, UnpackedKept
  <2> QED BY <2>1, <2>2, <2>3, <2>4, <2>5
<1> QED BY <1>1

-----------------------------------------------------------------------------
(* The steps of a sparse pull.                                             *)

\* The leases come first.
LEMMA SparseBeginKeeps ==
  ASSUME IInv, NEW p \in Procs, NEW A \in SUBSET Artifacts,
         SparseBegin(p, A)
  PROVE  IInv'
<1> USE DownloadsAssumption DEF IInv, Items, Goto, Sparse, Downloading, Collecting, cache, locks, leaseFiles, pull, gc
<1>1. CASE SparseBegin(p, A)
  <2>1. TypeOK'
    BY <1>1 DEF SparseBegin, TypeOK
  <2>2. Candidates'
    BY <1>1 DEF SparseBegin, TypeOK, Candidates
  <2>3. Covered'
    BY <1>1 DEF SparseBegin, TypeOK, Covered
  <2>4. Removable'
    BY <1>1 DEF SparseBegin, TypeOK, Covered, Removable
  <2>5. UnpackedKept'
    BY <1>1 DEF SparseBegin, TypeOK, Covered, Removable, UnpackedKept
  <2> QED BY <2>1, <2>2, <2>3, <2>4, <2>5
<1> QED BY <1>1

\* What is missing.
LEMMA InspectKeeps ==
  ASSUME IInv, NEW p \in Procs, NEW A \in SUBSET wanted[p],
         Inspect(p, A)
  PROVE  IInv'
<1> USE DownloadsAssumption DEF IInv, Items, Goto, Sparse, Downloading, Collecting, cache, locks, leaseFiles, pull, gc
<1>1. CASE Inspect(p, A)
  <2>1. TypeOK'
    BY <1>1 DEF Inspect, TypeOK
  <2>2. Candidates'
    BY <1>1 DEF Inspect, TypeOK, Candidates
  <2>3. Covered'
    BY <1>1 DEF Inspect, TypeOK, Covered
  <2>4. Removable'
    BY <1>1 DEF Inspect, TypeOK, Covered, Removable
  <2>5. UnpackedKept'
    BY <1>1 DEF Inspect, TypeOK, Covered, Removable, UnpackedKept
  <2> QED BY <2>1, <2>2, <2>3, <2>4, <2>5
<1> QED BY <1>1

\* Artifacts appear and are linked.
LEMMA UnpackKeeps ==
  ASSUME IInv, NEW p \in Procs, NEW a \in Artifacts,
         Unpack(p, a) \/ Project(p, a)
  PROVE  IInv'
<1> USE DownloadsAssumption DEF IInv, Items, Goto, Sparse, Downloading, Collecting, cache, locks, leaseFiles, pull, gc
<1>1. CASE Unpack(p, a)
  <2>0. /\ file' \in [Items -> {"none", "good", "bad"}] /\ aged' \in [Items -> BOOLEAN]
        /\ \A j \in Items : file[j] # "none" => file'[j] # "none"
        /\ \A j \in Items : j # a => aged'[j] = aged[j]
        /\ file'[a] # "none"
        /\ lock[a] = NoProc
    <3>1. CASE file[a] = "none"
      <4>1. file' = [file EXCEPT ![a] = "good"] /\ aged' = [aged EXCEPT ![a] = FALSE]
        BY <1>1, <3>1 DEF Unpack
      <4> QED BY <1>1, <4>1 DEF Unpack, TypeOK
    <3>2. CASE file[a] # "none"
      BY <1>1, <3>2 DEF Unpack, TypeOK
    <3> QED BY <3>1, <3>2
  <2>1. TypeOK'
    BY <1>1, <2>0 DEF Unpack, TypeOK
  <2>2. Candidates'
    BY <1>1 DEF Unpack, TypeOK, Candidates
  <2>3. Covered'
    BY <1>1 DEF Unpack, TypeOK, Covered
  <2>4. Removable'
    <3>1. ASSUME NEW r \in Procs, pc[r] = "unlinking"
          PROVE  item[r] \in Items /\ item[r] # a
      BY <2>0, <3>1 DEF TypeOK, Candidates
    <3> QED BY <1>1, <2>0, <3>1 DEF Unpack, TypeOK, Removable
  <2>5. UnpackedKept'
    BY <1>1, <2>0 DEF Unpack, TypeOK, UnpackedKept
  <2> QED BY <2>1, <2>2, <2>3, <2>4, <2>5
<1>2. CASE Project(p, a)
  <2>1. TypeOK'
    BY <1>2 DEF Project, TypeOK
  <2>2. Candidates'
    BY <1>2 DEF Project, TypeOK, Candidates
  <2>3. Covered'
    BY <1>2 DEF Project, TypeOK, Covered
  <2>4. Removable'
    BY <1>2 DEF Project, TypeOK, Covered, Removable
  <2>5. UnpackedKept'
    BY <1>2 DEF Project, TypeOK, Covered, Removable, UnpackedKept
  <2> QED BY <2>1, <2>2, <2>3, <2>4, <2>5
<1> QED BY <1>1, <1>2

\* Nothing is missing any more; a clean begins.
LEMMA UnpackedKeeps ==
  ASSUME IInv, NEW p \in Procs,
         Unpacked(p) \/ CleanBegin(p)
  PROVE  IInv'
<1> USE DownloadsAssumption DEF IInv, Items, Goto, Sparse, Downloading, Collecting, cache, locks, leaseFiles, pull, gc
<1>1. CASE Unpacked(p)
  <2>1. TypeOK'
    BY <1>1 DEF Unpacked, TypeOK
  <2>2. Candidates'
    BY <1>1 DEF Unpacked, TypeOK, Candidates
  <2>3. Covered'
    BY <1>1 DEF Unpacked, TypeOK, Covered
  <2>4. Removable'
    BY <1>1 DEF Unpacked, TypeOK, Covered, Removable
  <2>5. UnpackedKept'
    BY <1>1 DEF Unpacked, TypeOK, Covered, Removable, UnpackedKept
  <2> QED BY <2>1, <2>2, <2>3, <2>4, <2>5
<1>2. CASE CleanBegin(p)
  <2>1. TypeOK'
    BY <1>2 DEF CleanBegin, TypeOK
  <2>2. Candidates'
    BY <1>2 DEF CleanBegin, TypeOK, Candidates
  <2>3. Covered'
    BY <1>2 DEF CleanBegin, TypeOK, Covered
  <2>4. Removable'
    BY <1>2 DEF CleanBegin, TypeOK, Covered, Removable
  <2>5. UnpackedKept'
    BY <1>2 DEF CleanBegin, TypeOK, Covered, Removable, UnpackedKept
  <2> QED BY <2>1, <2>2, <2>3, <2>4, <2>5
<1> QED BY <1>1, <1>2

-----------------------------------------------------------------------------
(* The steps of a collector.                                               *)

\* It looks, without the lock of the file.
LEMMA LookKeeps ==
  ASSUME IInv, NEW p \in Procs, NEW i \in Items,
         LookKeep(p, i) \/ LookCandidate(p, i)
  PROVE  IInv'
<1> USE DownloadsAssumption DEF IInv, Items, Goto, Sparse, Downloading, Collecting, cache, locks, leaseFiles, pull, gc, Kept, HasLease
<1>1. CASE LookKeep(p, i)
  <2>1. TypeOK'
    BY <1>1 DEF LookKeep, TypeOK
  <2>2. Candidates'
    BY <1>1 DEF LookKeep, TypeOK, Candidates
  <2>3. Covered'
    BY <1>1 DEF LookKeep, TypeOK, Covered
  <2>4. Removable'
    BY <1>1 DEF LookKeep, TypeOK, Covered, Removable
  <2>5. UnpackedKept'
    BY <1>1 DEF LookKeep, TypeOK, Covered, Removable, UnpackedKept
  <2> QED BY <2>1, <2>2, <2>3, <2>4, <2>5
<1>2. CASE LookCandidate(p, i)
  <2>1. TypeOK'
    <3>1. \A j \in Items, q \in Procs :
              lock'[j] = q <=> item'[q] = j /\ pc'[q] \in Downloading \cup {"unlinking"}
      BY <1>2 DEF LookCandidate, TypeOK
    <3>2. \A q \in Procs : pc'[q] \in {"queued", "using"} \cup Downloading => item'[q] \in Blobs
      BY <1>2 DEF LookCandidate, TypeOK
    <3> QED BY <1>2, <3>1, <3>2 DEF LookCandidate, TypeOK
  <2>2. Candidates'
    BY <1>2 DEF LookCandidate, TypeOK, Candidates
  <2>3. Covered'
    BY <1>2 DEF LookCandidate, TypeOK, Covered
  <2>4. Removable'
    BY <1>2 DEF LookCandidate, TypeOK, Covered, Removable
  <2>5. UnpackedKept'
    BY <1>2 DEF LookCandidate, TypeOK, Covered, Removable, UnpackedKept
  <2> QED BY <2>1, <2>2, <2>3, <2>4, <2>5
<1> QED BY <1>1, <1>2

\* It begins, and looks again and removes under the lock of the file.
LEMMA CollectKeeps ==
  ASSUME IInv, NEW p \in Procs,
         TakeCollector(p) \/ Recheck(p) \/ Unlink(p)
  PROVE  IInv'
<1> USE DownloadsAssumption DEF IInv, Items, Goto, Sparse, Downloading, Collecting, cache, locks, leaseFiles, pull, gc, Kept, HasLease
<1>1. CASE TakeCollector(p)
  <2>1. TypeOK'
    BY <1>1 DEF TakeCollector, TypeOK
  <2>2. Candidates'
    BY <1>1 DEF TakeCollector, TypeOK, Candidates
  <2>3. Covered'
    BY <1>1 DEF TakeCollector, TypeOK, Covered
  <2>4. Removable'
    BY <1>1 DEF TakeCollector, TypeOK, Covered, Removable
  <2>5. UnpackedKept'
    BY <1>1 DEF TakeCollector, TypeOK, Covered, Removable, UnpackedKept
  <2> QED BY <2>1, <2>2, <2>3, <2>4, <2>5
<1>2. CASE Recheck(p)
  <2>0. /\ known' \in [Procs -> SUBSET Blobs]
        /\ pc[p] = "candidate" /\ item[p] \in Items /\ lock[item[p]] = NoProc
        /\ UNCHANGED <<cache, gcLock, leaseFiles, pull, todo, faults>>
    BY <1>2 DEF Recheck, TypeOK, Candidates
  <2>1. CASE /\ item' = [item EXCEPT ![p] = NoItem]
             /\ pc' = [pc EXCEPT ![p] = "looking"]
             /\ UNCHANGED lock
    <3>1. TypeOK'
      BY <2>0, <2>1 DEF TypeOK
    <3>2. Candidates' /\ Covered' /\ Removable' /\ UnpackedKept'
      BY <2>0, <2>1 DEF TypeOK, Candidates, Covered, Removable, UnpackedKept
    <3> QED BY <3>1, <3>2
  <2>2. CASE /\ ~Kept(item[p], known'[p])
             /\ lock' = [lock EXCEPT ![item[p]] = p]
             /\ pc' = [pc EXCEPT ![p] = "unlinking"]
             /\ UNCHANGED item
    <3>1. TypeOK'
      BY <2>0, <2>2 DEF TypeOK
    <3>2. Candidates' /\ Covered' /\ UnpackedKept'
      BY <2>0, <2>2 DEF TypeOK, Candidates, Covered, UnpackedKept
    <3>3. aged[item[p]] /\ \A q \in Procs : item[p] \notin wanted[q]
      BY <2>0, <2>2 DEF TypeOK, Covered
    <3>4. Removable'
      BY <2>0, <2>2, <3>3 DEF TypeOK, Removable
    <3> QED BY <3>1, <3>2, <3>4
  <2> QED BY <1>2, <2>1, <2>2 DEF Recheck
<1>3. CASE Unlink(p)
  <2>1. TypeOK'
    <3>1. \A j \in Items, q \in Procs :
              lock'[j] = q <=> item'[q] = j /\ pc'[q] \in Downloading \cup {"unlinking"}
      BY <1>3 DEF Unlink, TypeOK, Candidates
    <3>2. \A q \in Procs : pc'[q] \in {"queued", "using"} \cup Downloading => item'[q] \in Blobs
      BY <1>3 DEF Unlink, TypeOK, Candidates
    <3> QED BY <1>3, <3>1, <3>2 DEF Unlink, TypeOK, Candidates
  <2>2. Candidates'
    BY <1>3 DEF Unlink, TypeOK, Candidates
  <2>3. Covered'
    BY <1>3 DEF Unlink, TypeOK, Covered
  <2>4. Removable'
    BY <1>3 DEF Unlink, TypeOK, Covered, Removable
  <2>5. UnpackedKept'
    BY <1>3 DEF Unlink, TypeOK, Covered, Removable, UnpackedKept
  <2> QED BY <2>1, <2>2, <2>3, <2>4, <2>5
<1> QED BY <1>1, <1>2, <1>3

-----------------------------------------------------------------------------
(* The invariant, and what follows from it.                                *)

\* The steps that end with an error or a result.
LEMMA EndsKeep ==
  ASSUME IInv, NEW p \in Procs,
         \/ Cancel(p) \/ HttpError(p) \/ WrongRange(p) \/ Overlong(p) \/ Use(p)
         \/ FrameFails(p) \/ (\E a \in Artifacts : Unavailable(p, a)) \/ SparseEnd(p)
         \/ CleanEnd(p) \/ LockTimeout(p)
  PROVE  IInv'
<1>1. CASE WrongRange(p)
  BY <1>1, DiscardKeeps DEF WrongRange, Downloading
<1>2. CASE ~WrongRange(p)
  <2>1. Abort(p) /\ UNCHANGED cache
    BY <1>2 DEF Cancel, HttpError, Overlong, Use, FrameFails, Unavailable, SparseEnd, CleanEnd, LockTimeout
  <2> QED BY <2>1, AbortKeeps
<1> QED BY <1>1, <1>2

\* An attempt that failed: the next one, or the end.
LEMMA AttemptKeeps ==
  ASSUME IInv, NEW p \in Procs, Transport(p) \/ Truncated(p) \/ Corrupt(p)
  PROVE  IInv'
<1> USE DEF Downloading
<1>1. CASE Transport(p)
  BY <1>1, AgainKeeps, AbortKeeps DEF Transport, GiveUp
<1>2. CASE Truncated(p)
  BY <1>2, AgainKeeps, DiscardKeeps DEF Truncated, GiveUp
<1>3. CASE Corrupt(p) /\ GiveUp(p)
  BY <1>3, DiscardKeeps DEF Corrupt, GiveUp
<1>4. CASE Corrupt(p) /\ Again(p)
  <2> USE DownloadsAssumption DEF IInv, Items, Again, Goto, Sparse, Collecting, locks, leaseFiles, gc
  <2>1. /\ pc[p] = "receiving" /\ UNCHANGED <<file, aged, referenced>>
        /\ partial' \in [Blobs -> 0..Size] /\ sound' \in [Blobs -> BOOLEAN]
    BY <1>4 DEF Corrupt, TypeOK
  <2>2. TypeOK'
    BY <1>4, <2>1 DEF TypeOK
  <2>3. Candidates' /\ Covered'
    BY <1>4, <2>1 DEF TypeOK, Candidates, Covered
  <2>4. Removable' /\ UnpackedKept'
    BY <1>4, <2>1 DEF TypeOK, Removable, UnpackedKept
  <2> QED BY <2>2, <2>3, <2>4
<1> QED BY <1>1, <1>2, <1>3, <1>4 DEF Corrupt

\* What the world does: no step of a caller, and nothing that is unpacked goes.
LEMMA WorldKeeps ==
  ASSUME IInv,
         \/ \E p \in Procs : Crash(p)
         \/ \E b \in Blobs : Refer(b) \/ Rot(b)
         \/ \E i \in Items : Age(i)
  PROVE  IInv'
<1> USE DownloadsAssumption DEF IInv, Items, cache, locks, leaseFiles, pull, gc
<1>1. ASSUME NEW p \in Procs, Crash(p) PROVE IInv'
  <2>1. /\ Leave(p) /\ orphans' \subseteq Artifacts /\ faults' \in Nat
        /\ UNCHANGED <<file, aged, referenced, partial, sound>>
    BY <1>1 DEF Crash, TypeOK
  <2> QED BY <2>1, LeaveKeeps DEF TypeOK
<1>2. ASSUME NEW b \in Blobs, Refer(b) PROVE IInv'
  BY <1>2 DEF Refer, TypeOK, Candidates, Covered, Removable, UnpackedKept
<1>3. ASSUME NEW b \in Blobs, Rot(b) PROVE IInv'
  BY <1>3 DEF Rot, TypeOK, Candidates, Covered, Removable, UnpackedKept
<1>4. ASSUME NEW i \in Items, Age(i) PROVE IInv'
  BY <1>4 DEF Age, TypeOK, Candidates, Covered, Removable, UnpackedKept
<1> QED BY <1>1, <1>2, <1>3, <1>4

LEMMA StutterKeeps == IInv /\ UNCHANGED vars => IInv'
  BY DEF IInv, vars, cache, locks, leaseFiles, pull, gc, TypeOK, Candidates, Covered, Removable, UnpackedKept

LEMMA Step_Keeps == IInv /\ [Next]_vars => IInv'
<1> SUFFICES ASSUME IInv, [Next]_vars PROVE IInv'
  OBVIOUS
<1>1. ASSUME NEW p \in Procs, Start(p) PROVE IInv'
  <2>1. CASE \E b \in Blobs : PullBegin(p, b) \/ CacheVerified(p, b)
    BY <2>1, BeginKeeps
  <2>2. CASE \E A \in (SUBSET Artifacts) \ {{}} : SparseBegin(p, A)
    BY <2>2, SparseBeginKeeps
  <2>3. CASE CleanBegin(p)
    BY <2>3, UnpackedKeeps
  <2> QED BY <1>1, <2>1, <2>2, <2>3 DEF Start
<1>2. ASSUME NEW p \in Procs, Step(p) PROVE IInv'
  <2>1. CASE TakeBlob(p) \/ Cached(p) \/ NotCached(p) \/ Resume(p) \/ Restart(p)
    BY <2>1, AskKeeps
  <2>2. CASE \/ HttpError(p) \/ WrongRange(p) \/ Overlong(p) \/ Use(p) \/ FrameFails(p)
             \/ SparseEnd(p) \/ CleanEnd(p) \/ LockTimeout(p)
             \/ \E a \in Artifacts : Unavailable(p, a)
    BY <2>2, EndsKeep
  <2>3. CASE \E right \in BOOLEAN : Receive(p, right)
    BY <2>3, ReceiveKeeps
  <2>4. CASE Transport(p) \/ Truncated(p) \/ Corrupt(p)
    BY <2>4, AttemptKeeps
  <2>5. CASE Commit(p)
    BY <2>5, CommitKeeps
  <2>6. CASE \E A \in SUBSET wanted[p] : Inspect(p, A)
    BY <2>6, InspectKeeps
  <2>7. CASE \E a \in Artifacts : Unpack(p, a) \/ Project(p, a)
    BY <2>7, UnpackKeeps
  <2>8. CASE Unpacked(p)
    BY <2>8, UnpackedKeeps
  <2>9. CASE TakeCollector(p) \/ Recheck(p) \/ Unlink(p)
    BY <2>9, CollectKeeps
  <2>10. CASE \E i \in Items : LookKeep(p, i) \/ LookCandidate(p, i)
    BY <2>10, LookKeeps
  <2> QED BY <1>2, <2>1, <2>2, <2>3, <2>4, <2>5, <2>6, <2>7, <2>8, <2>9, <2>10 DEF Step
<1>3. ASSUME NEW p \in Procs, Cancel(p) PROVE IInv'
  BY <1>3, EndsKeep
<1> QED BY <1>1, <1>2, <1>3, WorldKeeps, StutterKeeps DEF Next

\* The inductive invariant holds in every behaviour of the caches.
THEOREM Invariance == Spec => []IInv
  BY Initially, Step_Keeps, PTL DEF Spec

\* Every file, lock, lease and local variable of download_blob, pull_capsule and
\* clean_downloads is what it should be; a file is locked by exactly the caller
\* that is at work on it.
THEOREM TypeCorrect == Spec => []TypeOK
<1>1. IInv => TypeOK
  BY DEF IInv
<1> QED BY <1>1, Invariance, PTL

\* No collector takes what a sparse pull has unpacked and has still to project.
THEOREM PulledStays == Spec => []UnpackedKept
<1>1. IInv => UnpackedKept
  BY DEF IInv
<1> QED BY <1>1, Invariance, PTL

-----------------------------------------------------------------------------
(* What a step may never do.                                               *)

\* Only Unlink takes a sound file away, and only the one it found old.
LEMMA OldStep ==
  ASSUME IInv, [Next]_vars, NEW i \in Items, file[i] = "good", file'[i] = "none"
  PROVE  aged[i]
<1> USE DEF IInv, TypeOK, Items
<1>1. ASSUME NEW p \in Procs, Unlink(p) PROVE aged[i]
  BY <1>1 DEF Unlink, Removable
<1>2. ASSUME NEW p \in Procs, NotCached(p) PROVE FALSE
  BY <1>2 DEF NotCached, Downloading
<1>3. ASSUME NEW p \in Procs, Commit(p) \/ \E b \in Blobs : CacheVerified(p, b) PROVE FALSE
  BY <1>3 DEF Commit, CacheVerified, Downloading
<1>4. ASSUME NEW p \in Procs, NEW a \in Artifacts, Unpack(p, a) PROVE FALSE
  BY <1>4 DEF Unpack
<1>5. ASSUME NEW b \in Blobs, Rot(b) PROVE FALSE
  BY <1>5 DEF Rot
<1>6. ASSUME UNCHANGED file PROVE FALSE
  BY <1>6
<1> QED
  BY <1>1, <1>2, <1>3, <1>4, <1>5, <1>6
  DEF Next, Start, Step, vars, cache, PullBegin, SparseBegin, CleanBegin, TakeBlob, Cached, Resume,
      Restart, HttpError, WrongRange, Receive, Overlong, Transport, Truncated, Corrupt, Use, Inspect,
      FrameFails, Unpacked, SparseEnd, Project, Unavailable, TakeCollector, Recheck, CleanEnd,
      LookKeep, LookCandidate, LockTimeout, Cancel, Crash, Refer, Age

\* A collection removes only what was old when its lock was taken, whoever
\* downloads, projects or collects at the same time.
THEOREM YoungStays == Spec => YoungKept
<1>1. IInv /\ [Next]_vars => [\A i \in Items : file[i] = "good" /\ file'[i] = "none" => aged[i]]_vars
  BY OldStep
<1> QED BY <1>1, Invariance, PTL DEF Spec, YoungKept

\* A download ends in the hands of its caller only by Cached or Commit.
LEMMA ReturnStep ==
  ASSUME IInv, [Next]_vars, NEW p \in Procs, pc[p] \in Downloading, pc'[p] = "using"
  PROVE  file'[item[p]] = "good"
<1> USE DEF IInv, TypeOK, Items, Downloading, Goto
<1>1. CASE Cached(p)
  BY <1>1 DEF Cached, cache
<1>2. CASE Commit(p)
  BY <1>2 DEF Commit
<1>3. ASSUME NEW q \in Procs, q # p, Start(q) \/ Step(q) \/ Cancel(q) \/ Crash(q) PROVE FALSE
  <2>1. pc'[p] = pc[p]
    BY <1>3
    DEF Start, Step, PullBegin, CacheVerified, SparseBegin, CleanBegin, TakeBlob, Cached, Commit, Return,
        NotCached, Resume, Restart, HttpError, WrongRange, Receive, Overlong, Transport, Truncated,
        Corrupt, Again, GiveUp, Use, Inspect, FrameFails, Unpack, Unpacked, SparseEnd, Project,
        Unavailable, TakeCollector, Recheck, Unlink, CleanEnd, LookKeep, LookCandidate, LockTimeout,
        Cancel, Crash, Abort, Leave
  <2> QED BY <2>1
<1>4. ASSUME Start(p) \/ Step(p) \/ Cancel(p) \/ Crash(p), ~Cached(p), ~Commit(p) PROVE FALSE
  BY <1>4
  DEF Start, Step, PullBegin, CacheVerified, SparseBegin, CleanBegin, TakeBlob,
      NotCached, Resume, Restart, HttpError, WrongRange, Receive, Overlong, Transport, Truncated,
      Corrupt, Again, GiveUp, Use, Inspect, FrameFails, Unpack, Unpacked, SparseEnd, Project,
      Unavailable, TakeCollector, Recheck, Unlink, CleanEnd, LookKeep, LookCandidate, LockTimeout,
      Cancel, Crash, Abort, Leave
<1>5. ASSUME UNCHANGED pc PROVE FALSE
  BY <1>5
<1> QED BY <1>1, <1>2, <1>3, <1>4, <1>5 DEF Next, Refer, Rot, Age, vars

\* The path download_blob returns is that of a file with the right bytes, whatever
\* the registry sends and whatever an earlier attempt or process left behind.
THEOREM Verified == Spec => ReturnsVerified
<1>1. IInv /\ [Next]_vars
      => [\A p \in Procs : pc[p] \in Downloading /\ pc'[p] = "using" => file'[item[p]] = "good"]_vars
  BY ReturnStep
<1> QED BY <1>1, Invariance, PTL DEF Spec, ReturnsVerified

=============================================================================
