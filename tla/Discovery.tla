----------------------------- MODULE Discovery ------------------------------
(***************************************************************************)
(* The search for an environment that compiles a source: an ordered plan,  *)
(* a bounded march over its candidates, and the history that later         *)
(* searches of the same source read.                                       *)
(*                                                                         *)
(* Code: discovery/engine.py (discover), planner.py (Planner.order),       *)
(* probe.py, history.py and api.py (Discovery.discover_and_check).         *)
(*                                                                         *)
(* Abstractions.  One source is searched; candidates are numbered in the   *)
(* static order of the planner (fewest packages, newest, identifier).      *)
(* What Lean says of the source under a candidate never changes.  Clocks   *)
(* are flags that go up at any moment.  The history keeps its 512 sources. *)
(***************************************************************************)
EXTENDS Integers, Sequences, FiniteSets

CONSTANTS
    Searches,           \* concurrent searches of the source
    Candidates,         \* the plausible entries of the catalog: 1..n
    MaxCandidates,      \* of DiscoveryPolicy
    MaxAcquisitions,    \* max_remote_acquisitions
    Scenes,             \* what Lean may say of the source, and what is in the store
    MaxPassed,          \* bound: limits that pass, events that are set, crashes, in all
    NoSearch

\* "missing" is a module the inventory of the candidate does not list.
Verdicts == {"accepts", "identifier", "proof", "missing"}

ASSUME DiscoveryAssumption ==
    /\ Candidates \subseteq Nat \ {0} /\ IsFiniteSet(Candidates)
    /\ MaxCandidates \in Nat \ {0}
    /\ MaxAcquisitions \in Nat /\ MaxPassed \in Nat
    /\ Scenes \subseteq [verdict : [Candidates -> Verdicts], local : SUBSET Candidates]
    /\ NoSearch \notin Searches

VARIABLES
    verdict,        \* verdict[c]: what Lean says of the source under c
    localLocks,     \* candidates whose environment is in the store
    download,       \* allow_download
    past,           \* the history on disk, as far as the source is concerned
    historyLock,
    search,         \* search[s]: the state of discover and what follows it; crashed is
                    \* history, the candidates whose Lean crashed
    clock,          \* clock[s]: limits that have passed, and the caller's event
    edit            \* edit[s]: what s loaded of the history, if it edits it

discoveryVars == <<verdict, localLocks, download, past, historyLock, search, clock, edit>>

World == <<verdict, localLocks, download>>
History == <<past, historyLock, edit>>

-----------------------------------------------------------------------------
(* Vocabulary.                                                             *)

Statuses == {"none", "compiled", "lean_rejected", "environment_unavailable",
             "environment_integrity_failure", "timeout", "cancelled", "runtime_error"}

Limits == {"wall", "probes", "attempt", "external"}

Endings == {"none", "found", "source_rejected", "module_unavailable", "no_candidate",
         "time_limit", "acquisition_limit", "candidate_limit", "cancelled", "failed"}

\* The answers that claim nothing was left to try: confidence "exhausted".
Exhausted == {"source_rejected", "module_unavailable", "no_candidate"}

Pasts == [rejected : SUBSET Candidates, accepted : Candidates \cup {0},
          header : Candidates \cup {0}]

NoPast == [rejected |-> {}, accepted |-> 0, header |-> 0]

DiscoveryTypeOK ==
    /\ verdict \in [Candidates -> Verdicts]
    /\ localLocks \in SUBSET Candidates
    /\ download \in BOOLEAN
    /\ past \in Pasts
    /\ historyLock \in Searches \cup {NoSearch}
    /\ \A s \in Searches : edit[s] \subseteq Pasts /\ Cardinality(edit[s]) <= 1
    /\ \A s \in Searches :
         /\ search[s].phase \in {"idle", "march", "acquiring", "acquired", "checking",
                                 "rejections", "success", "over"}
         /\ search[s].plan \in Seq(Candidates)
         /\ search[s].next \in 1..(Len(search[s].plan) + 1)
         /\ search[s].tried \in [Candidates -> Statuses]
         /\ search[s].skipped \in SUBSET Candidates
         /\ search[s].fetched \in 0..MaxAcquisitions
         /\ search[s].localOnly \in BOOLEAN
         /\ search[s].crashed \in SUBSET Candidates
         /\ search[s].end \in Endings
    /\ clock \in [Searches -> [Limits -> BOOLEAN]]

DiscoveryInit ==
    /\ \E scene \in Scenes : verdict = scene.verdict /\ localLocks = scene.local
    /\ download \in BOOLEAN
    /\ past \in {[NoPast EXCEPT !.header = c] : c \in Candidates \cup {0}}
         \cup {[NoPast EXCEPT !.rejected = {c \in Candidates : verdict[c] # "accepts"}]}
    /\ historyLock = NoSearch
    /\ edit = [s \in Searches |-> {}]
    /\ search = [s \in Searches |->
           [phase |-> "idle", plan |-> <<>>, next |-> 1,
            tried |-> [c \in Candidates |-> "none"], skipped |-> {}, fetched |-> 0,
            localOnly |-> FALSE, crashed |-> {}, end |-> "none"]]
    /\ clock = [s \in Searches |-> [limit \in Limits |-> FALSE]]

-----------------------------------------------------------------------------
(* Planner.order.                                                          *)

\* Mutant of Eligible: a source rejected everywhere is not tried again.
EligibleOnce == Candidates \ past.rejected

\* Candidates that rejected this very source are left out, unless all did.
Eligible == IF Candidates \subseteq past.rejected THEN Candidates
            ELSE Candidates \ past.rejected

\* The hint of the source itself comes before that of its header.
Exact(c) == past.accepted = c
Header(c) == past.accepted = 0 /\ past.header = c

Weight(c) ==
    <<IF Exact(c) THEN 0 ELSE 1, IF c \in localLocks THEN 0 ELSE 1,
      IF Header(c) THEN 0 ELSE 1, IF verdict[c] = "missing" THEN 1 ELSE 0, c>>

Before(c, d) ==
    \E i \in 1..5 : /\ Weight(c)[i] < Weight(d)[i]
                    /\ \A j \in 1..(i - 1) : Weight(c)[j] = Weight(d)[j]

\* The one arrangement of the eligible candidates that Before agrees with.
Ordered ==
    CHOOSE order \in [1..Cardinality(Eligible) -> Eligible] :
        \A i, j \in DOMAIN order : i < j => Before(order[i], order[j])

Planned(s) ==
    SubSeq(search[s].plan, 1,
           IF Len(search[s].plan) < MaxCandidates THEN Len(search[s].plan) ELSE MaxCandidates)

Truncated(s) == Len(search[s].plan) > Len(Planned(s))

PlanSearch(s) ==
    /\ search[s].phase = "idle"
    /\ search' = [search EXCEPT ![s].phase = "march", ![s].plan = Ordered]
    /\ UNCHANGED <<World, History, clock>>

-----------------------------------------------------------------------------
(* discover: the head of the loop.                                         *)

Current(s) == search[s].plan[search[s].next]

\* What a result leads to: rejections are remembered, then a success.
Ending(s, end) == [search[s] EXCEPT !.phase = "rejections", !.end = end]

AtHead(s) == search[s].phase = "march" /\ search[s].next <= Len(Planned(s))

Late(s) == clock[s].wall \/ clock[s].probes

StopAtHead(s) ==
    /\ AtHead(s)
    /\ clock[s].external \/ Late(s)
    /\ search' = [search EXCEPT ![s] =
           Ending(s, IF clock[s].external THEN "cancelled" ELSE "time_limit")]
    /\ UNCHANGED <<World, History, clock>>

Going(s) == AtHead(s) /\ ~clock[s].external /\ ~Late(s)

\* Mutant of Barred: a proof-level rejection bars nothing.
BarredNever(s) == FALSE

\* After a proof-level rejection nothing is downloaded for another opinion.
Barred(s) == search[s].localOnly /\ Current(s) \notin localLocks /\ download

SkipRemote(s) ==
    /\ Going(s)
    /\ Barred(s)
    /\ search' = [search EXCEPT ![s].next = @ + 1, ![s].skipped = @ \cup {Current(s)}]
    /\ UNCHANGED <<World, History, clock>>

AcquisitionLimit(s) ==
    /\ Going(s) /\ ~Barred(s)
    /\ Current(s) \notin localLocks
    /\ search[s].fetched >= MaxAcquisitions
    /\ search' = [search EXCEPT ![s] = Ending(s, "acquisition_limit")]
    /\ UNCHANGED <<World, History, clock>>

\* _AttemptCancellation starts anew: its timer and the relay of the event.
Acquire(s) ==
    /\ Going(s) /\ ~Barred(s)
    /\ Current(s) \in localLocks \/ search[s].fetched < MaxAcquisitions
    /\ search' = [search EXCEPT ![s].phase = "acquiring",
                      ![s].fetched = IF Current(s) \in localLocks THEN @ ELSE @ + 1]
    /\ clock' = [clock EXCEPT ![s].attempt = FALSE]
    /\ UNCHANGED <<World, History>>

-----------------------------------------------------------------------------
(* discover: one attempt.                                                  *)

\* _failed_attempt: what an exception of the probe comes to.
Failed(s, kind) ==
    IF kind = "integrity" THEN "environment_integrity_failure"
    ELSE IF kind = "generic" THEN "runtime_error"
    ELSE IF clock[s].external THEN "cancelled"
    ELSE IF clock[s].attempt \/ clock[s].wall THEN "timeout"
    ELSE IF kind = "unavailable" THEN "environment_unavailable"
    ELSE "runtime_error"

\* The attempt is noted; the march goes on, or ends with it.
Attempted(s, status) ==
    LET tried == [search[s].tried EXCEPT ![Current(s)] = status]
        ending == CASE status \in {"environment_integrity_failure", "runtime_error"} -> "failed"
                    [] status = "cancelled" -> "cancelled"
                    [] OTHER -> "none"
    IN  IF ending = "none"
        THEN [search[s] EXCEPT !.phase = "march", !.next = @ + 1, !.tried = tried]
        ELSE [Ending(s, ending) EXCEPT !.tried = tried]

\* An exception of acquire or check.
ProbeFails(s, kind) ==
    /\ search[s].phase \in {"acquiring", "checking"}
    /\ search' = [search EXCEPT ![s] = Attempted(s, Failed(s, kind))]
    /\ UNCHANGED <<World, History, clock>>

\* The environment is there; the wall clock is looked at before Lean is asked.
Acquired(s) ==
    /\ search[s].phase = "acquiring"
    /\ IF clock[s].wall
       THEN /\ search' = [search EXCEPT ![s] =
                   [Ending(s, "time_limit") EXCEPT !.tried[Current(s)] = "timeout"]]
            /\ UNCHANGED clock
       ELSE /\ search' = [search EXCEPT ![s].phase = "checking"]
            /\ clock' = [clock EXCEPT ![s].attempt = FALSE]
    /\ UNCHANGED <<World, History>>

\* The answer is not the one of the environment that was opened.
IdentityError(s) ==
    /\ search[s].phase = "checking"
    /\ search' = [search EXCEPT ![s] = Attempted(s, "environment_integrity_failure")]
    /\ UNCHANGED <<World, History, clock>>

\* Mutant of Stopped: only what the process itself reports counts.
StoppedByProcess(s, raw) == raw = "timed_out"

Stopped(s, raw) == raw = "timed_out" \/ clock[s].attempt \/ clock[s].wall

\* A run that was stopped says nothing of the source.
Status(s, raw) ==
    IF clock[s].external THEN "cancelled"
    ELSE IF Stopped(s, raw) THEN "timeout"
    ELSE IF verdict[Current(s)] = "accepts" /\ raw = "own" THEN "compiled"
    ELSE "lean_rejected"

\* _rejection_verdict for a module nobody lists, over the planned candidates.
Unavailable(s) ==
    /\ verdict[Current(s)] = "missing"
    /\ \A i \in 1..Len(Planned(s)) : verdict[Planned(s)[i]] = "missing"

\* Lean answered, or was stopped: by its own limit, by the timer of the attempt
\* or by the relayed event.
Checked(s, raw) ==
    /\ search[s].phase = "checking"
    /\ raw = "cancelled" => clock[s].attempt \/ clock[s].external
    /\ LET status == Status(s, raw)
           marched == Attempted(s, status)
       IN  search' = [search EXCEPT ![s] =
               IF status = "compiled"
               THEN [Ending(s, "found") EXCEPT !.tried = marched.tried]
               ELSE IF status = "lean_rejected" /\ Unavailable(s)
               THEN [Ending(s, "module_unavailable") EXCEPT !.tried = marched.tried]
               ELSE IF status = "lean_rejected" /\ verdict[Current(s)] = "proof"
               THEN [marched EXCEPT !.localOnly = TRUE]
               ELSE marched]
    /\ UNCHANGED <<World, History, clock>>

\* How many limits have passed and how often Lean crashed.
Passed ==
    Cardinality({p \in Searches \X Limits : clock[p[1]][p[2]]})
      + Cardinality({p \in Searches \X Candidates : p[2] \in search[p[1]].crashed})

\* Lean crashed, or was killed from outside: a result that is not ok and tells nothing
\* else is a rejection like those of Lean.
Crashed(s) ==
    /\ search[s].phase = "checking"
    /\ Passed < MaxPassed
    /\ search' = [search EXCEPT ![s] =
           [Attempted(s, Status(s, "crashed")) EXCEPT !.crashed = @ \cup {Current(s)}]]
    /\ UNCHANGED <<World, History, clock>>

\* Mutant of MarchEnds: a bounded plan counts as a complete one.
MarchEndsUntruncated(s) ==
    /\ search[s].phase = "march" /\ ~AtHead(s)
    /\ search' = [search EXCEPT ![s] = Ending(s,
           IF Late(s) THEN "time_limit"
           ELSE IF \E c \in Candidates : search[s].tried[c] = "lean_rejected"
           THEN "source_rejected" ELSE "no_candidate")]
    /\ UNCHANGED <<World, History, clock>>

MarchEnds(s) ==
    /\ search[s].phase = "march" /\ ~AtHead(s)
    /\ search' = [search EXCEPT ![s] = Ending(s,
           IF Late(s) THEN "time_limit"
           ELSE IF Truncated(s) THEN "candidate_limit"
           ELSE IF \E c \in Candidates : search[s].tried[c] = "lean_rejected"
           THEN "source_rejected" ELSE "no_candidate")]
    /\ UNCHANGED <<World, History, clock>>

-----------------------------------------------------------------------------
(* Clocks and the event of the caller.                                     *)

\* The compiler budget shrinks while Lean runs; the other limits any time.
Passes(s, limit) ==
    /\ search[s].phase \in {"march", "acquiring", "checking"}
    /\ limit = "probes" => search[s].phase = "checking"
    /\ limit = "attempt" => search[s].phase \in {"acquiring", "checking"}
    /\ ~clock[s][limit]
    /\ Passed < MaxPassed
    /\ clock' = [clock EXCEPT ![s][limit] = TRUE]
    /\ UNCHANGED <<World, History, search>>

-----------------------------------------------------------------------------
(* DiscoveryHistory.                                                       *)

Rejected(s) == {c \in Candidates : search[s].tried[c] = "lean_rejected"}

Accepted(s) == {c \in Candidates : search[s].tried[c] = "compiled"}

\* Which of the two edits comes next: none without a rejection, none without a
\* success.
NothingToRemember(s) ==
    \/ search[s].phase = "rejections" /\ Rejected(s) = {}
    \/ search[s].phase = "success" /\ search[s].end # "found"

AfterEdit(s) ==
    search' = [search EXCEPT ![s].phase = IF @ = "rejections" THEN "success" ELSE "over"]

SkipEdit(s) ==
    /\ NothingToRemember(s)
    /\ AfterEdit(s)
    /\ UNCHANGED <<World, History, clock>>

Editing(s) == search[s].phase \in {"rejections", "success"} /\ ~NothingToRemember(s)

\* Mutant of OpenHistory: the history is edited without its lock.
OpenHistoryUnlocked(s) ==
    /\ Editing(s)
    /\ edit[s] = {}
    /\ edit' = [edit EXCEPT ![s] = {past}]
    /\ UNCHANGED <<World, past, historyLock, search, clock>>

\* The file is loaded under the lock.
OpenHistory(s) ==
    /\ Editing(s)
    /\ historyLock = NoSearch
    /\ historyLock' = s
    /\ edit' = [edit EXCEPT ![s] = {past}]
    /\ UNCHANGED <<World, past, search, clock>>

\* The lock was busy for thirty seconds: the search raises, with its result.
HistoryTimeout(s) ==
    /\ Editing(s)
    /\ historyLock \notin {s, NoSearch}
    /\ search' = [search EXCEPT ![s].phase = "over"]
    /\ UNCHANGED <<World, History, clock>>

\* remember_rejections adds; remember_success replaces and withdraws.
SaveHistory(s) ==
    /\ \E loaded \in edit[s], c \in Accepted(s) \cup {0} :
           /\ c # 0 <=> search[s].phase = "success"
           /\ past' = IF c = 0 THEN [loaded EXCEPT !.rejected = @ \cup Rejected(s)]
                      ELSE [rejected |-> loaded.rejected \ {c}, accepted |-> c, header |-> c]
    /\ historyLock' = NoSearch
    /\ edit' = [edit EXCEPT ![s] = {}]
    /\ AfterEdit(s)
    /\ UNCHANGED <<World, clock>>

-----------------------------------------------------------------------------
(* Specification.                                                          *)

SearchStep(s) ==
    \/ PlanSearch(s) \/ StopAtHead(s) \/ SkipRemote(s) \/ AcquisitionLimit(s) \/ Acquire(s)
    \/ \E kind \in {"integrity", "unavailable", "runtime", "generic"} : ProbeFails(s, kind)
    \/ Acquired(s) \/ IdentityError(s)
    \/ \E raw \in {"own", "timed_out", "cancelled"} : Checked(s, raw)
    \/ Crashed(s) \/ MarchEnds(s)
    \/ SkipEdit(s) \/ OpenHistory(s) \/ HistoryTimeout(s) \/ SaveHistory(s)

DiscoveryNext ==
    \E s \in Searches :
        \/ SearchStep(s)
        \/ \E limit \in Limits : Passes(s, limit)

DiscoverySpec == DiscoveryInit /\ [][DiscoveryNext]_discoveryVars

-----------------------------------------------------------------------------
(* Properties.                                                             *)

\* What the history says of a source is what Lean said of it, crashes of Lean apart:
\* a run that a timer, a budget or a caller stopped is never remembered, however its
\* end and the stop raced (discover, lines 446-465).
HistoryTrue ==
    /\ \A c \in past.rejected :
         verdict[c] # "accepts" \/ \E s \in Searches : c \in search[s].crashed
    /\ past.accepted # 0 => verdict[past.accepted] = "accepts"

\* Who claims to have tried everything tried or was barred from every candidate
\* the history left, and a source rejected everywhere is still tried, as long as the
\* catalog has a candidate at all.
ExhaustedTried ==
    \A s \in Searches :
        /\ search[s].end \in {"source_rejected", "no_candidate"} =>
             \A i \in 1..Len(search[s].plan) :
                 search[s].tried[search[s].plan[i]] # "none"
                   \/ search[s].plan[i] \in search[s].skipped
        /\ search[s].phase # "idle" /\ Candidates # {} => search[s].plan # <<>>

\* Once Lean found the proof itself wrong nothing is fetched for this source.
NoFetchAfterVerdict ==
    [][\A s \in Searches :
          download /\ search'[s].fetched > search[s].fetched =>
              \A c \in Candidates :
                  search[s].tried[c] = "lean_rejected" =>
                      verdict[c] # "proof" \/ c \in search[s].crashed
      ]_discoveryVars

\* A search that ends loses nothing another one has remembered.
NothingForgotten ==
    [][/\ past.rejected \ past'.rejected \subseteq {past'.accepted}
       /\ past.accepted # 0 => past'.accepted # 0]_discoveryVars

\* "Lean ran and rejected the source": who was rejected was rejected by Lean. It does
\* not hold, as a crash counts as an answer.
RejectedByLean == \A c \in past.rejected : verdict[c] # "accepts"

\* discover: "Statically decidable: no candidate can change this verdict."
VerdictFinal ==
    \A s \in Searches :
        search[s].end = "module_unavailable" =>
            \A c \in Candidates : verdict[c] = "missing"

=============================================================================
