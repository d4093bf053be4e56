----------------------------- MODULE Processes ------------------------------
(***************************************************************************)
(* Child processes under time limit, cancellation and output limit, and    *)
(* the callers that wait for the threads that run them.                    *)
(*                                                                         *)
(* Code: lean_runtime/_process.py (run_process, drain, shutdown,           *)
(* _join_readers), _cancellation.py (run_cancellable), matrix.py           *)
(* (run_matrix) and ExecutionJob of environments.py.                       *)
(*                                                                         *)
(* Abstractions.  The pipes of a child are one, and output may be in it    *)
(* until its end is read; the descendants of a child are one, which lives  *)
(* in the process group of the child or escaped it, and keeps the pipe     *)
(* open or closed it.  Time is up at any moment after the start.           *)
(***************************************************************************)
EXTENDS Integers, FiniteSets

CONSTANTS
    Contexts,       \* the contexts of a matrix, one process each
    First,          \* the context a coroutine runs
    Concurrency     \* workers of the pool

ASSUME ProcessesAssumption ==
    /\ First \in Contexts
    /\ Concurrency \in 2..32

VARIABLES
    caller,     \* how the caller waits and how it came out
    event,      \* the threading.Event every worker looks at
    worker,     \* worker[x]: where the thread of x is
    child,      \* child[x]: the direct child
    heir,       \* heir[x]: the descendant of the child
    reader,     \* reader[x]: the thread that drains it
    watch,      \* watch[x]: time is up, an observer raised, output was cut
    outcome     \* outcome[x]: what run_process came to

processVars == <<caller, event, worker, child, heir, reader, watch, outcome>>

System == <<child, heir, reader>>

-----------------------------------------------------------------------------
(* Vocabulary.                                                             *)

CallerStates == {"matrix", "coroutine", "settling", "returned", "raised",
                 "cancelled", "abandoned"}

Waiting == {"matrix", "coroutine", "settling"}

Workers == {"unused", "queued", "polling", "checking", "stopping", "joining",
            "killing", "done"}

\* Steps between Popen and the end of run_process.
Managing == {"polling", "checking", "stopping", "joining", "killing"}

Heirs == {"none", "inside", "quiet", "escaped"}

Outcomes == {"none", "own", "bytes", "timed_out", "cancelled", "failed"}

ProcessesTypeOK ==
    /\ caller \in CallerStates
    /\ event \in BOOLEAN
    /\ worker \in [Contexts -> Workers]
    /\ child \in [Contexts -> {"none", "running", "ended"}]
    /\ heir \in [Contexts -> Heirs]
    /\ reader \in [Contexts -> {"off", "reading", "done", "left"}]
    /\ watch \in [Contexts -> [late : BOOLEAN, observer : BOOLEAN, cut : BOOLEAN]]
    /\ outcome \in [Contexts -> Outcomes]
    /\ \A x \in Contexts :
         /\ worker[x] \in Managing => child[x] # "none" /\ reader[x] # "off"
         /\ child[x] = "running" => worker[x] \in Managing

ProcessesInit ==
    /\ caller \in {"matrix", "coroutine"}
    /\ event = FALSE
    /\ worker = [x \in Contexts |->
           IF caller = "matrix" \/ x = First THEN "queued" ELSE "unused"]
    /\ child = [x \in Contexts |-> "none"]
    /\ heir = [x \in Contexts |-> "none"]
    /\ reader = [x \in Contexts |-> "off"]
    /\ watch = [x \in Contexts |-> [late |-> FALSE, observer |-> FALSE, cut |-> FALSE]]
    /\ outcome = [x \in Contexts |-> "none"]

-----------------------------------------------------------------------------
(* The child and its descendant.                                           *)

Holds(x) == child[x] = "running" \/ heir[x] \in {"inside", "escaped"}

Forks(x, kind) ==
    /\ child[x] = "running"
    /\ heir[x] = "none" /\ kind # "none"
    /\ heir' = [heir EXCEPT ![x] = kind]
    /\ UNCHANGED <<caller, event, worker, child, reader, watch, outcome>>

\* It exits, of its own or on the signal.
ChildEnds(x) ==
    /\ child[x] = "running"
    /\ child' = [child EXCEPT ![x] = "ended"]
    /\ UNCHANGED <<caller, event, worker, heir, reader, watch, outcome>>

HeirEnds(x) ==
    /\ heir[x] # "none"
    /\ heir' = [heir EXCEPT ![x] = "none"]
    /\ UNCHANGED <<caller, event, worker, child, reader, watch, outcome>>

\* kill_tree: every member of the process group is gone.
Killed(h) == IF h \in {"inside", "quiet"} THEN "none" ELSE h

-----------------------------------------------------------------------------
(* drain.                                                                  *)

\* A chunk that is kept changes nothing here; one may be cut by the budget,
\* or an observer of bytes raise on it.
Reads(x) ==
    /\ reader[x] = "reading"
    /\ \/ watch' = [watch EXCEPT ![x].cut = TRUE]
       \/ watch' = [watch EXCEPT ![x].observer = TRUE]
    /\ UNCHANGED <<caller, event, worker, System, outcome>>

\* End of file needs everybody who holds the pipe to be gone.
ReadsEnd(x) ==
    /\ reader[x] = "reading"
    /\ ~Holds(x)
    /\ reader' = [reader EXCEPT ![x] = "done"]
    /\ UNCHANGED <<caller, event, worker, child, heir, watch, outcome>>

-----------------------------------------------------------------------------
(* run_process.                                                            *)

GoesTo(x, step) == worker' = [worker EXCEPT ![x] = step]

Busy == Cardinality({x \in Contexts : worker[x] \in Managing})

\* A context of a matrix looks at the event before it starts anything.
Starts(x) ==
    /\ worker[x] = "queued"
    /\ Busy < Concurrency
    /\ \/ caller = "matrix" /\ event     \* "matrix execution was cancelled"
          /\ GoesTo(x, "done")
          /\ outcome' = [outcome EXCEPT ![x] = "failed"]
          /\ UNCHANGED <<child, reader>>
       \/ ~(caller = "matrix" /\ event)
          /\ GoesTo(x, "polling")
          /\ child' = [child EXCEPT ![x] = "running"]
          /\ reader' = [reader EXCEPT ![x] = "reading"]
          /\ UNCHANGED outcome
    /\ UNCHANGED <<caller, event, heir, watch>>

\* The context cannot be opened, or its executable is missing.
StartFails(x) ==
    /\ worker[x] = "queued"
    /\ Busy < Concurrency
    /\ GoesTo(x, "done")
    /\ outcome' = [outcome EXCEPT ![x] = "failed"]
    /\ UNCHANGED <<caller, event, System, watch>>

TimeUp(x) ==
    /\ worker[x] \in {"polling", "checking"}
    /\ watch' = [watch EXCEPT ![x].late = TRUE]
    /\ UNCHANGED <<caller, event, worker, System, outcome>>

\* poll() found it running: the child may end before the checks that follow.
PollRunning(x) ==
    /\ worker[x] = "polling"
    /\ child[x] = "running"
    /\ GoesTo(x, "checking")
    /\ UNCHANGED <<caller, event, System, watch, outcome>>

PollEnded(x) ==
    /\ worker[x] = "polling"
    /\ child[x] = "ended"
    /\ GoesTo(x, "joining")
    /\ outcome' = [outcome EXCEPT ![x] = "own"]
    /\ UNCHANGED <<caller, event, System, watch>>

\* The observer is asked first, then the event, then the clock.
Reason(x) ==
    IF watch[x].observer THEN "bytes"
    ELSE IF event THEN "cancelled"
    ELSE IF watch[x].late THEN "timed_out"
    ELSE "none"

KeepWaiting(x) ==
    /\ worker[x] = "checking"
    /\ Reason(x) = "none"
    /\ GoesTo(x, "polling")
    /\ UNCHANGED <<caller, event, System, watch, outcome>>

\* stop_tree: a signal the child may ignore.
StopsTree(x) ==
    /\ worker[x] = "checking"
    /\ Reason(x) # "none"
    /\ outcome' = [outcome EXCEPT ![x] = Reason(x)]
    /\ GoesTo(x, "stopping")
    /\ UNCHANGED <<caller, event, System, watch>>

\* Mutant of Shutdown: the signal is taken for the end of the child.
ShutdownBySignal(x) ==
    /\ worker[x] = "stopping"
    /\ heir' = [heir EXCEPT ![x] = Killed(@)]
    /\ GoesTo(x, "joining")
    /\ UNCHANGED <<caller, event, child, reader, watch, outcome>>

\* Mutant of Shutdown: a child that ended in time leaves its group alone.
ShutdownOfChild(x) ==
    /\ worker[x] = "stopping"
    /\ heir' = [heir EXCEPT ![x] = IF child[x] = "ended" THEN @ ELSE Killed(@)]
    /\ child' = [child EXCEPT ![x] = "ended"]
    /\ GoesTo(x, "joining")
    /\ UNCHANGED <<caller, event, reader, watch, outcome>>

\* It ended within two seconds or is killed; its group is killed either way.
Shutdown(x) ==
    /\ worker[x] = "stopping"
    /\ child' = [child EXCEPT ![x] = "ended"]
    /\ heir' = [heir EXCEPT ![x] = Killed(@)]
    /\ GoesTo(x, "joining")
    /\ UNCHANGED <<caller, event, reader, watch, outcome>>

\* _join_readers: output that comes after five seconds is waited for once
\* more, when everybody in the group is dead ...
KillsHolders(x) ==
    /\ worker[x] = "joining"
    /\ reader[x] = "reading"
    /\ heir' = [heir EXCEPT ![x] = Killed(@)]
    /\ GoesTo(x, "killing")
    /\ UNCHANGED <<caller, event, child, reader, watch, outcome>>

\* Mutant of Ends: a reader that was left behind cuts nothing.
EndsComplete(x) ==
    /\ \/ worker[x] \in {"joining", "killing"} /\ reader[x] = "done"
       \/ worker[x] = "killing" /\ reader[x] = "reading"
    /\ reader' = [reader EXCEPT ![x] = IF @ = "reading" THEN "left" ELSE @]
    /\ outcome' = [outcome EXCEPT ![x] = IF watch[x].observer THEN "bytes" ELSE @]
    /\ GoesTo(x, "done")
    /\ UNCHANGED <<caller, event, child, heir, watch>>

\* Mutant of Ends: the reader is waited for without a limit.
EndsWhenRead(x) ==
    /\ worker[x] \in {"joining", "killing"} /\ reader[x] = "done"
    /\ outcome' = [outcome EXCEPT ![x] = IF watch[x].observer THEN "bytes" ELSE @]
    /\ GoesTo(x, "done")
    /\ UNCHANGED <<caller, event, System, watch>>

\* ... and is left to whoever escaped: the output is reported as cut.  An
\* exception of the observer comes before everything else.
Ends(x) ==
    /\ \/ worker[x] \in {"joining", "killing"} /\ reader[x] = "done"
       \/ worker[x] = "killing" /\ reader[x] = "reading"
    /\ reader' = [reader EXCEPT ![x] = IF @ = "reading" THEN "left" ELSE @]
    /\ watch' = [watch EXCEPT ![x].cut = @ \/ reader[x] = "reading"]
    /\ outcome' = [outcome EXCEPT ![x] = IF watch[x].observer THEN "bytes" ELSE @]
    /\ GoesTo(x, "done")
    /\ UNCHANGED <<caller, event, child, heir>>

-----------------------------------------------------------------------------
(* Callers.                                                                *)

\* An ExecutionJob is cancelled, or whoever gave the event sets it.
EventSet ==
    /\ caller \in Waiting
    /\ ~event
    /\ event' = TRUE
    /\ UNCHANGED <<caller, worker, System, watch, outcome>>

Raised(x) == worker[x] = "done" /\ outcome[x] \in {"failed", "bytes"}

\* A context raised: the event stops what runs, and what is queued is dropped.
SiblingsStop ==
    /\ caller = "matrix"
    /\ \E x \in Contexts : Raised(x)
    /\ ~event \/ \E x \in Contexts : worker[x] = "queued"
    /\ event' = TRUE
    /\ worker' = [x \in Contexts |-> IF worker[x] = "queued" THEN "unused" ELSE worker[x]]
    /\ UNCHANGED <<caller, System, watch, outcome>>

Settled == \A x \in Contexts : worker[x] \in {"unused", "done"}

\* The pool is left when its workers are done.
MatrixEnds ==
    /\ caller = "matrix"
    /\ Settled
    /\ caller' = IF \E x \in Contexts : Raised(x) THEN "raised" ELSE "returned"
    /\ UNCHANGED <<event, worker, System, watch, outcome>>

CoroutineReturns ==
    /\ caller = "coroutine"
    /\ Settled
    /\ caller' = IF Raised(First) THEN "raised" ELSE "returned"
    /\ UNCHANGED <<event, worker, System, watch, outcome>>

\* The coroutine is cancelled: the event is set and the worker awaited.
CoroutineCancelled ==
    /\ caller = "coroutine"
    /\ caller' = "settling"
    /\ event' = TRUE
    /\ UNCHANGED <<worker, System, watch, outcome>>

\* Mutant of CancellationRaised: the cancellation is raised at once.
CancellationAtOnce ==
    /\ caller = "settling"
    /\ caller' = "cancelled"
    /\ UNCHANGED <<event, worker, System, watch, outcome>>

CancellationRaised ==
    /\ caller = "settling"
    /\ Settled
    /\ caller' = "cancelled"
    /\ UNCHANGED <<event, worker, System, watch, outcome>>

\* Cancelled again while it settles: asyncio.wait raises there and then.
CancelledAgain ==
    /\ caller = "settling"
    /\ caller' = "abandoned"
    /\ UNCHANGED <<event, worker, System, watch, outcome>>

-----------------------------------------------------------------------------
(* Specification.                                                          *)

WorkerActs(x) ==
    \/ Starts(x) \/ StartFails(x) \/ PollRunning(x) \/ PollEnded(x)
    \/ KeepWaiting(x) \/ StopsTree(x) \/ Shutdown(x) \/ KillsHolders(x) \/ Ends(x)

CallerActs == SiblingsStop \/ MatrixEnds \/ CoroutineReturns \/ CancellationRaised

ProcessesNext ==
    \/ \E x \in Contexts :
         \/ ChildEnds(x) \/ HeirEnds(x) \/ Reads(x) \/ ReadsEnd(x)
         \/ \E kind \in Heirs : Forks(x, kind)
         \/ WorkerActs(x)
         \/ TimeUp(x)
    \/ CallerActs \/ EventSet \/ CoroutineCancelled \/ CancelledAgain

\* Threads run, and time passes; nothing is asked of a child or its descendant.
ProcessesFairness ==
    /\ \A x \in Contexts :
         WF_processVars(WorkerActs(x)) /\ WF_processVars(TimeUp(x) /\ ~watch[x].late)
    /\ WF_processVars(CallerActs)

ProcessesSpec == ProcessesInit /\ [][ProcessesNext]_processVars /\ ProcessesFairness

-----------------------------------------------------------------------------
(* Properties.                                                             *)

\* A process that was stopped leaves nobody of its group behind, whether or not
\* the child obeyed and whatever its descendants do with the pipe (shutdown).
StoppedGroupGone ==
    \A x \in Contexts :
        worker[x] = "done" /\ outcome[x] \in {"timed_out", "cancelled"}
            => child[x] = "ended" /\ heir[x] \in {"none", "escaped"}

\* An outcome is what happened: cancelled needs the event, timed out the clock, what
\* is not called cut is all that was written until then, whatever descendants do with
\* the pipe, and whoever returns a result or an error of its own has no worker left.
OutcomesTrue ==
    /\ \A x \in Contexts :
         /\ outcome[x] = "cancelled" => event
         /\ outcome[x] = "timed_out" => watch[x].late
         /\ worker[x] = "done" /\ watch[x].observer => outcome[x] = "bytes"
         /\ worker[x] = "done" /\ reader[x] # "off" /\ ~watch[x].cut => reader[x] = "done"
    /\ caller \in {"returned", "raised", "cancelled"} => Settled

\* Every run ends and so does its caller, although a child may ignore the
\* signal and a descendant may hold the pipe for ever.
ProcessesEnd == <>(caller \notin Waiting)

\* run_cancellable: "The worker is never abandoned mid-way".
NeverAbandoned == caller \notin Waiting => Settled

=============================================================================
