------------------------------ MODULE Sessions ------------------------------
(***************************************************************************)
(* Interactive sessions: a live child in a disposable instance, threads    *)
(* that ask it questions and close it, and the monitor of its time limit.  *)
(*                                                                         *)
(* Code: InteractiveSession and spawn_interactive (environments.py), the   *)
(* same of programs.py, and _LocalInteractiveProcess (backends.py).        *)
(*                                                                         *)
(* Abstractions.  Requests are one short line each, which the pipe takes   *)
(* without blocking; stdout and stderr are one stream; the descendants of  *)
(* the child are one, as in Processes.  Time is up at any moment.  The     *)
(* removal of the instance can fail only in Workspaces.                    *)
(***************************************************************************)
EXTENDS Integers, Sequences

CONSTANTS
    Users,      \* threads that share the session
    NoUser

ASSUME SessionsAssumption == NoUser \notin Users

VARIABLES
    input,      \* stdin of the child, as the session sees it
    asked,      \* requests the child has not answered, by who sent them
    answers,    \* answers nobody has read
    process,    \* the child
    kin,        \* its descendant
    monitor,    \* the thread that enforces the time limit
    timedOut, finished,     \* the two events of the backend process
    killer,     \* who stopped the child, if anybody had to
    io, closingLock,        \* the two locks of the session
    user,       \* user[u]: where u is
    heard,      \* heard[u]: whose answer u got last
    session,    \* _result, what was recorded, and the instance
    returned    \* returned[u]: what close gave u

sessionVars == <<input, asked, answers, process, kin, monitor, timedOut, finished,
                 killer, io, closingLock, user, heard, session, returned>>

Stream == <<asked, answers>>
Alive == <<process, kin, killer>>
Watch == <<monitor, timedOut, finished>>
Told == <<heard, session, returned>>

-----------------------------------------------------------------------------
(* Vocabulary.                                                             *)

Results == {"none", "own", "cancelled", "timed_out"}

Closing == {"finish", "awaiting", "shutting", "joining", "draining",
            "recording", "cleaning", "unwinding", "failing"}

\* A close is over when it returned, when stdin could not be closed, or when the
\* record could not be written.
Over == {"closed", "raised", "unrecorded"}

SessionsTypeOK ==
    /\ input \in {"open", "broken", "closed"}
    /\ asked \in Seq(Users) /\ answers \in Seq(Users)
    /\ process \in {"running", "deaf", "ended"}
    /\ kin \in {"none", "inside", "quiet", "escaped"}
    /\ monitor \in {"waiting", "due", "marking", "stopping", "done"}
    /\ {timedOut, finished} \subseteq BOOLEAN
    /\ killer \in {"none", "monitor", "closer"}
    /\ {io, closingLock} \subseteq Users \cup {NoUser}
    /\ user \in [Users -> {"idle", "sending", "reading", "wanting"} \cup Closing \cup Over]
    /\ heard \in [Users -> Users \cup {NoUser}]
    /\ session \in [result : Results, stopped : BOOLEAN, records : Nat,
                   lost : BOOLEAN, instance : BOOLEAN]
    /\ returned \in [Users -> Results]
    /\ \A u \in Users : user[u] \in Closing => closingLock = u

SessionsInit ==
    /\ input = "open"
    /\ asked = <<>> /\ answers = <<>>
    /\ process = "running" /\ kin = "none" /\ killer = "none"
    /\ monitor = "waiting" /\ timedOut = FALSE /\ finished = FALSE
    /\ io = NoUser /\ closingLock = NoUser
    /\ user = [u \in Users |-> "idle"]
    /\ heard = [u \in Users |-> NoUser]
    /\ session = [result |-> "none", stopped |-> FALSE, records |-> 0,
                  lost |-> FALSE, instance |-> TRUE]
    /\ returned = [u \in Users |-> "none"]

Moves(u, next) == user' = [user EXCEPT ![u] = next]

-----------------------------------------------------------------------------
(* The child and its descendant.                                           *)

ChildAnswers ==
    /\ process = "running"
    /\ asked # <<>>
    /\ answers' = Append(answers, Head(asked))
    /\ asked' = Tail(asked)
    /\ UNCHANGED <<input, Alive, Watch, io, closingLock, user, Told>>

\* It closes its standard input, or it ends, of its own or on the signal.
ChildLeaves ==
    /\ \/ process = "running" /\ process' \in {"deaf", "ended"}
       \/ process = "deaf" /\ process' = "ended"
    /\ UNCHANGED <<input, Stream, kin, killer, Watch, io, closingLock, user, Told>>

KinLives ==
    /\ \/ process # "ended" /\ kin = "none" /\ kin' \in {"inside", "quiet", "escaped"}
       \/ kin # "none" /\ kin' = "none"
    /\ UNCHANGED <<input, Stream, process, killer, Watch, io, closingLock, user, Told>>

HoldsPipes == kin \in {"inside", "escaped"}

\* shutdown: the child is dead afterwards, and so is everybody in its group.
ShutDown(by) ==
    /\ killer' = IF process = "ended" THEN killer ELSE by
    /\ process' = "ended"
    /\ kin' = IF kin \in {"inside", "quiet"} THEN "none" ELSE kin

-----------------------------------------------------------------------------
(* request_line.                                                           *)

\* The lock is held for the request and its answer.
Ask(u) ==
    /\ user[u] = "idle"
    /\ io = NoUser
    /\ session.result = "none" /\ process # "ended"
    /\ io' = u
    /\ Moves(u, "sending")
    /\ UNCHANGED <<input, Stream, Alive, Watch, closingLock, Told>>

Deaf == process # "running" /\ ~HoldsPipes

\* Mutant of Send: the lock covers the request alone.
SendUnheld(u) ==
    /\ user[u] = "sending"
    /\ input # "closed" /\ ~Deaf
    /\ asked' = Append(asked, u)
    /\ io' = NoUser
    /\ Moves(u, "reading")
    /\ UNCHANGED <<input, answers, Alive, Watch, closingLock, Told>>

Send(u) ==
    /\ user[u] = "sending"
    /\ input # "closed" /\ ~Deaf
    /\ asked' = Append(asked, u)
    /\ Moves(u, "reading")
    /\ UNCHANGED <<input, answers, Alive, Watch, io, closingLock, Told>>

\* Nobody reads stdin: the line stays in its buffer.  A closed stdin takes none.
SendFails(u) ==
    /\ user[u] = "sending"
    /\ input = "closed" \/ Deaf
    /\ input' = IF input = "open" THEN "broken" ELSE input
    /\ io' = NoUser
    /\ Moves(u, "idle")
    /\ UNCHANGED <<Stream, Alive, Watch, closingLock, Told>>

\* An answer, or the end of the stream, which raises.
Receive(u) ==
    /\ user[u] = "reading"
    /\ \/ /\ answers # <<>>
          /\ heard' = [heard EXCEPT ![u] = Head(answers)]
          /\ answers' = Tail(answers)
       \/ /\ answers = <<>> /\ process = "ended" /\ ~HoldsPipes
          /\ UNCHANGED <<heard, answers>>
    /\ io' = IF io = u THEN NoUser ELSE io
    /\ Moves(u, "idle")
    /\ UNCHANGED <<input, asked, Alive, Watch, closingLock, session, returned>>

-----------------------------------------------------------------------------
(* _enforce_timeout.                                                       *)

TimeIsUp ==
    /\ monitor = "waiting" /\ ~finished
    /\ monitor' = "due"
    /\ UNCHANGED <<input, Stream, Alive, timedOut, finished, io, closingLock, user, Told>>

\* finish told it in time, or poll() finds the child ended.
MonitorReturns ==
    /\ \/ monitor = "waiting" /\ finished
       \/ monitor = "due" /\ process = "ended"
    /\ monitor' = "done"
    /\ UNCHANGED <<input, Stream, Alive, timedOut, finished, io, closingLock, user, Told>>

MonitorPolls ==
    /\ monitor = "due"
    /\ process # "ended"
    /\ monitor' = "marking"
    /\ UNCHANGED <<input, Stream, Alive, timedOut, finished, io, closingLock, user, Told>>

\* Mutant of MonitorMarks: the child is stopped without the event.
MonitorMarksNothing ==
    /\ monitor = "marking"
    /\ monitor' = "stopping"
    /\ UNCHANGED <<input, Stream, Alive, timedOut, finished, io, closingLock, user, Told>>

MonitorMarks ==
    /\ monitor = "marking"
    /\ timedOut' = TRUE
    /\ monitor' = "stopping"
    /\ UNCHANGED <<input, Stream, Alive, finished, io, closingLock, user, Told>>

MonitorStops ==
    /\ monitor = "stopping"
    /\ ShutDown("monitor")
    /\ monitor' = "done"
    /\ UNCHANGED <<input, Stream, timedOut, finished, io, closingLock, user, Told>>

-----------------------------------------------------------------------------
(* close and finish.                                                       *)

Close(u) ==
    /\ user[u] \in {"idle", "raised", "unrecorded"}
    /\ Moves(u, "wanting")
    /\ UNCHANGED <<input, Stream, Alive, Watch, io, closingLock, Told>>

\* Mutant of TakeClosing: whoever comes second finishes once more.
TakeClosingAgain(u) ==
    /\ user[u] = "wanting"
    /\ closingLock = NoUser
    /\ session.records < 2
    /\ closingLock' = u
    /\ session' = [session EXCEPT !.stopped = FALSE]
    /\ Moves(u, "finish")
    /\ UNCHANGED <<input, Stream, Alive, Watch, io, heard, returned>>

\* Mutant of TakeClosing: the test of the result is all there is.
TakeClosingUnlocked(u) ==
    /\ user[u] = "wanting"
    /\ session.result = "none"
    /\ closingLock' = u
    /\ session' = [session EXCEPT !.stopped = FALSE]
    /\ Moves(u, "finish")
    /\ UNCHANGED <<input, Stream, Alive, Watch, io, heard, returned>>

\* Whoever comes second gets the result of the first; where the first raised,
\* the second finishes.
TakeClosing(u) ==
    /\ user[u] = "wanting"
    /\ closingLock = NoUser
    /\ IF session.result # "none"
       THEN /\ returned' = [returned EXCEPT ![u] = session.result]
            /\ Moves(u, "closed")
            /\ UNCHANGED <<closingLock, session>>
       ELSE /\ closingLock' = u
            /\ session' = [session EXCEPT !.stopped = FALSE]
            /\ Moves(u, "finish")
            /\ UNCHANGED returned
    /\ UNCHANGED <<input, Stream, Alive, Watch, io, heard>>

\* stdin.close() flushes what an earlier request left in the buffer, and raises.
CloseInput(u) ==
    /\ user[u] = "finish"
    /\ Moves(u, IF input = "broken" THEN "unwinding" ELSE "awaiting")
    /\ input' = "closed"
    /\ UNCHANGED <<Stream, Alive, Watch, io, closingLock, Told>>

\* Two seconds for the child.
Await(u) ==
    /\ user[u] = "awaiting"
    /\ Moves(u, IF process = "ended" THEN "joining" ELSE "shutting")
    /\ session' = [session EXCEPT !.stopped = process # "ended"]
    /\ UNCHANGED <<input, Stream, Alive, Watch, io, closingLock, heard, returned>>

FinishStops(u) ==
    /\ user[u] = "shutting"
    /\ ShutDown("closer")
    /\ Moves(u, "joining")
    /\ UNCHANGED <<input, Stream, Watch, io, closingLock, Told>>

FinishTells(u) ==
    /\ user[u] = "joining"
    /\ finished' = TRUE
    /\ Moves(u, "draining")
    /\ UNCHANGED <<input, Stream, Alive, monitor, timedOut, io, closingLock, Told>>

\* The monitor is waited for, three seconds; then the pipes are read to their
\* end, whoever holds them.
Drain(u) ==
    /\ user[u] = "draining"
    /\ ~HoldsPipes
    /\ answers' = <<>>
    /\ Moves(u, "recording")
    /\ UNCHANGED <<input, asked, Alive, Watch, io, closingLock, Told>>

ResultNow == IF timedOut THEN "timed_out" ELSE IF session.stopped THEN "cancelled" ELSE "own"

Record(u) ==
    /\ user[u] = "recording"
    /\ session' = [session EXCEPT !.result = ResultNow, !.records = @ + 1]
    /\ Moves(u, "cleaning")
    /\ UNCHANGED <<input, Stream, Alive, Watch, io, closingLock, heard, returned>>

RecordFails(u) ==
    /\ user[u] = "recording"
    /\ session' = [session EXCEPT !.lost = TRUE]
    /\ Moves(u, "failing")
    /\ UNCHANGED <<input, Stream, Alive, Watch, io, closingLock, heard, returned>>

\* Mutant of CleanUp: an exception keeps the lock of the session.
CleanUpHolding(u) ==
    /\ user[u] \in {"cleaning", "unwinding", "failing"}
    /\ session' = [session EXCEPT !.instance = FALSE]
    /\ closingLock' = IF user[u] = "cleaning" THEN NoUser ELSE closingLock
    /\ returned' = [returned EXCEPT ![u] = session.result]
    /\ Moves(u, CASE user[u] = "cleaning" -> "closed"
                  [] user[u] = "unwinding" -> "raised"
                  [] OTHER -> "unrecorded")
    /\ UNCHANGED <<input, Stream, Alive, Watch, io, heard>>

\* The instance is removed, with or without an exception.
CleanUp(u) ==
    /\ user[u] \in {"cleaning", "unwinding", "failing"}
    /\ session' = [session EXCEPT !.instance = FALSE]
    /\ closingLock' = NoUser
    /\ returned' = [returned EXCEPT ![u] = session.result]
    /\ Moves(u, CASE user[u] = "cleaning" -> "closed"
                  [] user[u] = "unwinding" -> "raised"
                  [] OTHER -> "unrecorded")
    /\ UNCHANGED <<input, Stream, Alive, Watch, io, heard>>

-----------------------------------------------------------------------------
(* Specification.                                                          *)

CloserStep(u) ==
    \/ TakeClosing(u) \/ CloseInput(u) \/ Await(u) \/ FinishStops(u)
    \/ FinishTells(u) \/ Drain(u) \/ Record(u) \/ RecordFails(u) \/ CleanUp(u)

UserStep(u) == Send(u) \/ SendFails(u) \/ Receive(u) \/ CloserStep(u)

MonitorStep == MonitorReturns \/ MonitorPolls \/ MonitorMarks \/ MonitorStops

SessionsNext ==
    \/ ChildAnswers \/ ChildLeaves \/ KinLives
    \/ TimeIsUp \/ MonitorStep
    \/ \E u \in Users : Ask(u) \/ Close(u) \/ UserStep(u)

\* Threads run and time passes; the child and its kin do as they like.
SessionsFairness ==
    /\ \A u \in Users : SF_sessionVars(TakeClosing(u)) /\ WF_sessionVars(UserStep(u))
    /\ WF_sessionVars(MonitorStep)
    /\ WF_sessionVars(TimeIsUp)

SessionsSpec == SessionsInit /\ [][SessionsNext]_sessionVars /\ SessionsFairness

-----------------------------------------------------------------------------
(* Properties.                                                             *)

\* Whoever asks through request_line gets the answer to what it asked, however
\* many threads ask, close and time out at once.
AnswersPaired == \A u \in Users : heard[u] \in {u, NoUser}

\* An execution is recorded once, every close that returns gives that result, and
\* a result of its own is of a child nobody had to stop: only a close repeated after
\* a record that could not be written takes the signal for the child's own end.
ResultTrue ==
    /\ session.records <= 1
    /\ \A u \in Users : user[u] = "closed" => returned[u] = session.result
    /\ session.result = "own" /\ ~session.lost => killer = "none"
    /\ session.result = "timed_out" => timedOut

\* A close comes to its end, unless a descendant keeps the pipes open: they are
\* read to their end without a limit.
ClosesEnd ==
    \A u \in Users : user[u] \in Closing \cup {"wanting"} ~> (user[u] \in Over \/ HoldsPipes)

\* InteractiveSession.close: "Send EOF, stop if necessary, persist provenance,
\* and remove the instance."
ClosedIsRecorded ==
    \A u \in Users :
        user[u] \in {"closed", "raised"} => process = "ended" /\ session.records > 0

=============================================================================
