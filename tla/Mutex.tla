------------------------------- MODULE Mutex -------------------------------
(***************************************************************************)
(* What a lock promises its callers: one of them is inside at a time, and  *)
(* a caller that waits either gets in or is turned away.                   *)
(***************************************************************************)
CONSTANT Procs

VARIABLE state      \* state[p]: "out", "waiting" or "in"

Move(p, from, to) == state[p] \in from /\ state' = [state EXCEPT ![p] = to]

Init == state = [p \in Procs |-> "out"]

Wait(p) == Move(p, {"out"}, "waiting")
Enter(p) == (\A q \in Procs : state[q] # "in") /\ Move(p, {"waiting"}, "in")
\* Given up while waiting, left after use, or dead.
Leave(p) == Move(p, {"waiting", "in"}, "out")

Next == \E p \in Procs : Wait(p) \/ Enter(p) \/ Leave(p)

Spec == Init /\ [][Next]_state

\* Nobody waits for ever, whatever the one inside does.
Served == \A p \in Procs : state[p] = "waiting" ~> state[p] # "waiting"
=============================================================================
