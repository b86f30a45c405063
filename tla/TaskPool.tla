------------------------------ MODULE TaskPool ------------------------------
(***************************************************************************)
(* What Assign3 promises, without queues, priorities, slices and locks:    *)
(* every task runs on its own CPU, one at a time there, in as many runs as *)
(* it takes, finishes once, and the end is announced when all have.        *)
(***************************************************************************)
CONSTANTS
  Tasks,
  CPUs,
  Home(_)     \* the CPU of a task

VARIABLES
  status,     \* of each task
  announced   \* the end has been announced

vars == <<status, announced>>

Init ==
  /\ status = [t \in Tasks |-> "waiting"]
  /\ announced = FALSE

RunningOn(c) == {t \in Tasks : Home(t) = c /\ status[t] = "running"}

Become(t, from, to) ==
  /\ status[t] = from /\ status' = [status EXCEPT ![t] = to]
  /\ UNCHANGED announced

Start(t) == RunningOn(Home(t)) = {} /\ Become(t, "waiting", "running")
Stop(t) == Become(t, "running", "waiting")
Finish(t) == Become(t, "running", "finished")

Announce ==
  /\ \A t \in Tasks : status[t] = "finished"
  /\ announced' = TRUE
  /\ UNCHANGED status

Next == Announce \/ \E t \in Tasks : Start(t) \/ Stop(t) \/ Finish(t)

Spec == Init /\ [][Next]_vars

=============================================================================
