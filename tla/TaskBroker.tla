----------------------------- MODULE TaskBroker -----------------------------
(***************************************************************************)
(* What the interchange promises the client about each task, without       *)
(* managers, capacities or keys: a task is received, waits in the queue,   *)
(* is handed to a worker pool, and is answered exactly once (its result or *)
(* a failure).  A task never goes back to the queue, is never answered     *)
(* while queued, and is never answered twice.  Steps may move several      *)
(* tasks at once, as one batch does.                                       *)
(***************************************************************************)
EXTENDS Naturals

CONSTANT NTasks

Tids == 0 .. NTasks - 1

VARIABLES
    submitted,  \* tasks received from the client so far (ids 0..submitted-1)
    queued,     \* tasks waiting for a worker pool
    running,    \* tasks handed to a worker pool and not yet answered
    answers     \* tid -> answers sent to the client for it

vars == <<submitted, queued, running, answers>>

Init ==
    /\ submitted = 0
    /\ queued = {}
    /\ running = {}
    /\ answers = [t \in Tids |-> 0]

\* The client submits the next task.
Submit ==
    /\ submitted < NTasks
    /\ queued' = queued \cup {submitted}
    /\ submitted' = submitted + 1
    /\ UNCHANGED <<running, answers>>

\* A batch of queued tasks is handed to a worker pool.
Assign(S) ==
    /\ S # {} /\ S \subseteq queued
    /\ queued' = queued \ S
    /\ running' = running \cup S
    /\ UNCHANGED <<submitted, answers>>

\* Some running tasks are answered, each once.
Answer(S) ==
    /\ S # {} /\ S \subseteq running
    /\ running' = running \ S
    /\ answers' = [t \in Tids |-> IF t \in S THEN answers[t] + 1 ELSE answers[t]]
    /\ UNCHANGED <<submitted, queued>>

Next ==
    \/ Submit
    \/ \E S \in SUBSET queued : Assign(S)
    \/ \E S \in SUBSET running : Answer(S)

Spec == Init /\ [][Next]_vars
=============================================================================
