-------------------------- MODULE PendingTaskQueue --------------------------
(***************************************************************************)
(* The interchange's pending_task_queue, a sortedcontainers.SortedList of  *)
(* (-priority, -task_counter, msg) tuples, and get_tasks, which pops the   *)
(* greatest tuples.  The queue is a set of entries: the task counter makes *)
(* every key distinct.  Precedes is the dispatch order the code means,     *)
(* stated without the keys (the comment at process_task_incoming: a higher *)
(* number is a lower priority; the spec, section 4.2, says the opposite),  *)
(* against which the keys are checked.                                     *)
(***************************************************************************)
EXTENDS Integers, Sequences

CONSTANTS
    Priorities,  \* the finite resource_spec priorities tasks carry
    None         \* no priority in resource_spec: float('inf')

\* A missing resource_spec priority is float('inf'); its key -inf is below
\* the key of every finite priority.
\* Mutant: the key of a missing priority without its minus sign, above every
\* finite key.
PriorityKeyInfFirst(p) ==
    IF p = None THEN 1 + CHOOSE x \in Priorities : \A y \in Priorities : x >= y
                ELSE -p

PriorityKey(p) ==
    IF p = None THEN -(1 + CHOOSE x \in Priorities : \A y \in Priorities : x >= y)
                ELSE -p

\* The queue entry (-priority, -task_counter, msg); msg keeps its task_id and
\* its priority.
QueueEntry(p, n) == [pk |-> PriorityKey(p), ak |-> -n, tid |-> n, prio |-> p]

\* SortedList(key=lambda tup: (tup[0], tup[1])) orders entries lexicographically.
KeyLeq(e, f) == e.pk < f.pk \/ (e.pk = f.pk /\ e.ak =< f.ak)

\* SortedList.pop() removes the greatest entry.
Greatest(q) == CHOOSE e \in q : \A f \in q : KeyLeq(f, e)

\* get_tasks(count): pop up to count entries, stopping when the queue empties.
RECURSIVE GetTasks(_, _)
GetTasks(q, count) ==
    IF count =< 0 \/ q = {} THEN <<>>
    ELSE <<Greatest(q)>> \o GetTasks(q \ {Greatest(q)}, count - 1)

EntriesOf(s) == {s[i] : i \in DOMAIN s}

\* The dispatch order of the comment "higher number = lower priority",
\* stated independently of the queue keys: a smaller priority number first
\* (None is infinite, last), ties in arrival order.
PrioBefore(p, q) == p # None /\ (q = None \/ p < q)
Precedes(e, f) == PrioBefore(e.prio, f.prio) \/ (e.prio = f.prio /\ e.tid < f.tid)
=============================================================================
