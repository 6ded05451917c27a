------------------------------- MODULE Probe -------------------------------
(***************************************************************************)
(* parsl/executors/high_throughput/probe.py: probe_addresses, which        *)
(* connects a DEALER socket to every candidate address of the interchange  *)
(* and polls their monitor sockets until one reports EVENT_CONNECTED or    *)
(* the timeout passes, and TestWorker.__init__, which connects to the      *)
(* address the probe returns.                                              *)
(*                                                                         *)
(* The clock counts the time.sleep(0.01) of the scan loop; a sleep may     *)
(* overrun, so one sleep advances it by 1 or 2.  It is only compared with  *)
(* the timeout, so it saturates at Timeout.  A connection to a             *)
(* reachable address completes at any moment after connect(): its          *)
(* EVENT_CONNECTED then waits on the monitor socket.                       *)
(***************************************************************************)
EXTENDS Naturals, Sequences

CONSTANTS
    Addresses,   \* the addresses argument, in order (a sequence)
    Reachable,   \* the addresses on which the interchange can be reached
    Timeout,     \* timeout, in scan sleeps
    None         \* Python None

Addrs == {Addresses[i] : i \in DOMAIN Addresses}

ASSUME /\ Reachable \subseteq Addrs /\ Timeout \in Nat /\ None \notin Addrs

VARIABLES
    pc,              \* "while", "for", "return", "connect", "done"
    clock,           \* time.time() - start_t, in sleeps, saturating at Timeout
    i,               \* position of the for loop over addr_map
    first_connected, \* first_connected
    connected,       \* addresses whose EVENT_CONNECTED waits on the monitor
    worker_target    \* the address TestWorker connects its task socket to

pvars == <<pc, clock, i, first_connected, connected, worker_target>>

Init ==
    /\ pc = "while"
    /\ clock = 0
    /\ i = 1
    /\ first_connected = None
    /\ connected = {}
    /\ worker_target = None

\* The TCP connection to a reachable address completes (not a step of the
\* probe); the sockets stop listening once probe_addresses closes them.
ConnectionEstablished(a) ==
    /\ pc \in {"while", "for"}
    /\ a \in Reachable \ connected
    /\ connected' = connected \cup {a}
    /\ UNCHANGED <<pc, clock, i, first_connected, worker_target>>

\* Mutant: the loop keeps polling until some address connects.
WhileTestNoTimeout ==
    IF first_connected = None THEN pc' = "for" ELSE pc' = "return"

\* while time.time() < start_t + timeout and not first_connected
WhileTest ==
    IF clock < Timeout /\ first_connected = None THEN pc' = "for" ELSE pc' = "return"

ProbeWhile ==
    /\ pc = "while"
    /\ WhileTest
    /\ i' = 1
    /\ UNCHANGED <<clock, first_connected, connected, worker_target>>

\* Mutant: the address taken without looking at its monitor socket.
EventReceivedUnchecked(a) == TRUE

\* recv_monitor_message(mon_sock, zmq.NOBLOCK) returns instead of raising
\* zmq.Again.
EventReceived(a) == a \in connected

\* time.time() - start_t, as far as the while test can tell.
Elapsed(t) == IF t > Timeout THEN Timeout ELSE t

\* One turn of the for loop: an address whose monitor has an event becomes
\* first_connected and the loop breaks; otherwise sleep and go on.
ProbeScan ==
    /\ pc = "for"
    /\ i =< Len(Addresses)
    /\ IF EventReceived(Addresses[i])
       THEN /\ first_connected' = Addresses[i]
            /\ pc' = "while"
            /\ UNCHANGED <<clock, i>>
       ELSE /\ \E d \in {1, 2} : clock' = Elapsed(clock + d)
            /\ i' = i + 1
            /\ UNCHANGED <<pc, first_connected>>
    /\ UNCHANGED <<connected, worker_target>>

\* The for loop has run through addr_map.
ProbeForEnd ==
    /\ pc = "for"
    /\ i > Len(Addresses)
    /\ pc' = "while"
    /\ UNCHANGED <<clock, i, first_connected, connected, worker_target>>

\* Close every probe socket and return first_connected (None on timeout).
ProbeReturn ==
    /\ pc = "return"
    /\ pc' = "connect"
    /\ UNCHANGED <<clock, i, first_connected, connected, worker_target>>

\* TestWorker.__init__: connect the task socket to tcp_url(address, port),
\* whatever probe_addresses returned.
WorkerConnect ==
    /\ pc = "connect"
    /\ worker_target' = first_connected
    /\ pc' = "done"
    /\ UNCHANGED <<clock, i, first_connected, connected>>

ProbeStep == ProbeWhile \/ ProbeScan \/ ProbeForEnd \/ ProbeReturn \/ WorkerConnect

Finished == pc = "done" /\ UNCHANGED pvars

ProbeNext ==
    \/ ProbeStep
    \/ \E a \in Addrs : ConnectionEstablished(a)
    \/ Finished

\* probe_addresses runs in one thread and never blocks: it keeps stepping.
\* The network gets no fairness: an address may never connect.
ProbeSpec == Init /\ [][ProbeNext]_pvars /\ WF_pvars(ProbeStep)

-----------------------------------------------------------------------------
\* When probe_addresses returns, either it names an address whose
\* connection was reported by its monitor socket, or it gives up with None
\* and the timeout has passed.
ProbeOutcome ==
    pc \in {"connect", "done"} =>
        \/ first_connected \in connected
        \/ first_connected = None /\ clock >= Timeout

\* The probe returns even when no address ever connects: the timeout bounds
\* the polling loop.
ProbeTerminates == <>(pc = "done")

\* TestWorker connects its task socket to an address on which the
\* interchange can be reached.
WorkerConnectsToViable == pc = "done" => worker_target \in Reachable

=============================================================================
