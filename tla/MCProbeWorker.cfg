\* TestWorker connects to whatever probe_addresses returns, None included.
\* Expected: WorkerConnectsToViable is violated.
CONSTANTS
    a1 = a1
    a2 = a2
    a3 = a3
    Addresses <- MCAddresses
    Reachable = {a2, a3}
    Timeout = 4
    None = None

SPECIFICATION ProbeSpec
INVARIANT WorkerConnectsToViable
