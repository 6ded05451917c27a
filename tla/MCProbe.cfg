\* probe_addresses: three addresses (a1 unreachable), a timeout of four
\* sleeps, connections completing at any moment.
CONSTANTS
    a1 = a1
    a2 = a2
    a3 = a3
    Addresses <- MCAddresses
    Reachable = {a2, a3}
    Timeout = 4
    None = None

SPECIFICATION ProbeSpec
INVARIANT ProbeOutcome
PROPERTY ProbeTerminates
