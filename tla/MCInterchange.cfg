\* Safety of the interchange loop: two managers, three tasks of two priorities
\* or none, capacities 1 and 2, heartbeat ages capped at threshold + 1.
\* Monitoring is on and managers send monitoring sub-messages.
CONSTANTS
    Managers = {m1, m2}
    NTasks = 3
    Priorities = {1, 2}
    Capacities = {1, 2}
    HeartbeatThreshold = 1
    RegistrationVersions = {"match", "mismatch"}
    ReRegistration = FALSE
    MonitoringEnabled = TRUE
    ManagersMonitor = TRUE
    None = None

SYMMETRY ManagerSymmetry
SPECIFICATION Spec
INVARIANT TypeOK
INVARIANT InterestingRegistered
INVARIANT CapacityRespected
INVARIANT IdleBookkeeping
INVARIANT FreeCapacityIsInteresting
INVARIANT TaskAccounting
INVARIANT WorkConserving
INVARIANT MonitoringCurrent
PROPERTY BrokerSpec
