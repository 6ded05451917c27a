\* A registration with a mismatched version is reported to the hub as an
\* active manager before the version check, and never withdrawn.
\* Expected: RemovedReportedInactive is violated.
CONSTANTS
    Managers = {m1, m2}
    NTasks = 3
    Priorities = {1, 2}
    Capacities = {1, 2}
    HeartbeatThreshold = 1
    RegistrationVersions = {"match", "mismatch"}
    ReRegistration = FALSE
    MonitoringEnabled = TRUE
    ManagersMonitor = FALSE
    None = None

SYMMETRY ManagerSymmetry
SPECIFICATION Spec
INVARIANT RemovedReportedInactive
