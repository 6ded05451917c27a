\* Monitoring is off but a manager sends a monitoring sub-message in a
\* result batch: the assert on monitoring_radio ends the loop.
\* Expected: NeverAborts is violated.
CONSTANTS
    Managers = {m1, m2}
    NTasks = 3
    Priorities = {1, 2}
    Capacities = {1, 2}
    HeartbeatThreshold = 1
    RegistrationVersions = {"match"}
    ReRegistration = FALSE
    MonitoringEnabled = FALSE
    ManagersMonitor = TRUE
    None = None

SYMMETRY ManagerSymmetry
SPECIFICATION Spec
INVARIANT NeverAborts
