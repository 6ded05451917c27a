\* The spec's priority direction (higher number first) against the code's queue keys.
CONSTANTS
    Managers = {m1, m2}
    NTasks = 3
    Priorities = {1, 2}
    Capacities = {1, 2}
    HeartbeatThreshold = 1
    RegistrationVersions = {"match"}
    ReRegistration = FALSE
    MonitoringEnabled = FALSE
    ManagersMonitor = FALSE
    None = None

SYMMETRY ManagerSymmetry
SPECIFICATION Spec
PROPERTY HigherPriorityFirst
