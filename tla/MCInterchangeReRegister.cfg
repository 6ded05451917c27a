\* A registration from an identity already in _ready_managers replaces its record.
CONSTANTS
    Managers = {m1, m2}
    NTasks = 3
    Priorities = {1, 2}
    Capacities = {1, 2}
    HeartbeatThreshold = 1
    RegistrationVersions = {"match"}
    ReRegistration = TRUE
    MonitoringEnabled = FALSE
    ManagersMonitor = FALSE
    None = None

SYMMETRY ManagerSymmetry
SPECIFICATION Spec
INVARIANT TaskAccounting
