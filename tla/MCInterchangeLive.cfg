\* Liveness of the interchange loop under FairSpec: two managers that may
\* crash, two tasks, capacity 1, every registration accepted.
\* No symmetry: it is not sound with liveness checking.
CONSTANTS
    Managers = {m1, m2}
    NTasks = 2
    Priorities = {1}
    Capacities = {1}
    HeartbeatThreshold = 1
    RegistrationVersions = {"match"}
    ReRegistration = FALSE
    MonitoringEnabled = FALSE
    ManagersMonitor = FALSE
    None = None

SPECIFICATION FairSpec
PROPERTY EveryTaskAnswered
PROPERTY DrainCompletes
