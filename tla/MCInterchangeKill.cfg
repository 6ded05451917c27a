\* A version mismatch ends the loop while tasks are outstanding: under the
\* same fairness as MCInterchangeLive.cfg, with mismatching registrations.
\* Expected: EveryTaskAnswered is violated.
CONSTANTS
    Managers = {m1, m2}
    NTasks = 2
    Priorities = {1}
    Capacities = {1}
    HeartbeatThreshold = 1
    RegistrationVersions = {"match", "mismatch"}
    ReRegistration = FALSE
    MonitoringEnabled = FALSE
    ManagersMonitor = FALSE
    None = None

SPECIFICATION FairSpec
PROPERTY EveryTaskAnswered
