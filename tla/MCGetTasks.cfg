\* get_tasks against the sorted-prefix reference, every queue of 4 tasks.
CONSTANTS
    Priorities = {1, 2}
    None = None
    NTasks = 4
SPECIFICATION GetTasksSpec
INVARIANT GetTasksMatchesReference
