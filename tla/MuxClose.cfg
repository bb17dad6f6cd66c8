\* Closes of every kind around structural operations, jobs and exits.
CONSTANTS
    Start <- TwoSessions
    Sides = {1}
    Capacity = 1
    Groups = {1}
    Budgets <- CloseBudgets
SPECIFICATION CloseSpec
INVARIANTS OneHome ViewersInSession
PROPERTIES ConsentedScope ConsentedJobs
CHECK_DEADLOCK FALSE
