SPECIFICATION FairSpec
CONSTANTS
    Workers = {w1}
    None = None
    Tasks = {t1}
    Requests = {r1}
    MaxAttempts = 2
    Decisions = 1
    Faults = {"request", "worker"}
    MaxGen = 2
    MaxSteer = 2
    MaxRequeues = 0
INVARIANTS ActiveJobIsCurrent
PROPERTIES StopEndsTheRun
