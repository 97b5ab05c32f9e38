SPECIFICATION FairSpec
CONSTANTS
    Workers = {w1}
    None = None
    Tasks = {t1}
    Requests = {r1}
    MaxAttempts = 1
    Decisions = 1
    Faults = {"lease", "operator"}
    MaxGen = 2
    MaxSteer = 2
    MaxRequeues = 1
PROPERTIES QueuedTaskIsTaken
