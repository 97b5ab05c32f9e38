SPECIFICATION Spec
CONSTANTS
    Workers = {w1, w2}
    None = None
    Tasks = {t1}
    Requests = {r1}
    MaxAttempts = 2
    Decisions = 1
    Faults = {"lease"}
    MaxGen = 2
    MaxSteer = 2
    MaxRequeues = 0
SYMMETRY Symmetry
INVARIANTS LiveTaskKeepsItsJob
PROPERTIES OwnerIsObeyed DecidesOnAllMessages
