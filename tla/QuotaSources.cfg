SPECIFICATION Spec
CONSTANTS
    Accounts = {a}
    Sources = {"quota", "reset"}
    Outcomes = {"ok", "auth", "http_429"}
    Retries = {2}
    Triggers = {"manual", "foreground", "wake", "startup"}
    Cadence = {1}
    Backoff = {1}
    Gap = 1
    Lease = 1
    MaxLag = 1
    MaxGen = 1
    MaxFaults = 1
PROPERTIES
    FencesHold
