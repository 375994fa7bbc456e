SPECIFICATION FairSpec
CONSTANTS
    Accounts = {a, b}
    Sources = {"quota"}
    Outcomes = {"ok", "network"}
    Retries = {2}
    Triggers = {"scheduled"}
    Cadence = {1}
    Backoff = {1}
    Gap = 1
    Lease = 1
    MaxLag = 0
    MaxGen = 2
    MaxFaults = 1
PROPERTY
    RecoveryNeverBlocks
