SPECIFICATION FairSpec
CONSTANTS
    Accounts = {a, b}
    Sources = {"quota"}
    Outcomes = {"ok", "schema", "http_429"}
    Retries = {2}
    Triggers = {"manual", "scheduled"}
    Cadence = {1}
    Backoff = {1}
    Gap = 1
    Lease = 1
    MaxLag = 0
    MaxGen = 2
    MaxFaults = 1
INVARIANT
    TypeOK
PROPERTIES
    FencesHold
    NoForeignOutcome
    RecordedNotResent
    ClaimResolved
    DueServed
