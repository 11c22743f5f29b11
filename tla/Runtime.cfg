SPECIFICATION MCSpec

CONSTANTS
    meta = meta  s1 = s1  owner1 = owner1
    r1 = r1  r2 = r2  c1 = c1  c2 = c2
    None = None
    Meta = meta
    Owner = owner1
    Spaces <- MCSpaces
    Stores <- MCStores
    Tokens <- MCTokens
    Requests = {r1, r2}
    Clients = {c1, c2}
    MaxFaults = 2
    MaxQueue = 1
    MaxCrashes = 2

INVARIANTS StoresSurvive ReadyMeansWhole HandlesAreSound
PROPERTY EverybodyIsAnswered
CHECK_DEADLOCK FALSE
