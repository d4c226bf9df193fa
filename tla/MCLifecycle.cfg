CONSTANTS
    Calls = {c1}
    Senders = {s1}
SPECIFICATION FairSpec
INVARIANTS
    TypeOK
    UsedAfterSet
    UnreadyNeverTrades
PROPERTIES
    SafeOnceUp
    StopEnds
    HashRecovers
