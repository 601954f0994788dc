\* A bus that loses nothing, one subscribing thread, no restart.
CONSTANTS
    Subscribers = {s1}
    Threads = {t1}
    Rows = {r1}
    NoSeq = NoSeq
    Unknown = Unknown
    Suspect = Suspect
    Bus = Bus
    SnapshotPublisher = FALSE
    Lossy = FALSE
    MaxSeq = 5
    MaxInc = 1
    MaxDrains = 1
SPECIFICATION SteadySpec
PROPERTIES Converges
