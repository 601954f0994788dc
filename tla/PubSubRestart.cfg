\* One subscriber that subscribes from two threads, a lossy bus, a publisher that restarts.
CONSTANTS
    Subscribers = {s1}
    Threads = {t1, t2}
    Rows = {r1}
    NoSeq = NoSeq
    Unknown = Unknown
    Suspect = Suspect
    Bus = Bus
    SnapshotPublisher = FALSE
    Lossy = TRUE
    MaxSeq = 2
    MaxInc = 2
    MaxDrains = 1
SPECIFICATION Spec
SYMMETRY Symmetry
INVARIANTS TypeOK CopyInv FaithfulCopy SnapshotIsCurrent
PROPERTIES ImplementsFeed
