\* A publisher that sends whole tables (use_snapshot=True), so that snapshots wait in queues too,
\* and two threads of the subscriber inside receive_data at once.
CONSTANTS
    Subscribers = {s1}
    Threads = {t1, t2}
    Rows = {r1}
    NoSeq = NoSeq
    Unknown = Unknown
    Suspect = Suspect
    Bus = Bus
    SnapshotPublisher = TRUE
    Lossy = TRUE
    MaxSeq = 3
    MaxInc = 1
    MaxDrains = 2
SPECIFICATION Spec
SYMMETRY Symmetry
INVARIANTS NothingReadyWaits
