\* Every fault, two workers, a channel and a batch of two, one event of each
\* kind on each way in.
SPECIFICATION Spec
CONSTANTS
    h1 = h1  h2 = h2  h3 = h3  k1 = k1  k2 = k2  k3 = k3
    NoEvent = NoEvent
    Workers = {w1, w2}
    HttpEvents = {h1, h2, h3}
    Topic <- MCTopic
    Invalid = {h1}
    Undecodable = {k2}
    Unstorable = {h2}
    QueueCap = 2
    BatchSize = 2
    Faults = {"tx", "crash", "commit"}
INVARIANTS TypeOK AtMostOnce NoSilentLoss StoredAnalysedCounted
PROPERTIES ImplementsDelivery
SYMMETRY WorkerSymmetry
CHECK_DEADLOCK FALSE
