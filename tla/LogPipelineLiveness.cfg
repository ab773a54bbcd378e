\* Any transaction may fail, and one event makes every transaction fail.
SPECIFICATION FairSpec
CONSTANTS
    h1 = h1  h2 = h2  h3 = h3  k1 = k1  k2 = k2  k3 = k3
    NoEvent = NoEvent
    Workers = {w1, w2}
    HttpEvents = {h2, h3}
    Topic <- MCTopic
    Invalid = {}
    Undecodable = {k2}
    Unstorable = {h2}
    QueueCap = 1
    BatchSize = 2
    Faults = {"tx"}
PROPERTIES ProducersGoOn TakenIsAnalysed ImplementsFairDelivery
CHECK_DEADLOCK FALSE
