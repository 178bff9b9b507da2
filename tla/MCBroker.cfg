SPECIFICATION BrokerSpec
CONSTANTS
    producer = producer
    worker = worker
    b1 = b1
    b2 = b2
    w1 = w1
    NoProducer = NoProducer
    NoBroker = NoBroker
    Intents <- MCIntents
    Bases <- MCBases
    Payloads <- MCPayloads
    Requests <- MCRequests
    Paths <- MCPaths
    Lines <- MCLines
    Brokers <- MCBrokers
    Roots <- MCRoots
    Serves <- MCServes
    RootOf <- MCRootOf
    LeaseTicks = 1
    WriterTicks = 1
    TxnTicks = 0
    MaxContent = 3
    MaxContents = 1
INVARIANTS
    WriterAuthority
    TreeProvenance
PROPERTY
    CommittedUnderAuthority
SYMMETRY Symmetry
