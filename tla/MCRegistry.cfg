SPECIFICATION PremiseSpec
CONSTANTS
    producer = producer
    middle = middle
    reader = reader
    NoProducer = NoProducer
    Intents <- MCIntents
    Bases <- MCBases
    Payloads <- MCPayloads
    Requests <- MCRequests
    Paths <- MCPaths
    Lines <- MCLines
    LeaseTicks = 1
    TxnTicks = 0
    MaxContent = 2
INVARIANTS
    TypeOK
    PremisesAcyclic
    PremisesRecorded
    RecoveryBarrier
PROPERTIES
    AuthorityNotRevived
    StalenessPropagates
    ContractChangeStales
    ChangedPremiseStales
    ImplementsLifecycle
