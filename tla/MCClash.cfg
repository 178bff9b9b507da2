SPECIFICATION HistSpec
CONSTANTS
    first = first
    second = second
    NoProducer = NoProducer
    Intents <- MCIntents
    Bases <- MCBases
    Payloads <- RivalPayloads
    Requests <- MCRequests
    Paths <- MCPaths
    Lines <- MCLines
    LeaseTicks = 2
    TxnTicks = 1
    MaxContent = 3
INVARIANT
    NoWriteClash
