SPECIFICATION Spec
CONSTANTS
    left = left
    right = right
    agent = agent
    operator = operator
    rival = rival
    extra = extra
    Sessions <- MCSessions
    Intents <- MCIntents
    NoContent <- NoScope
    Callers <- MCCallers
    Of <- MCOf
    May <- MCMay
    Scope = {extra}
    MaxResume = 1
    MaxVersion = 2
INVARIANTS
    CodexTypeOK
    OneIntentPerSession
    VerifiedIsCompleted
    AbandonedHasNoAuthority
    ContractInherited
