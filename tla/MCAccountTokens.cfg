SPECIFICATION Spec
CONSTANTS
    c1 = c1  c2 = c2
    Callers = {c1, c2}
    MayCall <- Routes
    Cooldown = 1
    Window = 3
    DailyCap = 2
    Ttl = 2
    MaxNow = 4
    MaxChanges = 2
    MaxTokens <- TokensOf
    MaxSessions = 1
INVARIANTS CredentialsFollowPassword MailIsThrottled
PROPERTIES ProofIsCurrent SpentOnce
CHECK_DEADLOCK FALSE
