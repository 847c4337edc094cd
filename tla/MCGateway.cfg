SPECIFICATION FairSpec
CONSTANTS
    q1 = q1
    api = api
    llm = llm
    NoService = NoService
    OpenAIService = llm
    Req <- OneReq
    Service <- TwoServices
    Credentials <- SomeCredentials
    Routes <- SomeRoutes
    RuleSets <- SomeRules
    Scopes <- NoneOrOne
    RetryCount = 1
    MaxChanges = 3
CHECK_DEADLOCK FALSE
INVARIANTS
    TypeOK
    ForwardedWasPermitted
    ShortestPrefixDecides
    ScopeIsKept
    SentAtMost
PROPERTIES
    RequestsAnswered
