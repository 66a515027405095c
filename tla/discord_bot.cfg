SPECIFICATION FairSpec
CONSTANTS
    None = None
    Truncated = Truncated
    Torn = Torn
    Token = {"t0", "t1", "t2", "t3"}
    Proc = {"p1", "p2", "p3", "h1", "h2"}
    Opener = {"p1", "p2", "p3", "h1", "h2"}
    HookProc = {"h1", "h2"}
    Gateway = "gateway"
    Client = {"p1", "p2", "p3", "h1", "h2", "gateway"}
    Channel = {"issues", "thread", "general"}
    Parent <- MCParent
    Us = "us"
    BotId = {"us", "other"}
    Dir = {"app", "docs"}
    MaxRetries = 1
    MaxSleep = 0
    MaxBody = 12
    MaxLimit = 3
    Content <- Contents
    FaultKinds = {"limited", "auth", "other", "unreadable", "network", "late", "orphan", "spawn", "gap", "close", "dirs", "kill"}
    Scenarios <- MCScenarios
INVARIANTS TypeOK PartsInOrder SplitIsFaithful SentIsReported ReadersMissNothing NoSilentLoss OpenIsSound NoHookLoop RightDirectory
PROPERTIES EveryCommandEnds EventLoopMovesOn
CHECK_DEADLOCK FALSE
