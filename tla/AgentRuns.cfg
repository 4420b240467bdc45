SPECIFICATION FairSpec
CONSTANTS
    Runs = {r1, r2}
    Clients = {c1, c2}
    NoRun = NoRun
    MaxEvents = 2
INVARIANTS TypeOK InOrderOnce IdleRunsExpire DrainsOwnRun
PROPERTIES StreamsEndUnlessStuck ImplementsEventStream
