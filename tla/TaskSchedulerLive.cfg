SPECIFICATION FairUnattended
CONSTANTS
    daily = daily
    weekly = weekly
    monthly = monthly
    oneoff = oneoff
    onmail = onmail
    Tasks = {oneoff, onmail}
    Runs = {r1, r2}
    NoTask = NoTask
    NoRun = NoRun
    Trigger <- MCTrigger
    ModelBacked = {oneoff, onmail}
    AdminOnly = {}
    Then <- MCEventChain
    Threshold = 1
    Editable = {}
    Silent = {oneoff, onmail}
INVARIANT NoDoubleDispatch
PROPERTIES EveryRunEnds DueIsServed
