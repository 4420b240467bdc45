SPECIFICATION ScopedSpec
CONSTANTS
    daily = daily
    weekly = weekly
    monthly = monthly
    oneoff = oneoff
    onmail = onmail
    Tasks = {daily, weekly, monthly, onmail}
    Runs = {r1, r2}
    NoTask = NoTask
    NoRun = NoRun
    Trigger <- MCTrigger
    ModelBacked = {daily, weekly, monthly, onmail}
    AdminOnly = {monthly, onmail}
    Then <- MCNoChain
    Threshold = 2
    Editable = {monthly}
    Silent = {daily, weekly}
SYMMETRY Symmetric
INVARIANTS TypeOK ModelRunsExclude NoForgottenWaiter NoLeakedMark NoPhantomRows
PROPERTIES RecurringStaysScheduled TriggerKept
