SPECIFICATION Spec
CONSTANTS
    Callers = {c1, c2, c3}
    Futures = {f1, f2, f3}
    NoFuture = NoFuture
INVARIANTS TypeOK SingleFetch
PROPERTY CallsEnd
