\* Pages and callers, two readers and three cards.
SPECIFICATION MCSpec
CONSTANTS
    e1 = e1
    e2 = e2
    f1 = f1
    o1 = o1
    c1 = c1
    MaxReaders = 2
    Cards = {e1, e2, f1}
    EstEID = {e1, e2}
    Items = {"authCert", "signCert"}
    Observers = {o1}
    Callers = {c1}
    None = None
INVARIANTS
    TypeOK
    ObserverViews
    CacheHoldsTheCard
PROPERTIES
    CacheConverges
