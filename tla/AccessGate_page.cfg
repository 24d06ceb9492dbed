\* Two plugin objects of one document, both user interfaces.
SPECIFICATION Spec
CONSTANTS
    page = page
    eid = eid
    A = A
    B = B
    None = None
    Sites = {page, eid}
    Defaults = {eid}
    MaxCopies = 1
    Objects = {A, B}
    Urls <- MCUrls
    UIs = {"gtk", "windows"}
SYMMETRY Symmetry
INVARIANTS
    TypeOK
    NoDataWithoutConsent
    RefusalIsShown
    BarTellsTheTruth
    ListIsInForce
    EventsFollowTheList
