\* Two instances, crashes, and files that cannot be written or removed.
SPECIFICATION Spec
CONSTANTS
    eid = eid
    bank = bank
    shop = shop
    A = A
    B = B
    Sites = {eid, bank, shop}
    Defaults = {eid}
    LegacyFiles <- MCLegacyFiles
    Instances = {A, B}
    IOFailures = TRUE
INVARIANTS
    TypeOK
    SitesKept
    SitesInForce
