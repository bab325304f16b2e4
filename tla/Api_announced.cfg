\* Two endpoints, as main makes; three handles, so that one can be reused
\* while both endpoints are connected; errors may come inside connect.
SPECIFICATION FairSpec
CONSTANTS
    NumEndpoints = 2
    Wsi = {w1, w2, w3}
    nullptr = nullptr
    CloseReasons = {"CLOSED"}
    InCallErrors = TRUE
INVARIANTS
    DeliveredToOwner
    NoDanglingHandle
    CleanTeardown
    OneLink
PROPERTY
    NeverAbandoned
