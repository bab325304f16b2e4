\* Sessions may also end with LWS_CALLBACK_CLIENT_CLOSED, which event_cb_impl
\* ignores.  Errors never come inside connect, so that no endpoint is exempt
\* from the promise of Endpoints.
SPECIFICATION Spec
CONSTANTS
    NumEndpoints = 3
    Wsi = {w1, w2, w3}
    nullptr = nullptr
    CloseReasons = {"CLOSED", "CLIENT_CLOSED"}
    InCallErrors = FALSE
SYMMETRY HandleSymmetry
PROPERTIES
    RefinesEndpoints
    OrphansStay
