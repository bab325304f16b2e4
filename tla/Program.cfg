\* Two control messages, so that one can be queued before the stop; the system clock
\* is set back once.  Two endpoints and one handle: one is connected, the other
\* retried for ever.
SPECIFICATION ProgramSpec
CONSTANTS
    NumEndpoints = 2
    Wsi = {w1}
    nullptr = nullptr
    CloseReasons = {"CLOSED"}
    InCallErrors = FALSE
    MaxArrivals = 2
    MaxJumps = 1
INVARIANTS
    CallbackContext
    QueueOutlivesCallbacks
PROPERTIES
    StopHandled
    PingsContinue
    ServesApi
