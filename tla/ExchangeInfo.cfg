\* Four calls, each complete, partial or failed, up to two from within
\* callbacks; two responses that share one name, in two pieces.
SPECIFICATION ExchangeSpec
CONSTANTS
    Symbol = {"ETHBTC", "LTCBTC"}
    Pieces = 2
    MaxCalls = 4
    MaxDepth = 3
    Name <- MCName
    Asset <- MCAsset
    Responses <- MCResponses
\* With MaxCalls calls made nothing is left to do.
CHECK_DEADLOCK FALSE
INVARIANTS
    OwnResponse
    ReferencesAlive
    SymbolsMatchResponse
