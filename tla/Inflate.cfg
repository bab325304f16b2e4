\* Three files; a timeout on either side of each boundary of get_timeout; archives of
\* up to two entries of up to two blocks, with trouble at any answer.
SPECIFICATION FairInflateSpec
CONSTANTS
    Char = {"a", "b", "c"}
    garbage = "?"
    Files <- MCFiles
    CurlTimeouts <- MCCurlTimeouts
    Archives <- MCArchives
INVARIANTS
    BuffersRight
    NothingMissing
PROPERTY
    InflateEnds
