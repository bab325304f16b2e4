\* Every text of up to five characters over an upper-case and two lower-case letters
\* and the delimiter: empty and repeated tokens, delimiters at either end; for each,
\* both kinds of stream.
SPECIFICATION StreamsSpec
CONSTANTS
    Characters <- MCCharacters
    LowerCase <- MCLowerCase
    Texts <- MCTexts
    StreamNames <- MCStreamNames
\* The start without symbols, and nothing more to be published.
CHECK_DEADLOCK FALSE
INVARIANTS
    SymbolsReachExchange
    TopicsDistinct
