----------------------------- MODULE MCStreams ------------------------------
(* A small instance of Streams for TLC. *)
EXTENDS Streams

\* Every text of up to five characters.
Alphabet == {"A", "a", "b", ";"}
MCCharacters == Alphabet \cup {"bookTicker", "aggTrade"}
MCTexts == UNION {[1 .. n -> Alphabet] : n \in 0 .. 5}
MCLowerCase == [A |-> "a"]
MCStreamNames == <<"bookTicker", "aggTrade">>
=============================================================================
