------------------------------ MODULE Streams -------------------------------
(***************************************************************************)
(* From the symbols on the command line to the topics of MQTT: main splits *)
(* the text (binancenativeapp.cpp) and subscribes to two kinds of stream;  *)
(* for each, ticker::subscribe (ticker.h) makes a stream of each symbol    *)
(* and combines them into the path of one endpoint, and its callback turns *)
(* the name of a stream back into a topic of the one MQTT client.  The     *)
(* helpers are crypto::utils::split, to_lower and combine (utils.cpp).     *)
(*                                                                         *)
(* A text is a sequence of characters; the names "bookTicker" and          *)
(* "aggTrade" and the fixed start of the path count as one character each. *)
(* The exchange is external: it takes the path apart at each '/' and sends *)
(* messages that carry the name of their stream.                           *)
(***************************************************************************)
EXTENDS Integers, Sequences

CONSTANTS
    Characters,     \* of symbols, and the kinds of stream
    LowerCase,      \* the lower-case letter of each upper-case one
    Texts,          \* what may be given as symbols
    StreamNames     \* the kinds of stream, in the order main subscribes to them

\* The exchange takes the path apart at each '/': no symbol and no kind has one.
\* The calls of subscribe name different kinds.
ASSUME CharactersAssumption ==
    /\ ";" \in Characters /\ "/" \notin Characters
    /\ Texts \subseteq Seq(Characters) /\ StreamNames \in Seq(Characters)
    /\ \A k, l \in DOMAIN StreamNames : StreamNames[k] = StreamNames[l] => k = l
    /\ \A c \in DOMAIN LowerCase : LowerCase[c] \in Characters

VARIABLES
    stage,
    symbols,    \* the text given
    rest,       \* what std::getline has not yet read of it
    pairs,      \* the tokens
    stream,     \* the latest call of subscribe: its place in StreamNames
    sub,        \* the names of its streams, one per token
    written,    \* how many of them combine has written
    channel,    \* its path, as far as it is written
    endpoints,  \* the calls that are over and their paths
    published   \* the messages published: call, name of the stream and topic

textVars == <<symbols, rest, pairs>>

streamsVars == <<stage, textVars, stream, sub, written, channel, endpoints, published>>

\* main makes a ticker only if there are symbols.
MakesTicker(text) == text # <<>>

StreamsInit ==
    /\ symbols \in Texts
    /\ stage = IF MakesTicker(symbols) THEN "split" ELSE "no ticker"
    /\ rest = symbols
    /\ pairs = <<>>
    /\ stream = 0
    /\ sub = <<>>
    /\ written = 0
    /\ channel = <<>>
    /\ endpoints = {}
    /\ published = {}

-----------------------------------------------------------------------------
(* utils.cpp                                                               *)

to_lower(s) == [i \in DOMAIN s |-> IF s[i] \in DOMAIN LowerCase THEN LowerCase[s[i]] ELSE s[i]]

\* Where the first c is in s, or just after its end.
Find(s, c) ==
    CHOOSE i \in 1 .. Len(s) + 1 :
        (i <= Len(s) => s[i] = c) /\ \A j \in 1 .. i - 1 : s[j] # c

\* What std::getline reads, up to the next delimiter.
Token(s) == SubSeq(s, 1, Find(s, ";") - 1)

\* std::getline fails when there is not one character left.
GetLine ==
    /\ stage = "split" /\ rest # <<>>
    /\ pairs' = Append(pairs, Token(rest))
    /\ rest' = SubSeq(rest, Find(rest, ";") + 1, Len(rest))
    /\ UNCHANGED <<stage, symbols, stream, sub, written, channel, endpoints, published>>

SplitEnds ==
    /\ stage = "split" /\ rest = <<>>
    /\ stage' = "subscribe"
    /\ UNCHANGED <<textVars, stream, sub, written, channel, endpoints, published>>

-----------------------------------------------------------------------------
(* ticker::subscribe, which main calls once for each kind of stream        *)

Subscribe ==
    /\ stage = "subscribe" /\ stream < Len(StreamNames)
    /\ stage' = "format"
    /\ stream' = stream + 1
    /\ sub' = <<>>
    /\ written' = 0
    /\ channel' = <<"/stream?streams=">>
    /\ UNCHANGED <<textVars, endpoints, published>>

\* fmt::format("{}@{}", to_lower(s), stream)
StreamOf(symbol, kind) == to_lower(symbol) \o <<"@", kind>>

Format ==
    /\ stage = "format" /\ Len(sub) < Len(pairs)
    /\ sub' = Append(sub, StreamOf(pairs[Len(sub) + 1], StreamNames[stream]))
    /\ UNCHANGED <<stage, textVars, stream, written, channel, endpoints, published>>

FormatEnds ==
    /\ stage = "format" /\ Len(sub) = Len(pairs)
    /\ stage' = "combine"
    /\ UNCHANGED <<textVars, stream, sub, written, channel, endpoints, published>>

\* Mutant: combine writes the delimiter after each value.
DelimiterAfter(value, first) == value \o <<"/">>

\* combine writes the delimiter before each value but the first.
Delimited(value, first) == IF first THEN value ELSE <<"/">> \o value

Combine ==
    /\ stage = "combine" /\ written < Len(sub)
    /\ channel' = channel \o Delimited(sub[written + 1], written = 0)
    /\ written' = written + 1
    /\ UNCHANGED <<stage, textVars, stream, sub, endpoints, published>>

ConnectEndpoint ==
    /\ stage = "combine" /\ written = Len(sub)
    /\ stage' = "subscribe"
    /\ endpoints' = endpoints \cup {[stream |-> stream, channel |-> channel]}
    /\ UNCHANGED <<textVars, stream, sub, written, channel, published>>

\* main goes on to its loop, the only place where messages come.
EventLoop ==
    /\ stage = "subscribe" /\ stream = Len(StreamNames)
    /\ stage' = "connected"
    /\ UNCHANGED <<textVars, stream, sub, written, channel, endpoints, published>>

-----------------------------------------------------------------------------
(* The callback.                                                           *)

\* The parts between the delimiters of s.
Parts(s, delimiter) ==
    LET ends == {i \in DOMAIN s : s[i] = delimiter} \cup {0, Len(s) + 1}
        between == {e \in ends \X ends : e[1] < e[2] /\ \A k \in ends : k <= e[1] \/ k >= e[2]}
    IN  {SubSeq(s, e[1] + 1, e[2] - 1) : e \in between}

\* The streams the exchange finds in a path.
StreamsIn(path) == Parts(SubSeq(path, 2, Len(path)), "/")

\* Mutant: the kind of stream is dropped from the name.
TopicOfSymbol(name) == SubSeq(name, 1, Find(name, "@") - 1)

\* std::replace of '@' by '/'
Topic(name) == [i \in DOMAIN name |-> IF name[i] = "@" THEN "/" ELSE name[i]]

\* A message comes on one of the streams of either endpoint and is published.
Message ==
    /\ stage = "connected"
    /\ \E e \in endpoints : \E name \in StreamsIn(e.channel) :
          published' = published \cup
              {[stream |-> e.stream, name |-> name, topic |-> Topic(name)]}
    /\ UNCHANGED <<stage, textVars, stream, sub, written, channel, endpoints>>

StreamsNext ==
    \/ GetLine \/ SplitEnds
    \/ Subscribe \/ Format \/ FormatEnds \/ Combine \/ ConnectEndpoint
    \/ EventLoop \/ Message

StreamsSpec == StreamsInit /\ [][StreamsNext]_streamsVars

-----------------------------------------------------------------------------
(* Properties.                                                             *)

StreamsTypeOK ==
    /\ stage \in {"no ticker", "split", "subscribe", "format", "combine", "connected"}
    /\ stream \in 0 .. Len(StreamNames)
    /\ written \in 0 .. Len(sub) /\ Len(sub) \in 0 .. Len(pairs)
    /\ \A e \in endpoints : e.stream \in DOMAIN StreamNames
    /\ \A m \in published : m.stream \in DOMAIN StreamNames

\* combine reads the first of its values without asking whether there is one: no
\* text that main hands on, not even one of delimiters only, leaves it without.
CombineHasValue == stage = "combine" => sub # <<>>

\* The tokens with the delimiters between them.
Joined(tokens) ==
    LET joined[k \in 1 .. Len(tokens)] ==
            IF k = 1 THEN tokens[1] ELSE joined[k - 1] \o <<";">> \o tokens[k]
    IN  joined[Len(tokens)]

\* split neither loses nor adds anything: the tokens with the delimiters between
\* them are the text, but for a delimiter at its end.
SplitComplete ==
    stage \notin {"no ticker", "split"} =>
        /\ \A i \in DOMAIN pairs : \A j \in DOMAIN pairs[i] : pairs[i][j] # ";"
        /\ pairs # <<>> => symbols \in {Joined(pairs), Joined(pairs) \o <<";">>}

\* The exchange finds in the path of each endpoint one stream for each symbol given,
\* in lower case and of the endpoint's kind, and no other; when main comes to its
\* loop, there is an endpoint of each kind.
StreamsAsGiven ==
    /\ \A e \in endpoints :
          StreamsIn(e.channel) = {StreamOf(pairs[i], StreamNames[e.stream]) : i \in DOMAIN pairs}
    /\ stage = "connected" => {e.stream : e \in endpoints} = DOMAIN StreamNames

\* From the text of the options to the paths of the streams, no symbol gets lost.
SymbolsReachExchange == StreamsTypeOK /\ CombineHasValue /\ SplitComplete /\ StreamsAsGiven

\* Messages of different streams are published under different topics, of whatever
\* symbols they are and from whichever of the endpoints they come.
TopicsDistinct ==
    \A m, n \in published : m.topic = n.topic => m.stream = n.stream /\ m.name = n.name
=============================================================================
