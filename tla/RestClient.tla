----------------------------- MODULE RestClient -----------------------------
(***************************************************************************)
(* binance::restful (restful.cpp) and the requests binance::api makes with *)
(* it (binance.cpp).  One easy handle of libcurl serves all requests: its  *)
(* options stay from one to the next, and two of them are the addresses of *)
(* strings that live as long as one call of api::get.  That call hands its *)
(* callback a view of one of them, and a callback may make another request.*)
(*                                                                         *)
(* libcurl is external: a transfer hands the pieces of the header and of   *)
(* the body of what the URL names to curl_cb (there is no header function, *)
(* so libcurl uses it for both), and may fail at any piece.                *)
(***************************************************************************)
EXTENDS Integers, Sequences

CONSTANTS
    Symbol,     \* what get_depth may be asked for
    Pieces,     \* how many pieces a header and a body have
    MaxCalls,   \* bound: calls of api::get
    MaxDepth    \* bound: calls from within a callback

ASSUME BoundsAssumption == {Pieces, MaxCalls, MaxDepth} \subseteq Nat

binance_url == "https://api.binance.com"

VARIABLES
    curl,       \* the options of the handle
    strings,    \* the std::string objects that are alive: what they hold
    stack,      \* the calls of api::get that have not returned, the latest last
    calls       \* calls of api::get so far

vars == <<curl, strings, stack, calls>>

\* A string object is known by the call it belongs to and its name there.
Object(call, name) == <<call, name>>
Nowhere == Object(0, "")

Init ==
    /\ curl = [url |-> <<>>, writedata |-> Nowhere, headerdata |-> Nowhere]
    /\ strings = [o \in {} |-> <<>>]
    /\ stack = <<>>
    /\ calls = 0

-----------------------------------------------------------------------------
\* The part kind ("header", "body") of what url names, as its pieces.
Part(url, kind) == [i \in 1 .. Pieces |-> <<url, kind, i>>]

Top == stack[Len(stack)]
Goto(pc) == stack' = [stack EXCEPT ![Len(stack)].pc = pc]

\* What get_exchange_info asks for; its own callback makes no requests.
ExchangeInfoUrl == <<binance_url, "/api/v3/exchangeInfo">>

\* Who may call: main, or a callback of a caller that is running.
MayCall == stack # <<>> => Top.pc = "callback" /\ Top.url # ExchangeInfoUrl

\* api::get: its two strings, and restful::get with its URL.
get(url) ==
    /\ MayCall /\ calls < MaxCalls /\ Len(stack) < MaxDepth
    /\ calls' = calls + 1
    /\ stack' = Append(stack, [pc |-> "set", call |-> calls + 1, url |-> url])
    /\ strings' = [o \in DOMAIN strings \cup {Object(calls + 1, "body"), Object(calls + 1, "header")} |->
                      IF o \in DOMAIN strings THEN strings[o] ELSE <<>>]
    /\ UNCHANGED curl

get_exchange_info == get(ExchangeInfoUrl)

get_depth(symbol) == get(<<binance_url, "/api/v3/depth?", "symbol=", symbol, "&limit=1000">>)

\* restful::api sets the options anew for every request.
SetOptions ==
    /\ stack # <<>> /\ Top.pc = "set"
    /\ curl' = [url |-> Top.url,
                writedata |-> Object(Top.call, "body"),
                headerdata |-> Object(Top.call, "header")]
    /\ Goto("perform")
    /\ UNCHANGED <<strings, calls>>

\* curl_cb: the next piece of the kind goes to the string at the address given.
\* The header comes before the body.
curl_cb(kind, o) ==
    /\ stack # <<>> /\ Top.pc = "perform"
    /\ o \in DOMAIN strings
    /\ Len(strings[o]) < Pieces
    /\ kind = "body" => Len(strings[curl.headerdata]) = Pieces
    /\ strings' = [strings EXCEPT ![o] = Append(@, Part(curl.url, kind)[Len(@) + 1])]
    /\ UNCHANGED <<curl, stack, calls>>

Receive == curl_cb("header", curl.headerdata) \/ curl_cb("body", curl.writedata)

\* Mutant: a transfer that failed counts as done when there is something.
AfterFailureUse == "callback"

\* api::get after restful::api has returned false.
AfterFailure == "return"

PerformFails ==
    /\ stack # <<>> /\ Top.pc = "perform"
    /\ Goto(AfterFailure)
    /\ UNCHANGED <<curl, strings, calls>>

PerformSucceeds ==
    /\ stack # <<>> /\ Top.pc = "perform"
    /\ Len(strings[curl.writedata]) = Pieces
    /\ Goto("callback")
    /\ UNCHANGED <<curl, strings, calls>>

CallbackReturns ==
    /\ stack # <<>> /\ Top.pc = "callback"
    /\ Goto("return")
    /\ UNCHANGED <<curl, strings, calls>>

\* api::get returns, and its strings are gone.
Return ==
    /\ stack # <<>> /\ Top.pc = "return"
    /\ strings' = [o \in {p \in DOMAIN strings : p[1] # Top.call} |-> strings[o]]
    /\ stack' = SubSeq(stack, 1, Len(stack) - 1)
    /\ UNCHANGED <<curl, calls>>

\* Every step but those of get_exchange_info and the end of a callback: these do
\* more (module ExchangeInfo).
RequestStep ==
    \/ \E symbol \in Symbol : get_depth(symbol)
    \/ SetOptions \/ Receive \/ PerformFails \/ PerformSucceeds \/ Return

-----------------------------------------------------------------------------
(* Properties.                                                             *)

\* The strings of the calls that have not returned.
StringsOfCalls == {Object(stack[i].call, n) : i \in DOMAIN stack, n \in {"header", "body"}}

TypeOK ==
    /\ DOMAIN curl = {"url", "writedata", "headerdata"}
    /\ \A i \in DOMAIN stack :
        /\ stack[i].pc \in {"set", "perform", "callback", "return"}
        /\ i < Len(stack) => stack[i].pc = "callback"
    /\ DOMAIN strings = StringsOfCalls
    /\ calls \in 0 .. MaxCalls

\* While libcurl works, the addresses it has are those of strings that are alive:
\* none of a request that has ended.
WritesToLiveStrings ==
    \A i \in DOMAIN stack :
        stack[i].pc = "perform" => {curl.writedata, curl.headerdata} \subseteq DOMAIN strings

\* What a callback sees is the whole body of its own request, without its header,
\* and stays so while the callback makes other requests with the same handle.
SeesOwnResponse ==
    \A i \in DOMAIN stack :
        stack[i].pc = "callback" =>
            strings[Object(stack[i].call, "body")] = Part(stack[i].url, "body")
=============================================================================
