----------------------------- MODULE Endpoints -----------------------------
(***************************************************************************)
(* What binance::api promises its caller about streams.  Every endpoint    *)
(* given to connect_endpoint has a set of open links to the exchange;      *)
(* unless the endpoint is one of Leaky, it never has more than one.  A     *)
(* message is handed to an endpoint's callback only while that endpoint    *)
(* has a link open.                                                        *)
(***************************************************************************)
EXTENDS Integers

CONSTANTS
    Endpoint,   \* the endpoints, as the integers that index subscribers_
    Link,       \* the identities a link can have
    Leaky       \* the endpoints that may hold several links at once

Nobody == -1

VARIABLES
    links,      \* links[e]: the links endpoint e has open
    feed        \* the endpoint whose callback got the latest message

vars == <<links, feed>>

Init ==
    /\ links = [e \in Endpoint |-> {}]
    /\ feed = Nobody

Open(e, l) ==
    /\ e \in Leaky \/ links[e] = {}
    /\ \A other \in Endpoint : l \notin links[other]
    /\ links' = [links EXCEPT ![e] = @ \cup {l}]
    /\ UNCHANGED feed

Close(e, l) ==
    /\ l \in links[e]
    /\ links' = [links EXCEPT ![e] = @ \ {l}]
    /\ UNCHANGED feed

Deliver(e) ==
    /\ links[e] # {}
    /\ feed' = e
    /\ UNCHANGED links

Quiet ==
    /\ feed' = Nobody
    /\ UNCHANGED links

Next ==
    \/ \E e \in Endpoint, l \in Link : Open(e, l) \/ Close(e, l)
    \/ \E e \in Endpoint : Deliver(e)
    \/ Quiet

Spec == Init /\ [][Next]_vars
=============================================================================
