-------------------------------- MODULE Api --------------------------------
(***************************************************************************)
(* The connection manager of binance::api (binance.cpp, binance.h): the    *)
(* vector subscribers_, the map subscriber_callbacks_ from a libwebsockets *)
(* handle to an index of that vector, the reconnecting scan at the head of *)
(* event_loop, the callback event_cb_impl that lws_service runs, and the   *)
(* teardown in ~api.  Everything here runs on the main thread.             *)
(*                                                                         *)
(* libwebsockets is external.  It is modelled by what the source asks of   *)
(* it: lws_client_connect_via_info stores a handle through pwsi, or leaves *)
(* a null pointer there when it fails; a connection is later established   *)
(* or refused; an established one delivers messages until it is closed.    *)
(* A handle is an address: once its connection is gone, a new connection   *)
(* may get the same one.                                                   *)
(***************************************************************************)
EXTENDS Integers, FiniteSets

CONSTANTS
    NumEndpoints,   \* how many times the program calls connect_endpoint
    Wsi,            \* the addresses a connection handle (lws*) can have
    nullptr,        \* the null handle
    CloseReasons,   \* how the library may announce the end of a session
    InCallErrors    \* may a connection error be announced inside connect?

ASSUME EndpointsAssumption == NumEndpoints \in Nat \ {0}
ASSUME WsiAssumption == nullptr \notin Wsi
ASSUME ReasonsAssumption == CloseReasons \subseteq {"CLOSED", "CLIENT_CLOSED"}
ASSUME InCallAssumption == InCallErrors \in BOOLEAN

Index == 0 .. NumEndpoints - 1
NoIndex == -1          \* no entry in the map; no owner
RetryAfter == 2        \* event_loop retries when seconds > 2
MaxAge == RetryAfter + 1

VARIABLES
    subscribers_,           \* [Index -> [wsi, age]]; only the first size count
    size,                   \* subscribers_.size()
    subscriber_callbacks_,  \* handle -> index, NoIndex where there is no entry
    at,                     \* where the main thread is
    cursor,                 \* the next subscriber the scan of event_loop visits
    link,                   \* the library's connections, by handle
    owner,                  \* the subscriber each connection was opened for
    delivered               \* the latest message: the subscriber whose
                            \* connection it came from, and the one called

ownVars == <<subscribers_, size, subscriber_callbacks_>>
libVars == <<link, owner>>
vars == <<ownVars, at, cursor, libVars, delivered>>

Live(w) == link[w] # "free"
Registered == 0 .. size - 1
NoMessage == [from |-> NoIndex, to |-> NoIndex]

(***************************************************************************)
(* subscribe_ts is kept as its age in whole seconds.  event_loop asks only *)
(* whether the age is above RetryAfter, so it stops counting at MaxAge.    *)
(***************************************************************************)
Fresh == [wsi |-> nullptr, age |-> 0]

Init ==
    /\ subscribers_ = [i \in Index |-> Fresh]
    /\ size = 0
    /\ subscriber_callbacks_ = [w \in Wsi \cup {nullptr} |-> NoIndex]
    /\ at = "caller"
    /\ cursor = 0
    /\ link = [w \in Wsi |-> "free"]
    /\ owner = [w \in Wsi |-> NoIndex]
    /\ delivered = NoMessage

-----------------------------------------------------------------------------
(* The callback.                                                           *)

\* operator[] of the unordered_map: an absent key reads as index 0.
Lookup(w) ==
    IF subscriber_callbacks_[w] = NoIndex THEN 0 ELSE subscriber_callbacks_[w]

\* Mutant: the case label LWS_CALLBACK_CLIENT_CONNECTION_ERROR is missing.
EndingCasesWithoutError == {"CLOSED"}

\* The reasons event_cb_impl treats as the end of a connection.
EndingCases == {"CLOSED", "CLIENT_CONNECTION_ERROR"}

\* Mutant: the ending case does not reset wsi.
SubscribersKept(w, reason) == subscribers_

\* Mutant: the map entry is erased before it is read.
SubscribersErasedFirst(w, reason) ==
    IF reason \in EndingCases
    THEN [subscribers_ EXCEPT ![0].wsi = nullptr]
    ELSE subscribers_

\* subscribers_ after event_cb_impl(w, reason).
SubscribersAfter(w, reason) ==
    IF reason \in EndingCases
    THEN [subscribers_ EXCEPT ![Lookup(w)].wsi = nullptr]
    ELSE subscribers_

\* Mutant: the ending case does not erase the map entry.
CallbacksKept(w, reason) == subscriber_callbacks_

\* subscriber_callbacks_ after event_cb_impl(w, reason).
CallbacksAfter(w, reason) ==
    IF reason \in EndingCases
    THEN [subscriber_callbacks_ EXCEPT ![w] = NoIndex]
    ELSE subscriber_callbacks_

-----------------------------------------------------------------------------
(* connect_endpoint(subscriber& s), for the subscriber of index s.         *)

\* Mutant: the handle is registered before the library has stored it.
RegisterTooEarly(w, s) == [subscriber_callbacks_ EXCEPT ![nullptr] = s]

\* subscriber_callbacks_ after subscriber_callbacks_[w] = s.
Register(w, s) == [subscriber_callbacks_ EXCEPT ![w] = s]

\* The library takes the connection on: it has a handle and no outcome yet.
ConnectPending(s) ==
    \E w \in Wsi :
        /\ link[w] = "free"
        /\ link' = [link EXCEPT ![w] = "connecting"]
        /\ owner' = [owner EXCEPT ![w] = s]
        /\ subscribers_' = [subscribers_ EXCEPT ![s] = [wsi |-> w, age |-> 0]]
        /\ subscriber_callbacks_' = Register(w, s)

\* The library fails before it has a handle: the null handle is registered.
ConnectRefused(s) ==
    /\ subscribers_' = [subscribers_ EXCEPT ![s] = Fresh]
    /\ subscriber_callbacks_' = Register(nullptr, s)
    /\ UNCHANGED libVars

\* The library fails after it has a handle: it runs the callback with a handle
\* that connect_endpoint has not registered yet, then returns with a null one.
ConnectErrorInCall(s) ==
    /\ InCallErrors
    /\ \E w \in Wsi :
        /\ link[w] = "free"
        /\ subscribers_' =
             [SubscribersAfter(w, "CLIENT_CONNECTION_ERROR") EXCEPT ![s] = Fresh]
        /\ subscriber_callbacks_' =
             [CallbacksAfter(w, "CLIENT_CONNECTION_ERROR") EXCEPT ![nullptr] = s]
    /\ UNCHANGED libVars

ConnectEndpoint(s) ==
    \/ ConnectPending(s)
    \/ ConnectRefused(s)
    \/ ConnectErrorInCall(s)

\* connect_endpoint(path, func): append a subscriber and connect it.
NewEndpoint ==
    /\ at = "caller"
    /\ size < NumEndpoints
    /\ size' = size + 1
    /\ ConnectEndpoint(size)
    /\ UNCHANGED <<at, cursor, delivered>>

-----------------------------------------------------------------------------
(* event_loop.                                                             *)

EnterEventLoop ==
    /\ at = "caller"
    /\ at' = "scan"
    /\ cursor' = 0
    /\ UNCHANGED <<ownVars, libVars, delivered>>

\* Mutant: the scan does not ask whether the subscriber has a handle.
DueByAge(i) == subscribers_[i].age > RetryAfter

\* The scan reconnects a subscriber without a handle whose time has come.
Due(i) == subscribers_[i].wsi = nullptr /\ subscribers_[i].age > RetryAfter

ScanStep ==
    /\ at = "scan"
    /\ cursor < size
    /\ cursor' = cursor + 1
    /\ \/ Due(cursor) /\ ConnectEndpoint(cursor) /\ UNCHANGED size
       \/ ~Due(cursor) /\ UNCHANGED <<ownVars, libVars>>
    /\ UNCHANGED <<at, delivered>>

ScanEnd ==
    /\ at = "scan"
    /\ cursor = size
    /\ at' = "service"
    /\ UNCHANGED <<ownVars, cursor, libVars, delivered>>

\* lws_service runs any number of callbacks and returns.
ServiceReturn ==
    /\ at = "service"
    /\ at' = "caller"
    /\ delivered' = NoMessage
    /\ UNCHANGED <<ownVars, cursor, libVars>>

Established(w) ==
    /\ at = "service"
    /\ link[w] = "connecting"
    /\ link' = [link EXCEPT ![w] = "established"]
    /\ UNCHANGED <<ownVars, at, cursor, owner, delivered>>

Receive(w) ==
    /\ at = "service"
    /\ link[w] = "established"
    /\ delivered' = [from |-> owner[w], to |-> Lookup(w)]
    /\ subscriber_callbacks_' = [subscriber_callbacks_ EXCEPT ![w] = Lookup(w)]
    /\ UNCHANGED <<subscribers_, size, at, cursor, libVars>>

\* The library drops a connection and announces it with a callback.
Ended(w, reason) ==
    /\ at \in {"service", "destroy"}
    /\ subscribers_' = SubscribersAfter(w, reason)
    /\ subscriber_callbacks_' = CallbacksAfter(w, reason)
    /\ link' = [link EXCEPT ![w] = "free"]
    /\ owner' = [owner EXCEPT ![w] = NoIndex]
    /\ UNCHANGED <<size, at, cursor, delivered>>

ConnectionError(w) ==
    /\ link[w] = "connecting"
    /\ Ended(w, "CLIENT_CONNECTION_ERROR")

Closed(w) ==
    /\ link[w] = "established"
    /\ \E reason \in CloseReasons : Ended(w, reason)

\* A second passes on the steady clock.
Tick ==
    /\ at # "gone"
    /\ subscribers_' =
         [i \in Index |->
             IF i < size /\ subscribers_[i].age < MaxAge
             THEN [subscribers_[i] EXCEPT !.age = @ + 1]
             ELSE subscribers_[i]]
    /\ UNCHANGED <<size, subscriber_callbacks_, at, cursor, libVars, delivered>>

-----------------------------------------------------------------------------
(* ~api: lws_context_destroy ends every connection, then the members go.   *)

Destroy ==
    /\ at = "caller"
    /\ at' = "destroy"
    /\ UNCHANGED <<ownVars, cursor, libVars, delivered>>

DestroyEnd ==
    /\ at = "destroy"
    /\ \A w \in Wsi : ~Live(w)
    /\ at' = "gone"
    /\ UNCHANGED <<ownVars, cursor, libVars, delivered>>

Gone == at = "gone" /\ UNCHANGED vars

-----------------------------------------------------------------------------
EventLoop == EnterEventLoop \/ ScanStep \/ ScanEnd \/ ServiceReturn

LibraryEvent(w) ==
    Established(w) \/ Receive(w) \/ ConnectionError(w) \/ Closed(w)

Next ==
    \/ NewEndpoint
    \/ EventLoop
    \/ \E w \in Wsi : LibraryEvent(w)
    \/ Tick
    \/ Destroy \/ DestroyEnd \/ Gone

Spec == Init /\ [][Next]_vars

\* main calls event_loop again and again, its scan is a plain loop, lws_service
\* with a negative timeout returns, and the steady clock advances.
Fairness == WF_vars(EventLoop) /\ WF_vars(Tick)

FairSpec == Spec /\ Fairness

-----------------------------------------------------------------------------
(* Properties.                                                             *)

\* Every variable has its type; in particular an index in the map is always
\* within the vector (subscribers_[...] in event_cb_impl never overruns).
TypeOK ==
    /\ subscribers_ \in [Index -> [wsi : Wsi \cup {nullptr}, age : 0 .. MaxAge]]
    /\ size \in 0 .. NumEndpoints
    /\ subscriber_callbacks_ \in [Wsi \cup {nullptr} -> Registered \cup {NoIndex}]
    /\ at \in {"caller", "scan", "service", "destroy", "gone"}
    /\ cursor \in 0 .. size
    /\ link \in [Wsi -> {"free", "connecting", "established"}]
    /\ owner \in [Wsi -> Registered \cup {NoIndex}]
    /\ delivered \in [from : Index \cup {NoIndex}, to : Index \cup {NoIndex}]

\* LWS_CALLBACK_CLIENT_RECEIVE runs the callback of the subscriber that opened
\* the connection, whatever connections were closed, failed or given a reused
\* handle before.
DeliveredToOwner == delivered.from = delivered.to

\* A subscriber has at most one connection, the one in its wsi, so the
\* reconnecting scan never opens a second stream beside a live one.  When the
\* library announces errors inside connect, the defaulted lookup of
\* event_cb_impl nulls subscribers_[0].wsi and subscriber 0 alone is exempt.
Leaky == IF InCallErrors THEN {0} ELSE {}

OneLink ==
    \A w \in Wsi :
        Live(w) /\ owner[w] \notin Leaky => subscribers_[owner[w]].wsi = w

\* If the library announces every ending with a reason event_cb_impl handles,
\* no subscriber keeps the handle of a connection that is gone or that another
\* subscriber opened at the same address.
NoDanglingHandle ==
    CloseReasons \subseteq EndingCases =>
        \A i \in Registered :
            subscribers_[i].wsi # nullptr =>
                Live(subscribers_[i].wsi) /\ owner[subscribers_[i].wsi] = i

\* Under the same condition ~api leaves nothing behind: when the context is
\* gone no subscriber holds a handle and no handle has an entry in the map.
CleanTeardown ==
    CloseReasons \subseteq EndingCases /\ at = "gone" =>
        /\ \A i \in Registered : subscribers_[i].wsi = nullptr
        /\ \A w \in Wsi : subscriber_callbacks_[w] = NoIndex

\* The states of subscriber i that event_loop must come back to.
HasLink(i) == \E w \in Wsi : owner[w] = i
Attended(i) ==
    i \notin Registered \/ HasLink(i) \/ subscribers_[i].age = 0
    \/ at \in {"destroy", "gone"}

\* No subscriber is abandoned: again and again it has a connection or has just
\* been tried, for as long as the program runs.
NeverAbandoned == \A i \in Index : []<>Attended(i)

\* Subscriber i holds a handle although its connection is gone: event_cb_impl
\* ignored the reason the library gave for the ending.
Orphaned(i) ==
    i \in Registered /\ subscribers_[i].wsi # nullptr /\ ~HasLink(i)

\* The end of a session that event_cb_impl does not notice is never repaired:
\* the handle stays, so the scan passes the subscriber by for ever.
OrphansStay == [][\A i \in Index : Orphaned(i) => Orphaned(i)']_vars

-----------------------------------------------------------------------------
(* The connection manager implements Endpoints.                            *)

LinksOf(i) == {w \in Wsi : owner[w] = i}

Promise == INSTANCE Endpoints WITH
    Endpoint <- Index,
    Link <- Wsi,
    links <- [i \in Index |-> LinksOf(i)],
    feed <- delivered.to

\* Every behaviour of event_loop and event_cb_impl is one of Endpoints: a
\* callback runs only while its endpoint has a link, and no endpoint outside
\* Leaky ever opens a second one.
RefinesEndpoints == Promise!Spec
=============================================================================
