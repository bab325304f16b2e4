--------------------------- MODULE Program_proofs ---------------------------
(***************************************************************************)
(* What holds of the connection manager for every number of endpoints,     *)
(* every set of handles and every behaviour of the library that Api        *)
(* admits; and what holds of the whole process, for all values of its      *)
(* constants.                                                              *)
(***************************************************************************)
EXTENDS Program, TLAPS

USE EndpointsAssumption, WsiAssumption, ReasonsAssumption, InCallAssumption
    DEF EndpointsAssumption, WsiAssumption, ReasonsAssumption, InCallAssumption

(***************************************************************************)
(* The inductive invariant.  DeliveredToOwner and OneLink are not          *)
(* inductive: they rest on the map agreeing with the library about who     *)
(* opened a live connection (Routed), and on what the entries left behind  *)
(* by dead connections can still do when an error inside connect looks     *)
(* one of them up (StaleEntry).                                            *)
(***************************************************************************)
Routed ==
    \A w \in Wsi :
        IF Live(w)
        THEN owner[w] \in Registered /\ subscriber_callbacks_[w] = owner[w]
        ELSE owner[w] = NoIndex

StaleEntry ==
    \A w \in Wsi :
        ~Live(w) /\ subscriber_callbacks_[w] \notin Leaky \cup {NoIndex} =>
            subscribers_[subscriber_callbacks_[w]].wsi = w

NotYetAdded == \A i \in Index \ Registered : subscribers_[i].wsi = nullptr

GoneIsQuiet == at = "gone" => \A w \in Wsi : ~Live(w)

IInv ==
    /\ TypeOK
    /\ Routed
    /\ StaleEntry
    /\ NotYetAdded
    /\ OneLink
    /\ DeliveredToOwner
    /\ GoneIsQuiet

(***************************************************************************)
(* Facts about the pieces.                                                 *)
(***************************************************************************)

\* A longer vector has at least the indices of a shorter one.
LEMMA RangeGrows ==
    ASSUME NEW m \in Nat, NEW n \in Nat, m <= n
    PROVE  0 .. m - 1 \subseteq 0 .. n - 1
OBVIOUS

\* operator[] yields an index of the vector as soon as the vector is not empty.
LEMMA LookupType ==
    ASSUME TypeOK, NEW w \in Wsi
    PROVE  /\ Lookup(w) \in Index
           /\ size > 0 => Lookup(w) \in Registered
BY DEF TypeOK, Lookup, Registered, Index, NoIndex

\* A subscriber without a handle has no connection, unless it may be leaky.
LEMMA NoHandleNoLink ==
    ASSUME IInv, NEW s \in Index, subscribers_[s].wsi = nullptr, s \notin Leaky
    PROVE  \A w \in Wsi : owner[w] # s
BY DEF IInv, Routed, OneLink, NoIndex, Index

LEMMA InitInv == Init => IInv
BY DEF Init, IInv, TypeOK, Routed, StaleEntry, NotYetAdded, OneLink,
       DeliveredToOwner, GoneIsQuiet, Index, NoIndex, MaxAge, RetryAfter,
       Registered, Live, Fresh, NoMessage, Leaky

(***************************************************************************)
(* connect_endpoint(subscriber& s), from either of its callers.            *)
(***************************************************************************)
LEMMA ConnectInv ==
    ASSUME IInv, NEW s \in Index,
           subscribers_[s].wsi = nullptr,
           size' \in {size, size + 1}, size' <= NumEndpoints,
           s \in Registered',
           at' = at, at # "gone", delivered' = delivered, cursor' \in 0 .. size',
           ConnectEndpoint(s)
    PROVE  IInv'
<1> USE DEF IInv
<1>0. /\ Registered \subseteq Registered'
      /\ Registered' \subseteq Index
      /\ size' \in 0 .. NumEndpoints
      /\ NoIndex \notin Index
      /\ 0 \in Index
      /\ 0 \in 0 .. MaxAge
  <2>1. size \in Nat /\ size' \in Nat /\ size <= size' /\ size' <= NumEndpoints
    BY DEF TypeOK
  <2>2. Registered \subseteq Registered'
    BY ONLY <2>1, RangeGrows, Zenon DEF Registered
  <2>3. Registered' \subseteq Index /\ NoIndex \notin Index
    <3>1. Registered' \subseteq Index
      BY ONLY <2>1, RangeGrows, EndpointsAssumption DEF Registered, Index
    <3> QED
      BY <3>1 DEF Index, NoIndex
  <2>4. size' \in 0 .. NumEndpoints /\ 0 \in Index
    BY <2>1 DEF Index
  <2>5. 0 \in 0 .. MaxAge
    BY DEF MaxAge, RetryAfter
  <2> QED
    BY <2>2, <2>3, <2>4, <2>5
<1>1. CASE ConnectPending(s)
  <2>1. PICK w \in Wsi :
          /\ link[w] = "free"
          /\ link' = [link EXCEPT ![w] = "connecting"]
          /\ owner' = [owner EXCEPT ![w] = s]
          /\ subscribers_' = [subscribers_ EXCEPT ![s] = [wsi |-> w, age |-> 0]]
          /\ subscriber_callbacks_' = [subscriber_callbacks_ EXCEPT ![w] = s]
    BY <1>1 DEF ConnectPending, Register
  <2>2. TypeOK'
    BY <1>0, <2>1 DEF TypeOK
  <2>3. Routed'
    BY <1>0, <2>1 DEF TypeOK, Routed, Live
  <2>4. StaleEntry'
    BY <1>0, <2>1 DEF TypeOK, StaleEntry, Live, Leaky
  <2>5. NotYetAdded'
    BY <1>0, <2>1 DEF TypeOK, NotYetAdded
  <2>6. OneLink'
    BY <1>0, <2>1, NoHandleNoLink DEF TypeOK, OneLink, Live, Leaky, Routed
  <2>7. DeliveredToOwner' /\ GoneIsQuiet'
    BY DEF DeliveredToOwner, GoneIsQuiet
  <2> QED
    BY <2>2, <2>3, <2>4, <2>5, <2>6, <2>7
<1>2. CASE ConnectRefused(s)
  <2>1. /\ subscribers_' = [subscribers_ EXCEPT ![s] = Fresh]
        /\ subscriber_callbacks_' = [subscriber_callbacks_ EXCEPT ![nullptr] = s]
        /\ link' = link
        /\ owner' = owner
    BY <1>2 DEF ConnectRefused, Register, libVars
  <2>2. TypeOK'
    BY <1>0, <2>1 DEF TypeOK, Fresh
  <2>3. \A i \in Index : subscribers_'[i].wsi = subscribers_[i].wsi
    BY <2>1 DEF TypeOK, Fresh
  <2>4. \A w \in Wsi : subscriber_callbacks_'[w] = subscriber_callbacks_[w]
    BY <2>1 DEF TypeOK
  <2>5. Routed'
    BY <1>0, <2>1, <2>4 DEF Routed, Live
  <2>6. StaleEntry'
    BY <1>0, <2>1, <2>3, <2>4 DEF TypeOK, StaleEntry, Live, Leaky
  <2>7. OneLink'
    BY <1>0, <2>1, <2>3 DEF OneLink, Live, Leaky, Routed
  <2>8. NotYetAdded' /\ DeliveredToOwner' /\ GoneIsQuiet'
    BY <1>0, <2>3 DEF NotYetAdded, DeliveredToOwner, GoneIsQuiet
  <2> QED
    BY <2>2, <2>5, <2>6, <2>7, <2>8
<1>3. CASE ConnectErrorInCall(s)
  <2>1. InCallErrors /\ Leaky = {0}
    BY <1>3 DEF ConnectErrorInCall, Leaky
  <2>2. PICK w \in Wsi :
          /\ link[w] = "free"
          /\ subscribers_' = [[subscribers_ EXCEPT ![Lookup(w)].wsi = nullptr]
                                EXCEPT ![s] = Fresh]
          /\ subscriber_callbacks_' = [[subscriber_callbacks_ EXCEPT ![w] = NoIndex]
                                         EXCEPT ![nullptr] = s]
          /\ link' = link
          /\ owner' = owner
    BY <1>3 DEF ConnectErrorInCall, SubscribersAfter, CallbacksAfter, EndingCases,
                libVars
  <2>3. Lookup(w) \in Index
    BY LookupType
  <2>4. TypeOK'
    BY <1>0, <2>2, <2>3 DEF TypeOK, Fresh
  <2>5. /\ subscribers_'[s].wsi = nullptr
        /\ subscribers_'[Lookup(w)].wsi = nullptr
        /\ \A i \in Index \ {Lookup(w)} : subscribers_'[i].wsi = subscribers_[i].wsi
    BY <2>2, <2>3 DEF TypeOK, Fresh
  <2>6. /\ subscriber_callbacks_'[w] = NoIndex
        /\ \A v \in Wsi \ {w} : subscriber_callbacks_'[v] = subscriber_callbacks_[v]
    BY <2>2 DEF TypeOK
  \* The subscriber that loses its handle is 0, or one whose handle was stale.
  <2>7. Lookup(w) = 0 \/ subscribers_[Lookup(w)].wsi = w
    BY <2>1, <2>2 DEF StaleEntry, Lookup, Live
  <2>8. Routed'
    BY <1>0, <2>2, <2>6 DEF Routed, Live
  <2>9. StaleEntry'
    <3> SUFFICES ASSUME NEW v \in Wsi, ~Live(v)',
                        subscriber_callbacks_'[v] \notin {0, NoIndex}
                 PROVE  subscribers_'[subscriber_callbacks_'[v]].wsi = v
      BY <2>1 DEF StaleEntry, Leaky
    <3>1. v # w /\ ~Live(v)
      BY <2>2, <2>6 DEF Live
    <3>2. /\ subscriber_callbacks_'[v] = subscriber_callbacks_[v]
          /\ subscriber_callbacks_[v] \in Index
          /\ subscribers_[subscriber_callbacks_[v]].wsi = v
      BY <1>0, <2>1, <2>6, <3>1 DEF StaleEntry, TypeOK
    <3> QED
      BY <2>5, <2>7, <3>1, <3>2
  <2>10. OneLink'
    <3> SUFFICES ASSUME NEW v \in Wsi, Live(v)', owner'[v] # 0
                 PROVE  subscribers_'[owner'[v]].wsi = v
      BY <2>1 DEF OneLink, Leaky
    <3>1. Live(v) /\ v # w /\ owner[v] \in Index /\ owner'[v] = owner[v]
      BY <1>0, <2>2 DEF Live, Routed
    <3>2. subscribers_[owner[v]].wsi = v
      BY <2>1, <2>2, <3>1 DEF OneLink
    <3> QED
      BY <2>5, <2>7, <3>1, <3>2
  <2>11. NotYetAdded'
    BY <1>0, <2>5, LookupType DEF NotYetAdded
  <2>12. DeliveredToOwner' /\ GoneIsQuiet'
    BY DEF DeliveredToOwner, GoneIsQuiet
  <2> QED
    BY <2>4, <2>8, <2>9, <2>10, <2>11, <2>12
<1> QED
  BY <1>1, <1>2, <1>3 DEF ConnectEndpoint

(***************************************************************************)
(* The callback at the end of a connection.                                *)
(***************************************************************************)
LEMMA EndedInv ==
    ASSUME IInv, NEW w \in Wsi, Live(w),
           NEW reason \in {"CLOSED", "CLIENT_CLOSED", "CLIENT_CONNECTION_ERROR"},
           Ended(w, reason)
    PROVE  IInv'
<1> USE DEF IInv
<1>1. /\ at \in {"service", "destroy"}
      /\ link' = [link EXCEPT ![w] = "free"]
      /\ owner' = [owner EXCEPT ![w] = NoIndex]
      /\ size' = size /\ at' = at /\ cursor' = cursor /\ delivered' = delivered
      /\ Registered' = Registered
  BY DEF Ended, Registered
<1>2. /\ Lookup(w) = owner[w] /\ owner[w] \in Registered
      /\ owner[w] \in Index /\ NoIndex \notin Index
  BY DEF Routed, Lookup, TypeOK, Registered, Index, NoIndex
\* A connection is in its subscriber's wsi, unless the subscriber is leaky.
<1>3. owner[w] \notin Leaky => subscribers_[owner[w]].wsi = w
  BY DEF OneLink
<1>4. CASE reason \in EndingCases
  <2>1. /\ subscribers_' = [subscribers_ EXCEPT ![owner[w]].wsi = nullptr]
        /\ subscriber_callbacks_' = [subscriber_callbacks_ EXCEPT ![w] = NoIndex]
    BY <1>2, <1>4 DEF Ended, SubscribersAfter, CallbacksAfter
  <2>2. TypeOK'
    BY <1>1, <1>2, <2>1 DEF TypeOK
  <2>3. /\ subscribers_'[owner[w]].wsi = nullptr
        /\ \A i \in Index \ {owner[w]} : subscribers_'[i].wsi = subscribers_[i].wsi
    BY <1>2, <2>1 DEF TypeOK
  <2>4. Routed'
    BY <1>1, <2>1 DEF TypeOK, Routed, Live
  <2>5. StaleEntry'
    BY <1>1, <1>2, <1>3, <2>1, <2>3 DEF TypeOK, StaleEntry, Live, Leaky, Registered, Index
  <2>6. OneLink'
    <3> SUFFICES ASSUME NEW v \in Wsi, Live(v)', owner'[v] \notin Leaky
                 PROVE  subscribers_'[owner'[v]].wsi = v
      BY DEF OneLink, Leaky
    <3>1. v # w /\ Live(v) /\ owner'[v] = owner[v] /\ owner[v] \in Index
      BY <1>1 DEF TypeOK, Routed, Live, Registered, Index
    <3>2. subscribers_[owner[v]].wsi = v /\ owner[v] # owner[w]
      BY <1>3, <3>1 DEF OneLink
    <3> QED
      BY <2>3, <3>1, <3>2
  <2>7. NotYetAdded'
    BY <1>1, <1>2, <2>3 DEF NotYetAdded
  <2>8. DeliveredToOwner' /\ GoneIsQuiet'
    BY <1>1 DEF DeliveredToOwner, GoneIsQuiet
  <2> QED
    BY <2>2, <2>4, <2>5, <2>6, <2>7, <2>8
<1>5. CASE reason \notin EndingCases
  <2>1. subscribers_' = subscribers_ /\ subscriber_callbacks_' = subscriber_callbacks_
    BY <1>5 DEF Ended, SubscribersAfter, CallbacksAfter
  <2>2. TypeOK'
    BY <1>1, <1>2, <2>1 DEF TypeOK
  <2>3. Routed'
    BY <1>1, <2>1 DEF TypeOK, Routed, Live
  <2>4. StaleEntry'
    BY <1>1, <1>2, <1>3, <2>1 DEF TypeOK, StaleEntry, Routed, Live, Leaky
  <2>5. OneLink'
    BY <1>1, <2>1 DEF TypeOK, OneLink, Live, Leaky
  <2>6. NotYetAdded' /\ DeliveredToOwner' /\ GoneIsQuiet'
    BY <1>1, <2>1 DEF NotYetAdded, DeliveredToOwner, GoneIsQuiet
  <2> QED
    BY <2>2, <2>3, <2>4, <2>5, <2>6
<1> QED
  BY <1>4, <1>5

(***************************************************************************)
(* Every step.                                                             *)
(***************************************************************************)
LEMMA NewEndpointInv ==
    ASSUME IInv, NewEndpoint
    PROVE  IInv'
<1>1. /\ size \in Index /\ size' = size + 1 /\ size' <= NumEndpoints
      /\ size \in Registered' /\ size \notin Registered
      /\ cursor' \in 0 .. size'
  BY DEF NewEndpoint, IInv, TypeOK, Index, Registered
<1>2. subscribers_[size].wsi = nullptr
  BY <1>1 DEF IInv, NotYetAdded
<1> QED
  BY <1>1, <1>2, ConnectInv DEF NewEndpoint

LEMMA ScanStepInv ==
    ASSUME IInv, ScanStep
    PROVE  IInv'
<1>1. /\ cursor \in Index /\ cursor' \in 0 .. size' /\ size' = size
      /\ size <= NumEndpoints /\ cursor \in Registered'
  BY DEF ScanStep, IInv, TypeOK, Index, Registered, ownVars
<1>2. CASE Due(cursor) /\ ConnectEndpoint(cursor) /\ UNCHANGED size
  BY <1>1, <1>2, ConnectInv DEF ScanStep, Due
<1>3. CASE ~Due(cursor) /\ UNCHANGED <<ownVars, libVars>>
  BY <1>1, <1>3 DEF ScanStep, ownVars, libVars, IInv, TypeOK, Routed, StaleEntry,
       NotYetAdded, OneLink, DeliveredToOwner, GoneIsQuiet, Live, Registered
<1> QED
  BY <1>2, <1>3 DEF ScanStep

\* A message goes to the entry of a live handle, which is its owner.
LEMMA ReceiveInv ==
    ASSUME IInv, NEW w \in Wsi, Receive(w)
    PROVE  IInv'
<1> USE DEF IInv
<1>1. Live(w) /\ Lookup(w) = owner[w] /\ owner[w] \in Index
  BY DEF Receive, Live, Routed, Lookup, TypeOK, Registered, Index, NoIndex
<1>2. subscriber_callbacks_' = subscriber_callbacks_
  BY <1>1 DEF Receive, Routed, TypeOK
<1>3. delivered' = [from |-> owner[w], to |-> owner[w]]
  BY <1>1 DEF Receive
<1> QED
  BY <1>1, <1>2, <1>3 DEF Receive, libVars, TypeOK, Routed, StaleEntry, NotYetAdded,
       OneLink, DeliveredToOwner, GoneIsQuiet, Live, Registered

\* Time changes nothing but the ages.
LEMMA TickInv ==
    ASSUME IInv, Tick
    PROVE  IInv'
<1> USE DEF IInv
<1>1. /\ subscribers_' \in [Index -> [wsi : Wsi \cup {nullptr}, age : 0 .. MaxAge]]
      /\ \A i \in Index : subscribers_'[i].wsi = subscribers_[i].wsi
  <2>1. subscribers_' =
          [i \in Index |->
             IF i < size /\ subscribers_[i].age < MaxAge
             THEN [subscribers_[i] EXCEPT !.age = @ + 1]
             ELSE subscribers_[i]]
    BY DEF Tick
  <2>2. MaxAge \in Nat
    BY DEF MaxAge, RetryAfter
  <2> QED
    BY <2>1, <2>2 DEF TypeOK
<1>2. /\ size' = size /\ subscriber_callbacks_' = subscriber_callbacks_
      /\ at' = at /\ cursor' = cursor /\ link' = link /\ owner' = owner
      /\ delivered' = delivered /\ Registered' = Registered
      /\ \A w \in Wsi : Live(w)' = Live(w)
  BY DEF Tick, libVars, Registered, Live
<1>3. Registered \subseteq Index
  BY RangeGrows DEF TypeOK, Registered, Index
<1>4. TypeOK'
  BY <1>1, <1>2 DEF TypeOK
<1>5. StaleEntry'
  BY <1>1, <1>2, <1>3 DEF StaleEntry, TypeOK, Leaky
<1>6. OneLink'
  BY <1>1, <1>2, <1>3 DEF OneLink, Routed, Leaky
<1> QED
  BY <1>1, <1>2, <1>4, <1>5, <1>6 DEF Routed, NotYetAdded, DeliveredToOwner, GoneIsQuiet

LEMMA NextInv ==
    ASSUME IInv, [Next]_vars
    PROVE  IInv'
<1>1. CASE NewEndpoint
  BY <1>1, NewEndpointInv
<1>2. CASE ScanStep
  BY <1>2, ScanStepInv
<1>3. CASE EnterEventLoop \/ ScanEnd \/ ServiceReturn \/ Destroy
  BY <1>3 DEF EnterEventLoop, ScanEnd, ServiceReturn, Destroy, ownVars, libVars,
       NoMessage, NoIndex, IInv, TypeOK, Routed, StaleEntry, NotYetAdded, OneLink,
       DeliveredToOwner, GoneIsQuiet, Live, Registered
<1>4. ASSUME NEW w \in Wsi, Established(w)
      PROVE  IInv'
  BY <1>4 DEF Established, ownVars, IInv, TypeOK, Routed, StaleEntry, NotYetAdded,
       OneLink, DeliveredToOwner, GoneIsQuiet, Live, Registered
<1>5. ASSUME NEW w \in Wsi, Receive(w)
      PROVE  IInv'
  BY <1>5, ReceiveInv
<1>6. ASSUME NEW w \in Wsi, ConnectionError(w) \/ Closed(w)
      PROVE  IInv'
  BY <1>6, EndedInv DEF ConnectionError, Closed, Live
<1>7. CASE Tick
  BY <1>7, TickInv
<1>8. CASE DestroyEnd
  BY <1>8 DEF DestroyEnd, ownVars, libVars, IInv, TypeOK, Routed, StaleEntry,
       NotYetAdded, OneLink, DeliveredToOwner, GoneIsQuiet, Live, Registered
<1>9. CASE Gone \/ UNCHANGED vars
  BY <1>9 DEF Gone, vars, ownVars, libVars, IInv, TypeOK, Routed, StaleEntry,
       NotYetAdded, OneLink, DeliveredToOwner, GoneIsQuiet, Live, Registered
<1> QED
  BY <1>1, <1>2, <1>3, <1>4, <1>5, <1>6, <1>7, <1>8, <1>9
  DEF Next, EventLoop, LibraryEvent

(***************************************************************************)
(* The theorems.                                                           *)
(***************************************************************************)

\* The inductive invariant holds in every state of the connection manager.
THEOREM Invariance == Spec => []IInv
<1>1. Init => IInv
  BY InitInv
<1>2. IInv /\ [Next]_vars => IInv'
  BY NextInv
<1> QED
  BY <1>1, <1>2, PTL DEF Spec

\* Every index that event_cb_impl reads from the map lies within subscribers_,
\* for every number of endpoints and every way the library ends connections.
THEOREM TypeCorrect == Spec => []TypeOK
BY Invariance, PTL DEF IInv

\* A message always reaches the subscriber that opened its connection.
THEOREM DeliveryCorrect == Spec => []DeliveredToOwner
BY Invariance, PTL DEF IInv

\* The scan of event_loop never opens a second connection for a subscriber,
\* save for subscriber 0 when errors are announced inside connect.
THEOREM OneLinkCorrect == Spec => []OneLink
BY Invariance, PTL DEF IInv

(***************************************************************************)
(* Handles, when the library announces every ending with a reason that     *)
(* event_cb_impl handles.  NoDanglingHandle is stated over all of Index,   *)
(* because connect_endpoint appends a subscriber before it connects it,    *)
(* and it needs the map to hold no entry of a dead handle: an error inside *)
(* connect would follow such an entry to another subscriber.               *)
(***************************************************************************)
Announced == CloseReasons \subseteq EndingCases

NoDeadEntry == \A w \in Wsi : ~Live(w) => subscriber_callbacks_[w] = NoIndex

HandlesLive ==
    \A i \in Index : subscribers_[i].wsi # nullptr =>
        /\ subscribers_[i].wsi \in Wsi
        /\ Live(subscribers_[i].wsi)
        /\ owner[subscribers_[i].wsi] = i

HInv == NoDeadEntry /\ HandlesLive

LEMMA ConnectHandles ==
    ASSUME IInv, HInv, NEW s \in Index, ConnectEndpoint(s), IInv'
    PROVE  HInv'
<1> USE DEF IInv
<1>0. \A w \in Wsi : subscriber_callbacks_[w] \in Index \cup {NoIndex}
  BY RangeGrows DEF TypeOK, Registered, Index
<1>1. CASE ConnectPending(s)
  BY <1>1 DEF ConnectPending, Register, HInv, NoDeadEntry, HandlesLive, Live, TypeOK
<1>2. CASE ConnectRefused(s)
  BY <1>2 DEF ConnectRefused, Register, libVars, Fresh, HInv, NoDeadEntry,
       HandlesLive, Live, TypeOK
<1>3. CASE ConnectErrorInCall(s)
  <2>1. PICK w \in Wsi :
          /\ subscribers_' = [[subscribers_ EXCEPT ![Lookup(w)].wsi = nullptr]
                                EXCEPT ![s] = Fresh]
          /\ subscriber_callbacks_' = [[subscriber_callbacks_ EXCEPT ![w] = NoIndex]
                                         EXCEPT ![nullptr] = s]
          /\ link' = link
          /\ owner' = owner
    BY <1>3 DEF ConnectErrorInCall, SubscribersAfter, CallbacksAfter, EndingCases,
                libVars
  <2>2. \A i \in Index : subscribers_'[i].wsi \in {subscribers_[i].wsi, nullptr}
    BY <2>1, LookupType DEF TypeOK, Fresh
  <2>3. \A v \in Wsi : subscriber_callbacks_'[v] \in {subscriber_callbacks_[v], NoIndex}
    BY <2>1 DEF TypeOK
  <2> QED
    BY <2>1, <2>2, <2>3 DEF HInv, NoDeadEntry, HandlesLive, Live
<1> QED
  BY <1>1, <1>2, <1>3 DEF ConnectEndpoint

LEMMA EndedHandles ==
    ASSUME IInv, HInv, NEW w \in Wsi, Live(w), NEW reason \in EndingCases,
           Ended(w, reason)
    PROVE  HInv'
<1>1. /\ Lookup(w) = owner[w] /\ owner[w] \in Index
      /\ link' = [link EXCEPT ![w] = "free"]
      /\ owner' = [owner EXCEPT ![w] = NoIndex]
      /\ subscribers_' = [subscribers_ EXCEPT ![Lookup(w)].wsi = nullptr]
      /\ subscriber_callbacks_' = [subscriber_callbacks_ EXCEPT ![w] = NoIndex]
  BY DEF Ended, SubscribersAfter, CallbacksAfter, IInv, Routed, Lookup, TypeOK,
         Registered, Index, NoIndex
<1>2. subscribers_'[owner[w]].wsi = nullptr
  BY <1>1 DEF IInv, TypeOK
<1>3. \A i \in Index \ {owner[w]} : subscribers_'[i].wsi = subscribers_[i].wsi
  BY <1>1 DEF IInv, TypeOK
<1>4. NoDeadEntry'
  BY <1>1 DEF HInv, NoDeadEntry, Live, IInv, TypeOK
<1>5. HandlesLive'
  BY <1>1, <1>2, <1>3 DEF HInv, HandlesLive, Live, IInv, TypeOK
<1> QED
  BY <1>4, <1>5 DEF HInv

LEMMA HandlesNext ==
    ASSUME IInv, HInv, Announced, [Next]_vars
    PROVE  HInv'
<1>0. IInv'
  BY NextInv
<1>1. CASE NewEndpoint
  <2>1. size \in Index
    BY <1>1 DEF NewEndpoint, IInv, TypeOK, Index
  <2> QED
    BY <1>0, <1>1, <2>1, ConnectHandles DEF NewEndpoint
<1>2. CASE ScanStep
  <2>1. cursor \in Index
    BY <1>2 DEF ScanStep, IInv, TypeOK, Index
  <2>2. CASE ConnectEndpoint(cursor)
    BY <1>0, <2>1, <2>2, ConnectHandles
  <2>3. CASE UNCHANGED <<ownVars, libVars>>
    BY <2>3 DEF ownVars, libVars, HInv, NoDeadEntry, HandlesLive, Live
  <2> QED
    BY <1>2, <2>2, <2>3 DEF ScanStep
<1>3. CASE EnterEventLoop \/ ScanEnd \/ ServiceReturn \/ Destroy \/ DestroyEnd
           \/ Gone \/ UNCHANGED vars
  BY <1>3 DEF EnterEventLoop, ScanEnd, ServiceReturn, Destroy, DestroyEnd, Gone,
       vars, ownVars, libVars, HInv, NoDeadEntry, HandlesLive, Live
<1>4. ASSUME NEW w \in Wsi, Established(w)
      PROVE  HInv'
  BY <1>4 DEF Established, ownVars, HInv, NoDeadEntry, HandlesLive, Live, IInv, TypeOK
<1>5. ASSUME NEW w \in Wsi, Receive(w)
      PROVE  HInv'
  BY <1>5 DEF Receive, libVars, HInv, NoDeadEntry, HandlesLive, Live, IInv, TypeOK
<1>6. ASSUME NEW w \in Wsi, ConnectionError(w) \/ Closed(w)
      PROVE  HInv'
  <2>1. PICK reason \in EndingCases : Ended(w, reason)
    BY <1>6 DEF ConnectionError, Closed, Announced, EndingCases
  <2> QED
    BY <1>6, <2>1, EndedHandles DEF ConnectionError, Closed, Live
<1>7. CASE Tick
  <2>1. \A i \in Index : subscribers_'[i].wsi = subscribers_[i].wsi
    BY <1>7 DEF Tick, IInv, TypeOK
  <2> QED
    BY <1>7, <2>1 DEF Tick, libVars, HInv, NoDeadEntry, HandlesLive, Live
<1> QED
  BY <1>1, <1>2, <1>3, <1>4, <1>5, <1>6, <1>7
  DEF Next, EventLoop, LibraryEvent

\* What a live handle, a dead entry and the end of ~api imply together.
LEMMA HandlesInv == Spec => [](NoDanglingHandle /\ CleanTeardown)
<1>1. CASE Announced
  <2>1. Init => HInv
    BY DEF Init, Fresh, HInv, NoDeadEntry, HandlesLive
  <2>2. IInv /\ HInv /\ [Next]_vars => HInv'
    BY <1>1, HandlesNext
  <2>3. IInv /\ HInv => NoDanglingHandle /\ CleanTeardown
    <3> SUFFICES ASSUME IInv, HInv
                 PROVE  NoDanglingHandle /\ CleanTeardown
      OBVIOUS
    <3>1. Registered \subseteq Index
      BY RangeGrows DEF IInv, TypeOK, Registered, Index
    <3> QED
      BY <3>1 DEF HInv, HandlesLive, NoDeadEntry, IInv, GoneIsQuiet,
           NoDanglingHandle, CleanTeardown
  <2> QED
    BY <2>1, <2>2, <2>3, Invariance, PTL DEF Spec
<1>2. CASE ~Announced
  <2>1. NoDanglingHandle /\ CleanTeardown
    BY <1>2 DEF Announced, NoDanglingHandle, CleanTeardown
  <2> QED
    BY <2>1, PTL
<1> QED
  BY <1>1, <1>2

\* When every ending is announced, no subscriber ever keeps the handle of a
\* connection that is gone, or of one that another subscriber opened.
THEOREM HandlesCorrect == Spec => []NoDanglingHandle
BY HandlesInv, PTL

\* When every ending is announced, ~api leaves no handle in a subscriber and no
\* entry of the map behind.
THEOREM TeardownCorrect == Spec => []CleanTeardown
BY HandlesInv, PTL

(***************************************************************************)
(* Orphans.  A subscriber without a connection can lose its handle only to *)
(* an error announced inside connect that follows a stale entry of the map.*)
(***************************************************************************)
LEMMA OrphansNext ==
    ASSUME IInv, ~InCallErrors, NEW i \in Index, Orphaned(i), [Next]_vars
    PROVE  Orphaned(i)'
<1> DEFINE Kept == /\ subscribers_'[i].wsi = subscribers_[i].wsi
                   /\ \A w \in Wsi : owner'[w] # i
                   /\ i \in Registered'
<1>0. Kept => Orphaned(i)'
  BY DEF Orphaned, HasLink
<1>1. ASSUME NEW s \in Index, subscribers_[s].wsi = nullptr, ConnectEndpoint(s)
      PROVE  /\ subscribers_'[i].wsi = subscribers_[i].wsi
             /\ \A w \in Wsi : owner'[w] # i
  <2>1. s # i
    BY <1>1 DEF Orphaned
  <2> QED
    BY <1>1, <2>1 DEF ConnectEndpoint, ConnectPending, ConnectRefused,
         ConnectErrorInCall, libVars, Orphaned, HasLink, IInv, TypeOK
<1>2. ASSUME NEW w \in Wsi, Live(w), NEW reason, Ended(w, reason)
      PROVE  Kept
  <2>1. Lookup(w) = owner[w] /\ owner[w] # i /\ owner[w] \in Index
    BY <1>2 DEF IInv, Routed, Lookup, TypeOK, Registered, Index, NoIndex, Orphaned, HasLink
  <2>2. i # NoIndex
    BY DEF Index, NoIndex
  <2> QED
    BY <1>2, <2>1, <2>2 DEF Ended, SubscribersAfter, Registered, Orphaned, HasLink,
         IInv, TypeOK
<1>3. CASE NewEndpoint
  <2>1. size \in Index /\ subscribers_[size].wsi = nullptr /\ i \in Registered'
    BY <1>3 DEF NewEndpoint, IInv, TypeOK, NotYetAdded, Index, Registered, Orphaned
  <2> QED
    BY <1>0, <1>1, <1>3, <2>1 DEF NewEndpoint
<1>4. CASE ScanStep
  <2>1. cursor \in Index /\ i \in Registered'
    BY <1>4 DEF ScanStep, IInv, TypeOK, Index, Registered, Orphaned, ownVars
  <2>2. CASE Due(cursor) /\ ConnectEndpoint(cursor)
    BY <1>0, <1>1, <2>1, <2>2 DEF Due
  <2>3. CASE UNCHANGED <<ownVars, libVars>>
    BY <2>3 DEF ownVars, libVars, Orphaned, HasLink, Registered
  <2> QED
    BY <1>4, <2>2, <2>3 DEF ScanStep
<1>5. CASE EnterEventLoop \/ ScanEnd \/ ServiceReturn \/ Destroy \/ DestroyEnd
           \/ Gone \/ UNCHANGED vars
  BY <1>5 DEF EnterEventLoop, ScanEnd, ServiceReturn, Destroy, DestroyEnd, Gone,
       vars, ownVars, libVars, Orphaned, HasLink, Registered
<1>6. ASSUME NEW w \in Wsi, LibraryEvent(w)
      PROVE  Orphaned(i)'
  <2>1. CASE Established(w) \/ Receive(w)
    BY <2>1 DEF Established, Receive, ownVars, libVars, Orphaned, HasLink, Registered
  <2>2. CASE ConnectionError(w) \/ Closed(w)
    BY <1>0, <1>2, <2>2 DEF ConnectionError, Closed, Live
  <2> QED
    BY <1>6, <2>1, <2>2 DEF LibraryEvent
<1>7. CASE Tick
  <2>1. subscribers_'[i].wsi = subscribers_[i].wsi
    BY <1>7 DEF Tick, IInv, TypeOK
  <2> QED
    BY <1>7, <2>1 DEF Tick, libVars, Orphaned, HasLink, Registered
<1> QED
  BY <1>3, <1>4, <1>5, <1>6, <1>7 DEF Next, EventLoop

\* Unless errors are announced inside connect, a subscriber whose ending
\* event_cb_impl ignored never gets a connection again.
THEOREM OrphansCorrect == ~InCallErrors /\ Spec => OrphansStay
<1>1. CASE ~InCallErrors
  <2>1. IInv /\ [Next]_vars =>
          [\A i \in Index : Orphaned(i) => Orphaned(i)']_vars
    BY <1>1, OrphansNext
  <2> QED
    BY <2>1, Invariance, PTL DEF Spec, OrphansStay
<1>2. CASE InCallErrors
  BY <1>2
<1> QED
  BY <1>1, <1>2

(***************************************************************************)
(* The connection manager implements Endpoints.                            *)
(***************************************************************************)
LEMMA PromiseInit == Init => Promise!Init
BY DEF Init, Promise!Init, Promise!Nobody, LinksOf, NoMessage, NoIndex, Index

LEMMA ConnectPromise ==
    ASSUME IInv, NEW s \in Index, subscribers_[s].wsi = nullptr,
           ConnectEndpoint(s), delivered' = delivered
    PROVE  [Promise!Next]_(Promise!vars)
<1>1. CASE ConnectPending(s)
  <2>1. PICK w \in Wsi :
          link[w] = "free" /\ owner' = [owner EXCEPT ![w] = s]
    BY <1>1 DEF ConnectPending
  <2>2. \A i \in Index : w \notin LinksOf(i)
    BY <2>1 DEF LinksOf, IInv, Routed, Live, Index, NoIndex
  <2>3. s \in Leaky \/ LinksOf(s) = {}
    BY NoHandleNoLink DEF LinksOf
  <2>4. \A i \in Index :
          LinksOf(i)' = IF i = s THEN LinksOf(i) \cup {w} ELSE LinksOf(i)
    BY <2>1, <2>2 DEF LinksOf, IInv, TypeOK
  <2>5. Promise!Open(s, w)
    BY <2>2, <2>3, <2>4 DEF Promise!Open
  <2> QED
    BY <2>5 DEF Promise!Next
<1>2. CASE ConnectRefused(s) \/ ConnectErrorInCall(s)
  BY <1>2 DEF ConnectRefused, ConnectErrorInCall, libVars, LinksOf, Promise!vars
<1> QED
  BY <1>1, <1>2 DEF ConnectEndpoint

LEMMA EndedPromise ==
    ASSUME IInv, NEW w \in Wsi, Live(w), NEW reason, Ended(w, reason)
    PROVE  Promise!Next
<1>1. owner[w] \in Index /\ NoIndex \notin Index
  BY DEF IInv, Routed, TypeOK, Registered, Index, NoIndex
<1>2. owner' = [owner EXCEPT ![w] = NoIndex] /\ delivered' = delivered
  BY DEF Ended
<1>3. \A i \in Index :
        LinksOf(i)' = IF i = owner[w] THEN LinksOf(i) \ {w} ELSE LinksOf(i)
  BY <1>1, <1>2 DEF LinksOf, IInv, TypeOK
<1>4. w \in LinksOf(owner[w])
  BY DEF LinksOf
<1>5. Promise!Close(owner[w], w)
  BY <1>1, <1>2, <1>3, <1>4 DEF Promise!Close
<1> QED
  BY <1>1, <1>5 DEF Promise!Next

LEMMA PromiseNext ==
    ASSUME IInv, [Next]_vars
    PROVE  [Promise!Next]_(Promise!vars)
<1>1. CASE NewEndpoint
  <2>1. size \in Index /\ subscribers_[size].wsi = nullptr
    BY <1>1 DEF NewEndpoint, IInv, TypeOK, NotYetAdded, Index, Registered
  <2> QED
    BY <1>1, <2>1, ConnectPromise DEF NewEndpoint
<1>2. CASE ScanStep
  <2>1. cursor \in Index
    BY <1>2 DEF ScanStep, IInv, TypeOK, Index
  <2>2. CASE Due(cursor) /\ ConnectEndpoint(cursor)
    BY <1>2, <2>1, <2>2, ConnectPromise DEF ScanStep, Due
  <2>3. CASE UNCHANGED <<ownVars, libVars>>
    BY <1>2, <2>3 DEF ScanStep, libVars, LinksOf, Promise!vars
  <2> QED
    BY <1>2, <2>2, <2>3 DEF ScanStep
<1>3. CASE EnterEventLoop \/ ScanEnd \/ Destroy \/ DestroyEnd \/ Tick
           \/ Gone \/ UNCHANGED vars
  BY <1>3 DEF EnterEventLoop, ScanEnd, Destroy, DestroyEnd, Tick, Gone, vars,
       libVars, LinksOf, Promise!vars
<1>4. CASE ServiceReturn
  BY <1>4 DEF ServiceReturn, libVars, LinksOf, NoMessage, NoIndex, Promise!Next,
       Promise!Quiet, Promise!Nobody
<1>5. ASSUME NEW w \in Wsi, Established(w)
      PROVE  [Promise!Next]_(Promise!vars)
  BY <1>5 DEF Established, LinksOf, Promise!vars
<1>6. ASSUME NEW w \in Wsi, Receive(w)
      PROVE  [Promise!Next]_(Promise!vars)
  <2>1. owner[w] \in Index /\ Lookup(w) = owner[w]
    BY <1>6 DEF Receive, IInv, Routed, Live, Lookup, TypeOK, Registered, Index, NoIndex
  <2>2. LinksOf(owner[w]) # {}
    BY DEF LinksOf
  <2>3. owner' = owner /\ delivered'.to = owner[w]
    BY <1>6, <2>1 DEF Receive, libVars
  <2>4. Promise!Deliver(owner[w])
    BY <2>1, <2>2, <2>3 DEF Promise!Deliver, LinksOf
  <2> QED
    BY <2>1, <2>4 DEF Promise!Next
<1>7. ASSUME NEW w \in Wsi, ConnectionError(w) \/ Closed(w)
      PROVE  [Promise!Next]_(Promise!vars)
  BY <1>7, EndedPromise DEF ConnectionError, Closed, Live
<1> QED
  BY <1>1, <1>2, <1>3, <1>4, <1>5, <1>6, <1>7
  DEF Next, EventLoop, LibraryEvent

\* Every behaviour of the connection manager is one of Endpoints.
THEOREM Refinement == Spec => RefinesEndpoints
<1>1. Init => Promise!Init
  BY PromiseInit
<1>2. IInv /\ [Next]_vars => [Promise!Next]_(Promise!vars)
  BY PromiseNext
<1> QED
  BY <1>1, <1>2, Invariance, PTL DEF Spec, RefinesEndpoints, Promise!Spec

(***************************************************************************)
(* main drives the connection manager as module Api says its callers may,  *)
(* so everything proved of Api holds in the process.                       *)
(***************************************************************************)
LEMMA ProgramStepIsApiStep == [ProgramNext]_programVars => [Next]_vars
<1>1. main => [Next]_vars
  <2>1. Start => [Next]_vars
    BY DEF Start, CreateClient, Connect, Subscribe, StartApi, TickerSubscribe,
         EndTicker, NoContext, Next
  <2>2. Iterate => [Next]_vars
    BY DEF Iterate, StartEventLoop, ScanSubscribers, ReturnFromEventLoop, Ping,
         SkipPing, QueueEmpty, HandleCommand, Next, EventLoop
  <2>3. Stop => [Next]_vars
    BY DEF Stop, Disconnect, DestroyClient, DestroyApi, TeardownEvent, Exit, Next,
         LibraryEvent
  <2> QED
    BY <2>1, <2>2, <2>3 DEF main
<1>2. (\E w \in Wsi : ServiceEvent(w) \/ TickerCrash(w)) => [Next]_vars
  BY DEF ServiceEvent, TickerCrash, Next, LibraryEvent
<1>3. Terminated \/ UNCHANGED programVars => [Next]_vars
  BY DEF Terminated, programVars
<1>4. SubscriptionReceived \/ MessageArrives \/ mqtt_arrived_cb \/ connectionLost
        \/ SteadyClock \/ SystemClock \/ SystemClockSetBack => [Next]_vars
  BY DEF SubscriptionReceived, MessageArrives, mqtt_arrived_cb, connectionLost,
       SteadyClock, SystemClock, SystemClockSetBack, Next
<1> QED
  BY <1>1, <1>2, <1>3, <1>4 DEF ProgramNext

\* Every run of the process is, for the connection manager, one of Api's.
THEOREM ProgramImplementsApi == ProgramSpec => Spec
<1>1. ProgramInit => Init
  BY DEF ProgramInit
<1> QED
  BY <1>1, ProgramStepIsApiStep, PTL DEF ProgramSpec, Spec

\* In the process, messages reach the subscriber that opened the connection.
THEOREM ProgramDelivers == ProgramSpec => []DeliveredToOwner
BY ProgramImplementsApi, DeliveryCorrect, PTL

\* In the process, the connection manager keeps the promise of Endpoints.
THEOREM ProgramKeepsPromise == ProgramSpec => RefinesEndpoints
BY ProgramImplementsApi, Refinement, PTL

(***************************************************************************)
(* The inductive invariant of the process ties the place where main is to  *)
(* the state of the MQTT client (ClientAt), of the connection manager      *)
(* (ApiAt) and of the ticker (TickerAt), and bounds the queue by what has  *)
(* arrived (Accounted).                                                    *)
(***************************************************************************)
Usable == {"connected", "lost"}

ClientAt ==
    /\ pc = "create" => client = "none"
    /\ pc = "connect" => client = "created"
    /\ pc \in {"subscribe", "api", "ticker", "disconnect"} \cup Loop => client \in Usable
    /\ pc = "crashed" => client \in Usable \cup {"none"}
    /\ pc = "destroy_client" => client = "disconnected"
    /\ pc \in {"unwind", "exited"} => client = "destroyed"
    /\ pc = "failed" => client \in Usable \cup {"created", "none"}
    /\ client = "none" => at = "caller"
    /\ callback # "idle" => client \in Usable

ApiAt ==
    /\ pc = "event_loop" => at \in {"scan", "service"}
    /\ at \in {"scan", "service"} => pc \in {"event_loop", "crashed"}
    /\ at \in {"destroy", "gone"} => pc \in {"unwind", "exited"}
    /\ pc \in {"create", "connect", "subscribe", "api", "failed"} => size = 0

TickerAt ==
    /\ pc = "ticker" => ticker_ = "alive"
    /\ ticker_ = "alive" => pc \in {"ticker", "crashed"} /\ at = "caller"
    /\ ticker_ \in {"intact", "reused"} => size = NumEndpoints

Accounted == Len(q) + (IF callback = "idle" THEN 0 ELSE 1) <= arrivals

PInv == ProgramTypeOK /\ ClientAt /\ ApiAt /\ TickerAt /\ Accounted

(***************************************************************************)
(* Frame conditions of the pieces, one lemma per group of actions.         *)
(***************************************************************************)
LEMMA PInit == ProgramInit => PInv
<1> SUFFICES ASSUME ProgramInit PROVE PInv
  OBVIOUS
<1>1. TypeOK
  BY InitInv DEF ProgramInit, IInv
<1>2. /\ pc = "create" /\ client = "none" /\ subscribed = FALSE /\ callback = "idle"
      /\ q = <<>> /\ arrivals = 0 /\ ticker_ = "unborn" /\ elapsed = 0 /\ jumps = 0
      /\ at = "caller" /\ size = 0
  BY DEF ProgramInit, Init
<1>3. q \in Seq(Payload) /\ Len(q) = 0
  BY <1>2
<1>4. elapsed \in -PingAfter * jumps .. PingAfter
  BY <1>2 DEF PingAfter
<1>5. arrivals \in 0 .. MaxArrivals /\ jumps \in 0 .. MaxJumps /\ Len(q) <= arrivals
  BY <1>2, <1>3, BoundsAssumption DEF BoundsAssumption
<1>6. ProgramTypeOK
  BY <1>1, <1>2, <1>3, <1>4, <1>5 DEF ProgramTypeOK, Setup
<1> QED
  BY <1>2, <1>3, <1>6 DEF PInv, ClientAt, ApiAt, TickerAt, Accounted, Loop, Setup, Usable

\* Api's type invariant is kept by every step of the process.
LEMMA PApi ==
    ASSUME IInv, [ProgramNext]_programVars
    PROVE  TypeOK'
BY ProgramStepIsApiStep, NextInv DEF IInv

LEMMA PStart ==
    ASSUME PInv, TypeOK', Start
    PROVE  PInv'
<1> USE DEF PInv, ProgramTypeOK, ClientAt, ApiAt, TickerAt, Accounted, Loop, Setup,
        Finished, Usable
<1>1. CASE CreateClient
  BY <1>1 DEF CreateClient, vars, ownVars, clockVars
<1>2. CASE Connect
  BY <1>2 DEF Connect, vars, ownVars, clockVars
<1>3. CASE Subscribe
  BY <1>3 DEF Subscribe, vars, ownVars, clockVars, ownMainVars, mqttVars
<1>4. CASE StartApi
  <2>1. at = "caller"
    BY <1>4 DEF StartApi, TypeOK
  <2> QED
    BY <1>4, <2>1 DEF StartApi, vars, ownVars, clockVars, mqttVars
<1>5. CASE TickerSubscribe
  BY <1>5 DEF TickerSubscribe, NewEndpoint, ownMainVars, clockVars, mqttVars
<1>6. CASE EndTicker
  BY <1>6 DEF EndTicker, vars, ownVars, clockVars, mqttVars
<1>7. CASE NoContext
  BY <1>7 DEF NoContext, vars, ownVars, clockVars, ownMainVars, mqttVars
<1> QED
  BY <1>1, <1>2, <1>3, <1>4, <1>5, <1>6, <1>7 DEF Start

LEMMA PIterate ==
    ASSUME PInv, TypeOK', Iterate
    PROVE  PInv'
<1> USE DEF PInv, ProgramTypeOK, ClientAt, ApiAt, TickerAt, Accounted, Loop, Setup,
        Finished, Usable
<1>1. CASE StartEventLoop
  BY <1>1 DEF StartEventLoop, EnterEventLoop, ownVars, ownMainVars, clockVars, mqttVars
<1>2. CASE ScanSubscribers
  BY <1>2 DEF ScanSubscribers, ScanStep, ScanEnd, ownVars, ownMainVars, clockVars, mqttVars
<1>3. CASE ReturnFromEventLoop
  BY <1>3 DEF ReturnFromEventLoop, ServiceReturn, ownVars, ownMainVars, clockVars, mqttVars
<1>4. CASE Ping
  BY <1>4 DEF Ping, PingAfter, vars, ownVars, mqttVars
<1>5. CASE SkipPing
  BY <1>5 DEF SkipPing, WithoutPing, vars, ownVars, mqttVars
<1>6. CASE QueueEmpty
  BY <1>6 DEF QueueEmpty, AfterNoCommand, vars, ownVars, ownMainVars, clockVars, mqttVars
<1>7. CASE HandleCommand
  <2>1. q \in Seq(Payload) /\ q # <<>> /\ q' = Tail(q)
    BY <1>7 DEF HandleCommand
  <2>2. Head(q) \in Payload /\ Tail(q) \in Seq(Payload) /\ Len(Tail(q)) = Len(q) - 1
    BY <2>1
  <2>3. pc' \in {"disconnect", "loop", "crashed"}
    BY <1>7, <2>2 DEF HandleCommand, AfterCommand, Payload
  <2>4. /\ TypeOK' /\ at' = at /\ size' = size /\ client' = client /\ subscribed' = subscribed
        /\ callback' = callback /\ arrivals' = arrivals /\ ticker_' = ticker_
        /\ elapsed' = elapsed /\ jumps' = jumps /\ pc = "dequeue"
    BY <1>7 DEF HandleCommand, vars, ownVars, clockVars
  <2>5. Len(q) \in Nat /\ Len(q') \in Nat /\ Len(q') < Len(q)
    BY <2>1, <2>2
  <2> QED
    BY <2>1, <2>2, <2>3, <2>4, <2>5
<1> QED
  BY <1>1, <1>2, <1>3, <1>4, <1>5, <1>6, <1>7 DEF Iterate

LEMMA PStop ==
    ASSUME PInv, TypeOK', Stop
    PROVE  PInv'
<1> USE DEF PInv, ProgramTypeOK, ClientAt, ApiAt, TickerAt, Accounted, Loop, Setup,
        Finished, Usable
<1>1. CASE Disconnect
  BY <1>1 DEF Disconnect, AfterDisconnect, vars, ownVars, clockVars
<1>2. CASE DestroyClient
  BY <1>2 DEF DestroyClient, vars, ownVars, clockVars
<1>3. CASE DestroyApi
  BY <1>3 DEF DestroyApi, Destroy, ownVars, ownMainVars, clockVars, mqttVars
<1>4. CASE \E w \in Wsi : TeardownEvent(w)
  BY <1>4 DEF TeardownEvent, ConnectionError, Closed, Ended, ownMainVars, clockVars, mqttVars
<1>5. CASE Exit
  BY <1>5 DEF Exit, DestroyEnd, ownVars, ownMainVars, clockVars, mqttVars
<1> QED
  BY <1>1, <1>2, <1>3, <1>4, <1>5 DEF Stop

LEMMA PService ==
    ASSUME PInv, TypeOK', NEW w \in Wsi, ServiceEvent(w) \/ TickerCrash(w)
    PROVE  PInv'
<1> USE DEF PInv, ProgramTypeOK, ClientAt, ApiAt, TickerAt, Accounted, Loop, Setup,
        Finished, Usable
<1>1. /\ size' = size /\ at' = at /\ at = "service" /\ pc = "event_loop"
      /\ pc' \in {pc, "crashed"}
  BY DEF ServiceEvent, TickerCrash, Established, Receive, ConnectionError, Closed, Ended,
     ownVars
<1>2. UNCHANGED ownMainVars
  BY DEF ServiceEvent, TickerCrash
<1> QED
  BY <1>1, <1>2 DEF ownMainVars, clockVars, mqttVars

\* The steps of the MQTT thread, the broker and the clocks.
LEMMA POthers ==
    ASSUME PInv, TypeOK',
           \/ SubscriptionReceived \/ MessageArrives \/ mqtt_arrived_cb \/ connectionLost
           \/ SteadyClock \/ SystemClock \/ SystemClockSetBack
           \/ Terminated \/ UNCHANGED programVars
    PROVE  PInv'
<1> USE BoundsAssumption
    DEF PInv, ProgramTypeOK, ClientAt, ApiAt, TickerAt, Accounted, Loop, Setup,
        Finished, Usable, BoundsAssumption
<1>1. CASE SubscriptionReceived
  BY <1>1 DEF SubscriptionReceived, vars, ownVars, clockVars
<1>2. CASE MessageArrives
  BY <1>2 DEF MessageArrives, vars, ownVars, clockVars, Payload
<1>3. CASE mqtt_arrived_cb
  <2>1. q \in Seq(Payload) /\ callback \in Payload /\ q' = Append(q, callback)
    BY <1>3 DEF mqtt_arrived_cb
  <2>2. q' \in Seq(Payload) /\ Len(q') = Len(q) + 1
    BY <2>1
  <2> QED
    BY <1>3, <2>2 DEF mqtt_arrived_cb, vars, ownVars, clockVars
<1>4. CASE connectionLost
  BY <1>4 DEF connectionLost, vars, ownVars, clockVars
<1>5. CASE SteadyClock
  BY <1>5 DEF SteadyClock, Tick, ownMainVars, mqttVars, clockVars
<1>6. CASE SystemClock
  BY <1>6 DEF SystemClock, PingAfter, vars, ownVars, mqttVars
<1>7. CASE SystemClockSetBack
  BY <1>7 DEF SystemClockSetBack, PingAfter, vars, ownVars, mqttVars
<1>8. CASE Terminated \/ UNCHANGED programVars
  BY <1>8 DEF Terminated, programVars, ownMainVars, vars, ownVars, mqttVars, clockVars
<1> QED
  BY <1>1, <1>2, <1>3, <1>4, <1>5, <1>6, <1>7, <1>8

LEMMA PNext ==
    ASSUME IInv, PInv, [ProgramNext]_programVars
    PROVE  PInv'
<1>1. TypeOK'
  BY PApi
<1> QED
  BY <1>1, PStart, PIterate, PStop, PService, POthers DEF ProgramNext, main

\* The inductive invariant of the process.
THEOREM ProgramInvariance == ProgramSpec => [](IInv /\ PInv)
<1>1. ProgramInit => PInv
  BY PInit
<1>2. IInv /\ PInv /\ [ProgramNext]_programVars => PInv'
  BY PNext
<1>3. ProgramSpec => []IInv
  BY ProgramImplementsApi, Invariance, PTL
<1> QED
  BY <1>1, <1>2, <1>3, PTL DEF ProgramSpec

\* Every variable of the process has its type; in particular the queue holds
\* no more messages than have arrived.
THEOREM ProgramTypeCorrect == ProgramSpec => []ProgramTypeOK
BY ProgramInvariance, PTL DEF PInv

\* Whenever event_loop may run a callback, the ticker is out of scope, all its
\* streams are subscribed and the MQTT client exists.
THEOREM CallbackContextCorrect == ProgramSpec => []CallbackContext
<1>1. IInv /\ PInv => CallbackContext
  BY DEF PInv, ProgramTypeOK, ClientAt, ApiAt, TickerAt, CallbackContext, Loop, Usable
<1> QED
  BY <1>1, ProgramInvariance, PTL

\* The queue is never destroyed under a callback, save after a failed
\* MQTTClient_subscribe.
THEOREM QueueLifetimeCorrect == ProgramSpec => []QueueOutlivesCallbacks
<1>1. IInv /\ PInv => QueueOutlivesCallbacks
  BY DEF PInv, ClientAt, ApiAt, QueueOutlivesCallbacks, Usable
<1> QED
  BY <1>1, ProgramInvariance, PTL

\* After the broker is lost, only a stop already on its way ends the loop.
THEOREM DeafCorrect == ProgramSpec => DeafForever
<1>1. ASSUME PInv, ProgramNext, Deaf, pc' # "crashed"
      PROVE  Deaf'
  <2> USE <1>1 DEF PInv, ProgramTypeOK, Deaf, Loop
  <2>1. \A i \in DOMAIN q : q[i] # "stop"
    BY DEF StopOnItsWay
  <2>2. CASE Start \/ Stop \/ Terminated \/ SubscriptionReceived \/ MessageArrives
             \/ connectionLost
    BY <2>2 DEF Start, CreateClient, Connect, Subscribe, StartApi, NoContext,
         TickerSubscribe, EndTicker, Stop, Disconnect, DestroyClient, DestroyApi, TeardownEvent, Exit,
         Terminated, Finished, SubscriptionReceived, MessageArrives, connectionLost
  <2>3. CASE HandleCommand
    <3>1. q # <<>> /\ q' = Tail(q) /\ Head(q) # "stop" /\ Head(q) \in Payload
      BY <2>1, <2>3 DEF HandleCommand
    <3>2. pc' = "loop"
      BY <2>3, <3>1 DEF HandleCommand, AfterCommand, Payload
    <3>3. \A i \in DOMAIN q' : q'[i] # "stop"
      BY <2>1, <3>1
    <3> QED
      BY <2>3, <3>2, <3>3 DEF HandleCommand, StopOnItsWay
  <2>4. CASE mqtt_arrived_cb
    <3>1. callback # "stop" /\ q' = Append(q, callback)
      BY <2>4 DEF mqtt_arrived_cb, StopOnItsWay
    <3>2. \A i \in DOMAIN q' : q'[i] # "stop"
      BY <2>1, <3>1
    <3> QED
      BY <2>4, <3>2 DEF mqtt_arrived_cb, StopOnItsWay
  <2>5. CASE StartEventLoop \/ ScanSubscribers \/ ReturnFromEventLoop \/ Ping
             \/ SkipPing \/ QueueEmpty
    BY <2>5 DEF StartEventLoop, ScanSubscribers, ReturnFromEventLoop, Ping, SkipPing,
         QueueEmpty, AfterNoCommand, ownMainVars, mqttVars, StopOnItsWay
  <2>6. CASE \E w \in Wsi : ServiceEvent(w) \/ TickerCrash(w)
    BY <2>6 DEF ServiceEvent, TickerCrash, ownMainVars, mqttVars, StopOnItsWay
  <2>7. CASE SteadyClock \/ SystemClock \/ SystemClockSetBack
    BY <2>7 DEF SteadyClock, SystemClock, SystemClockSetBack, ownMainVars, mqttVars,
         StopOnItsWay
  <2> QED
    BY <2>2, <2>3, <2>4, <2>5, <2>6, <2>7 DEF ProgramNext, main, Iterate
<1>2. IInv /\ PInv /\ [ProgramNext]_programVars =>
        [Deaf => Deaf' \/ pc' = "crashed"]_programVars
  BY <1>1
<1> QED
  BY <1>2, ProgramInvariance, PTL DEF ProgramSpec, DeafForever
=============================================================================
