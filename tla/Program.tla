------------------------------ MODULE Program ------------------------------
(***************************************************************************)
(* The whole process: main (binancenativeapp.cpp), the callback that the   *)
(* thread of the MQTT client runs, the ticker (ticker.h) whose callbacks   *)
(* publish market data, and the connection manager of module Api, whose    *)
(* actions main drives.  The two threads share the queue q and nothing     *)
(* else.                                                                   *)
(*                                                                         *)
(* The Paho client is external: once connected and subscribed it calls     *)
(* mqtt_arrived_cb, one call at a time, until the connection is lost or    *)
(* MQTTClient_disconnect has stopped its thread.                           *)
(***************************************************************************)
EXTENDS Api, Sequences

CONSTANTS
    MaxArrivals,    \* bound: how many control messages the broker sends
    MaxJumps        \* bound: how often the system clock is set back

ASSUME BoundsAssumption == MaxArrivals \in Nat /\ MaxJumps \in Nat

\* A control message: {"command": "stop"}, any other object, or a text that is
\* not an object (or has a command that is not a string), which rapidjson's
\* HasMember and GetString do not expect.
Payload == {"stop", "other", "malformed"}

\* main pings when a whole second has passed; elapsed counts half seconds.
PingAfter == 2

Setup == {"create", "connect", "subscribe", "api", "ticker"}
Loop == {"loop", "event_loop", "ping", "dequeue"}
Finished == {"exited", "failed", "crashed"}

VARIABLES
    pc,         \* where main is
    client,     \* the MQTT client
    subscribed, \* the broker has the subscription to the control topic
    callback,   \* the message mqtt_arrived_cb is working on, or "idle"
    q,          \* the control queue, oldest message first
    arrivals,   \* messages received so far
    ticker_,    \* the ticker object: its frame may be reused once it is gone
    elapsed,    \* current - start by the system clock
    jumps       \* how often that clock was set back

mqttVars == <<client, subscribed, callback, q, arrivals>>
clockVars == <<elapsed, jumps>>
ownMainVars == <<mqttVars, ticker_, clockVars>>
programVars == <<vars, pc, ownMainVars>>

ProgramInit ==
    /\ Init
    /\ pc = "create"
    /\ client = "none"
    /\ subscribed = FALSE
    /\ callback = "idle"
    /\ q = <<>>
    /\ arrivals = 0
    /\ ticker_ = "unborn"
    /\ elapsed = 0
    /\ jumps = 0

-----------------------------------------------------------------------------
(* main, up to the loop.  Each failure returns at once.                    *)

\* Nobody looks at what MQTTClient_create returned: if it failed, the next call
\* gets a handle that was never set.
CreateClient ==
    /\ pc = "create"
    /\ \/ client' = "created" /\ pc' \in {"connect", "failed"}
       \/ pc' \in {"failed", "crashed"} /\ UNCHANGED client
    /\ UNCHANGED <<vars, subscribed, callback, q, arrivals, ticker_, clockVars>>

Connect ==
    /\ pc = "connect"
    /\ \/ client' = "connected" /\ pc' = "subscribe"
       \/ pc' = "failed" /\ UNCHANGED client
    /\ UNCHANGED <<vars, subscribed, callback, q, arrivals, ticker_, clockVars>>

\* The broker acts on the subscription before main knows of it.
SubscriptionReceived ==
    /\ pc = "subscribe" /\ client = "connected" /\ ~subscribed
    /\ subscribed' = TRUE
    /\ UNCHANGED <<vars, pc, client, callback, q, arrivals, ticker_, clockVars>>

Subscribe ==
    /\ pc = "subscribe"
    /\ \/ subscribed /\ pc' = "api"
       \/ pc' = "failed"
    /\ UNCHANGED <<vars, ownMainVars>>

\* api{ cert }; without symbols main goes on without a ticker.
StartApi ==
    /\ pc = "api"
    /\ \/ pc' = "ticker" /\ ticker_' = "alive"
       \/ pc' = "loop" /\ UNCHANGED ticker_
    /\ UNCHANGED <<vars, mqttVars, clockVars>>

\* Nobody looks at what lws_create_context returned either: the first
\* connect_endpoint does not survive a null context.  Without symbols there is
\* none, and lws_service returns at once.
NoContext ==
    /\ pc = "ticker" /\ size = 0
    /\ pc' = "crashed"
    /\ UNCHANGED <<vars, ownMainVars>>

\* ticker_.subscribe(pairs, stream)
TickerSubscribe ==
    /\ pc = "ticker"
    /\ NewEndpoint
    /\ UNCHANGED <<pc, ownMainVars>>

\* The block of ticker_ ends.  The callbacks it gave to the api still refer to
\* it, and whether its frame is reused is up to the compiler.
EndTicker ==
    /\ pc = "ticker" /\ size = NumEndpoints
    /\ ticker_' \in {"intact", "reused"}
    /\ pc' = "loop"
    /\ UNCHANGED <<vars, mqttVars, clockVars>>

-----------------------------------------------------------------------------
(* The loop of main.                                                       *)

StartEventLoop ==
    /\ pc = "loop"
    /\ EnterEventLoop
    /\ pc' = "event_loop"
    /\ UNCHANGED ownMainVars

ScanSubscribers ==
    /\ pc = "event_loop"
    /\ ScanStep \/ ScanEnd
    /\ UNCHANGED <<pc, ownMainVars>>

ReturnFromEventLoop ==
    /\ pc = "event_loop"
    /\ ServiceReturn
    /\ pc' = "ping"
    /\ UNCHANGED ownMainVars

\* Mutant: start = current in every iteration, ping or no ping.
RestartAlways == 0

\* elapsed after an iteration that does not ping.
WithoutPing == elapsed

Ping ==
    /\ pc = "ping" /\ elapsed >= PingAfter
    /\ elapsed' = 0
    /\ pc' = "dequeue"
    /\ UNCHANGED <<vars, mqttVars, ticker_, jumps>>

SkipPing ==
    /\ pc = "ping" /\ elapsed < PingAfter
    /\ elapsed' = WithoutPing
    /\ pc' = "dequeue"
    /\ UNCHANGED <<vars, mqttVars, ticker_, jumps>>

\* Mutant: main waits for a command instead of going on without one.
AfterNoCommandWait == "dequeue"

\* Where main is when try_dequeue has found nothing.
AfterNoCommand == "loop"

QueueEmpty ==
    /\ pc = "dequeue" /\ q = <<>>
    /\ pc' = AfterNoCommand
    /\ UNCHANGED <<vars, ownMainVars>>

\* Mutant: a stop leaves the loop without disconnecting the client.
AfterCommandLeave == [stop |-> {"unwind"}, other |-> {"loop"}, malformed |-> {"loop"}]

\* Mutant: a stop does not leave the loop.
AfterCommandGoOn == [p \in Payload |-> {"loop"}]

\* Where main can be after a command.
AfterCommand ==
    [stop |-> {"disconnect"}, other |-> {"loop"}, malformed |-> {"loop", "crashed"}]

HandleCommand ==
    /\ pc = "dequeue" /\ q # <<>>
    /\ q' = Tail(q)
    /\ pc' \in AfterCommand[Head(q)]
    /\ UNCHANGED <<vars, client, subscribed, callback, arrivals, ticker_, clockVars>>

\* lws_service runs event_cb_impl for connection w; a message reaches the
\* ticker's callback, which publishes through the MQTTClient& of ticker_.
ServiceEvent(w) ==
    /\ pc = "event_loop" /\ at = "service"
    /\ \/ Established(w) \/ ConnectionError(w) \/ Closed(w)
       \/ Receive(w) /\ ticker_ # "reused"
    /\ UNCHANGED <<pc, ownMainVars>>

\* That callback does not survive a message without "stream" (the library hands
\* over a long one in pieces), nor the frame of ticker_ being reused.
TickerCrash(w) ==
    /\ pc = "event_loop"
    /\ Receive(w)
    /\ pc' = "crashed"
    /\ UNCHANGED ownMainVars

-----------------------------------------------------------------------------
(* main, after the loop.                                                   *)

\* Mutant: main disconnects inside the loop and goes on.
AfterDisconnectGoOn == "loop"

\* Where main is after MQTTClient_disconnect.
AfterDisconnect == "destroy_client"

\* MQTTClient_disconnect returns when the client's thread has stopped.
Disconnect ==
    /\ pc = "disconnect" /\ callback = "idle"
    /\ client' = "disconnected"
    /\ pc' = AfterDisconnect
    /\ UNCHANGED <<vars, subscribed, callback, q, arrivals, ticker_, clockVars>>

DestroyClient ==
    /\ pc = "destroy_client"
    /\ client' = "destroyed"
    /\ pc' = "unwind"
    /\ UNCHANGED <<vars, subscribed, callback, q, arrivals, ticker_, clockVars>>

\* main returns; ~api runs, and then the destructor of q.
DestroyApi ==
    /\ pc = "unwind"
    /\ Destroy
    /\ UNCHANGED <<pc, ownMainVars>>

TeardownEvent(w) ==
    /\ pc = "unwind" /\ at = "destroy"
    /\ ConnectionError(w) \/ Closed(w)
    /\ UNCHANGED <<pc, ownMainVars>>

Exit ==
    /\ pc = "unwind"
    /\ DestroyEnd
    /\ pc' = "exited"
    /\ UNCHANGED ownMainVars

Terminated == pc \in Finished /\ UNCHANGED programVars

-----------------------------------------------------------------------------
(* The thread of the MQTT client, and the clocks.  A process that has      *)
(* failed is still there while q is destroyed, and so is that thread.      *)

MessageArrives ==
    /\ client = "connected" /\ subscribed /\ callback = "idle"
    /\ pc \notin {"exited", "crashed"}
    /\ arrivals < MaxArrivals
    /\ arrivals' = arrivals + 1
    /\ callback' \in Payload
    /\ UNCHANGED <<vars, pc, client, subscribed, q, ticker_, clockVars>>

\* mqtt_arrived_cb copies the payload into q and returns 1.
mqtt_arrived_cb ==
    /\ callback # "idle" /\ pc \notin Finished
    /\ q' = Append(q, callback)
    /\ callback' = "idle"
    /\ UNCHANGED <<vars, pc, client, subscribed, arrivals, ticker_, clockVars>>

\* connectionLost only writes to the log.
connectionLost ==
    /\ client = "connected" /\ pc \notin Finished
    /\ client' = "lost"
    /\ UNCHANGED <<vars, pc, subscribed, callback, q, arrivals, ticker_, clockVars>>

SteadyClock ==
    /\ pc \notin Finished
    /\ Tick
    /\ UNCHANGED <<pc, ownMainVars>>

SystemClock ==
    /\ pc \in Loop /\ elapsed < PingAfter
    /\ elapsed' = elapsed + 1
    /\ UNCHANGED <<vars, pc, mqttVars, ticker_, jumps>>

\* system_clock is not steady: somebody sets it back.
SystemClockSetBack ==
    /\ pc \in Loop /\ jumps < MaxJumps
    /\ jumps' = jumps + 1
    /\ elapsed' = elapsed - PingAfter
    /\ UNCHANGED <<vars, pc, mqttVars, ticker_>>

-----------------------------------------------------------------------------
Start ==
    CreateClient \/ Connect \/ Subscribe \/ StartApi \/ NoContext \/ TickerSubscribe \/ EndTicker

Iterate ==
    StartEventLoop \/ ScanSubscribers \/ ReturnFromEventLoop \/ Ping \/ SkipPing
    \/ QueueEmpty \/ HandleCommand

Stop == Disconnect \/ DestroyClient \/ DestroyApi \/ (\E w \in Wsi : TeardownEvent(w)) \/ Exit

main == Start \/ Iterate \/ Stop

ProgramNext ==
    \/ main \/ Terminated
    \/ \E w \in Wsi : ServiceEvent(w) \/ TickerCrash(w)
    \/ SubscriptionReceived \/ MessageArrives \/ mqtt_arrived_cb \/ connectionLost
    \/ SteadyClock \/ SystemClock \/ SystemClockSetBack

\* The operating system runs both threads, no external call blocks for ever,
\* and both clocks advance.
ProgramFairness ==
    /\ WF_programVars(main) /\ WF_programVars(mqtt_arrived_cb)
    /\ WF_programVars(SteadyClock) /\ WF_programVars(SystemClock)

ProgramSpec == ProgramInit /\ [][ProgramNext]_programVars /\ ProgramFairness

-----------------------------------------------------------------------------
(* Properties.                                                             *)

ProgramTypeOK ==
    /\ TypeOK
    /\ pc \in Setup \cup Loop \cup Finished \cup {"disconnect", "destroy_client", "unwind"}
    /\ client \in {"none", "created", "connected", "lost", "disconnected", "destroyed"}
    /\ subscribed \in BOOLEAN
    /\ callback \in Payload \cup {"idle"}
    /\ q \in Seq(Payload) /\ Len(q) <= arrivals
    /\ arrivals \in 0 .. MaxArrivals
    /\ ticker_ \in {"unborn", "alive", "intact", "reused"}
    /\ elapsed \in -PingAfter * jumps .. PingAfter
    /\ jumps \in 0 .. MaxJumps

\* The callbacks of ticker run from lws_service only: by then ticker_ is out of
\* scope, every stream is subscribed and the client exists, connected or lost;
\* a message can never come while the object they refer to is still alive, nor
\* after MQTTClient_destroy.
CallbackContext ==
    at \in {"scan", "service"} =>
        /\ ticker_ # "alive"
        /\ ticker_ = "unborn" \/ size = NumEndpoints
        /\ client \in {"connected", "lost"}

\* q is a static, destroyed when main has returned.  No mqtt_arrived_cb can be
\* at work then, save where main returned because of MQTTClient_subscribe, with
\* the client connected and never disconnected.
QueueOutlivesCallbacks ==
    pc \in {"exited", "failed"} =>
        \/ callback = "idle" /\ client \in {"none", "created", "destroyed"}
        \/ pc = "failed" /\ client \in {"connected", "lost"} /\ size = 0

\* A stop message that has reached mqtt_arrived_cb ends the program, whatever
\* is queued before it and whatever the streams do.
StopHandled == (callback = "stop" /\ pc \notin Finished) ~> pc \in Finished

\* Once the broker is lost and no stop is on its way, none ever will be: nothing
\* reconnects, and main loops for ever unless it crashes.
StopOnItsWay == callback = "stop" \/ \E i \in DOMAIN q : q[i] = "stop"
Deaf == client = "lost" /\ pc \in Loop /\ ~StopOnItsWay
DeafForever == [][Deaf => Deaf' \/ pc' = "crashed"]_programVars

\* main keeps pinging for as long as it runs, also after the system clock was
\* set back.
PingsContinue == <>(pc \in Finished) \/ []<><<Ping>>_programVars

\* main gives the connection manager the fairness that NeverAbandoned needs:
\* unless it fails or crashes, event_loop runs again and again until ~api.
ServesApi == <>(pc \in {"failed", "crashed"}) \/ Fairness
=============================================================================
