# binancenativeapp in TLA+

TLA+ models of `binancenativeapp`, the TLC configurations that check them and
the proofs that TLAPS checks. The program is a C++ process that follows Binance
market streams over websockets, publishes the ticks to an MQTT broker and is
stopped by an MQTT message. Source paths are relative to `src/`.

## 1. The system

### Components

| Component | Where | State | Operations |
|---|---|---|---|
| Connection manager | `binance.cpp`, `binance.h` (`api`) | `subscribers_` (vector), `subscriber_callbacks_` (handle to index) | `connect_endpoint`, `event_loop`, `event_cb_impl`, `~api` |
| Main program | `binancenativeapp.cpp` | locals of `main`, the queue `q`, the MQTT client | start-up, loop, ping, commands, stop; `mqtt_arrived_cb`, `connectionLost` |
| Ticker | `ticker.h` | references to the client and the api | `subscribe`, the callbacks it registers |
| Control queue | `concurrentqueue.h` (`q`, `binancenativeapp.cpp:27`) | producers, blocks, block indices, free list, producer hash | `enqueue`, `try_dequeue` |
| Exchange information | `binance.cpp`, `binance.h` | `symbols_`, `currencies_` | `get_exchange_info`, `get_symbol`, `get_currency` |
| REST client | `restful.cpp`, `restful.h` | a curl handle | `get`, `get_file` and its multi loop |
| Buffer and decompression | `utils.h`, `utils.cpp` | `data`, `size_`, `max_size_` | `append`, copy, `gzip_inflate` |
| String helpers | `utils.cpp` | none | `split`, `to_lower`, `combine`, `random_string` |

External: libwebsockets, the Paho MQTT client, libcurl, libarchive, rapidjson,
spdlog. `CMakeLists.txt`, `Dockerfile`, `cacert.pem` and the package list have no
behaviour.

### How they interact

`main` connects to the broker, subscribes to a control topic and builds the
`api`. A `ticker`, a local of a block, asks the `api` for two streams; its
callbacks publish what arrives to MQTT. Then `main` loops: `api.event_loop()`
(a reconnecting scan, then `lws_service`, which runs `event_cb` on the same
thread), a ping when a second has passed, one `try_dequeue`. A thread of the
MQTT client runs `mqtt_arrived_cb`, which puts each control message into `q`.
Only `q` is shared by the two threads. `main` leaves the loop at
`{"command":"stop"}`, disconnects and destroys the client; `~api` ends the
sessions. `get_exchange_info` is commented out in `main`; the REST client and
the buffers of `gzip_inflate` serve callers that the program does not have yet.

### What is hard

* A handle is an address. `subscriber_callbacks_` keeps entries of connections
  whose end was not noticed, and the allocator reuses addresses.
* The library calls back from inside `lws_client_connect_via_info`, before
  `connect_endpoint` has registered the handle; `operator[]` of the map then
  inserts index 0.
* MQTT messages arrive at any moment of start-up, loop and shutdown, and every
  early return of `main` leaves other parts running.
* The callbacks of `ticker` outlive the object they refer to.
* The pings depend on a clock that can be set back, the retries on one that cannot.
* Reloading the exchange information clears first and may then fail at any entry.
* The queue has no locks: counters that are corrected after the fact, blocks
  that are reused, an index and a hash that grow under their readers, a free list
  whose nodes come back between a load and a compare-and-swap; and its indices wrap.
* One curl handle keeps the addresses of strings from request to request, and a
  request may be made from the callback of another.
* Neither `get_file` nor `gzip_inflate` looks at most of the results it gets, and no
  limit is set on the time a transfer may take.

`PROJECT.json` lists these hazards with their lines and the properties that
cover them, or why none does yet.

### What makes each component correct

* Connection manager: a message reaches the subscriber that opened its
  connection; at most one connection each; no dangling handle; nobody abandoned.
* Main program: callbacks find what they use; `q` outlives its producer; a stop
  ends the program; pings and `event_loop` go on.
* Control queue: each message is got once, whole, in order, and in the end; a block
  and a producer have one owner each; nothing is lost or freed twice at the end.
* Exchange information: tables match the latest response; references stay good.
* REST client: a callback sees the whole answer to its own request; a download ends
  unless the server leaves it stalled.
* Buffer and decompression: a buffer holds exactly what was handed over; data are
  missing only if a library reported trouble.
* Streams: each symbol given becomes one stream, each stream has a topic of its own.

## 2. The modules

| Module | Models | Proved in |
|---|---|---|
| `Endpoints` | what `api` promises about streams: links of each endpoint, whose callback runs | |
| `Api` | the connection manager; the libwebsockets it sees | `Program_proofs` |
| `Program` | the process: `main`, ticker, MQTT thread, clocks; extends `Api` | `Program_proofs` |
| `Streams` | from the text of the symbols to the paths of both endpoints and to the topics | `Data_proofs` |
| `Channel` | what `q` promises for one thread's messages: a FIFO, each to one consumer | |
| `ImplicitQueue` | one producer of the queue, one action per shared memory access | `ImplicitQueue_proofs` |
| `Teardown` | its destructor; extends `ImplicitQueue` | `ImplicitQueue_proofs` |
| `Indices` | the arithmetic of its indices, modulo 2^w | `Indices_proofs` |
| `BlockPool` | where blocks come from and where they end | `BlockPool_proofs` |
| `Pool` | what the free list promises: a block has one holder at a time | |
| `FreeList` | the free list, one action per shared memory access | `FreeList_proofs` |
| `ProducerHash` | the hash from threads to producers while it grows; the list of producers | `ProducerHash_proofs` |
| `Buffer` | `buffer_struct`: operators on the value of a buffer | `Data_proofs` |
| `Download` | `get_file` and its multi loop; extends `Buffer` | `Data_proofs` |
| `Inflate` | `gzip_inflate` and `copy_data`; extends `Download` | `Data_proofs` |
| `RestClient` | the requests of `get` and `api` over one easy handle, nested in callbacks | `ExchangeInfo_proofs` |
| `ExchangeInfo` | `symbols_` and `currencies_` under reloads; extends `RestClient` | `ExchangeInfo_proofs` |
| `MC...` | symmetry sets and data for TLC | |

Each definition that models code is mapped to its lines in `PROJECT.json`. A
definition marked *Mutant* is a plausible bug in the definition after it. The
specification does not use it; a property is tested by putting the mutant in
the definition's place, and must then fail.

### `Api` and `Endpoints`

`subscribers_` holds `wsi` and the age of `subscribe_ts` in seconds, which stops
at 3 because the code only asks for more than 2. `subscriber_callbacks_` is a
total function with `NoIndex` where the map has no entry, the null handle being
one of the keys. `at` and `cursor` say where the main thread is: with the caller,
in the scan, in `lws_service`, in `~api`. `link` and `owner` are the library's
side: the state of the connection at each address, and who asked for it.
`connect_endpoint` is one step with three outcomes: pending, refused without a
handle, refused through a callback inside the call (only if `InCallErrors`).
`Ended` is `event_cb_impl` for the reasons that end a connection;
`CloseReasons` says how the library may announce the end of a session. The
source handles `LWS_CALLBACK_CLOSED`; with `CLIENT_CLOSED` in the set the model
includes endings that the source ignores. `delivered` is a history variable: whose
connection the latest message came from and whose callback got it.

`RefinesEndpoints` maps `links` to the connections each subscriber owns and
`feed` to the callback that ran. Subscriber 0 is exempt (`Leaky`) when errors can
come inside connect: its handle can then be nulled while its connection lives.

### `Program`

`pc` follows `main` from `MQTTClient_create` to its end. `client`, `subscribed`
and `callback` are the MQTT client, the broker's subscription and the message
`mqtt_arrived_cb` works on. The broker may have the subscription before, or
without, `MQTTClient_subscribe` succeeding. Two results that nobody looks at are in
the model: after a failed `MQTTClient_create` the next call gets a handle that was
never set, and returns an error or crashes (`CreateClient`); a null context from
`lws_create_context` crashes the first `connect_endpoint` (`NoContext`). `q` is a sequence here; the queue's
own modules look inside. A control message is a stop, another object, or
malformed: for the last, rapidjson's asserts being compiled out, the outcome is
either to go on or to crash. `ticker_` records whether the frame of the ended
block is reused; the callback crashes if it is, and may crash on a part of a
message. `elapsed` is the system clock in half seconds since the last ping, and
`SystemClockSetBack` takes two off it.

### `Streams`

One action per step of a loop: a token of `split`, a call of `subscribe`, a name of
a stream, a value that `combine` writes, a message. `stream` is the latest call of
`subscribe`: `main` makes one for each kind of stream (`StreamNames`, in its order)
with the same tokens, and goes on to its loop after the last. `endpoints` keeps each
call's path, `published` what the callbacks of both have published. A text is a sequence of characters, since what
`split` does with empty tokens and delimiters at the ends is the point; the kinds
of stream and the start of the path count as one character each. How the
exchange takes a path apart is external: at each `/`.

### The control queue

`ImplicitQueue` has the producer's and the consumers' local variables as records
with a `pc`; each action is one load, store or fetch-and-add. `blockIndex`,
`headers` and `entries` are the block index: headers are never freed while the
queue lives, so all are kept. An entry that was never stored to holds `garbage`.
Blocks come from a pool `free` that may also refuse one; a larger header may be
refused too. Elements are their own index, so a wrong slot shows as a wrong value.
`Promised` maps the positions between `headIndex` and `tailIndex` to `Channel`'s
items; a claimed index not yet moved out is `taken`.

`Teardown` adds `~ImplicitProducer`. Its local variables become fields of
`producer`, with a record of what it destroyed and which blocks it gave back; the
consumers are then `"over"`.

`Indices` has the same sub-queue with indices modulo `Width`, in larger steps: the
interleavings that make a number old when it is used are kept (the head that the
producer loaded, the overcommit that a consumer loaded), the rest is atomic.

`BlockPool` is `requisition_block` from the array (load, then fetch-and-add), the
free list and the allocator, `add_block_to_free_list`, and `~ConcurrentQueue`. Its
free list is a set that may seem empty when it is not; `FreeList` shows that the
real one is no worse. There `freeListRefs` is split into the count and the flag
that the code keeps in one word (both are read and written together).

`ProducerHash` is `get_or_add_implicit_producer`: probing, the count that rations
the slots, the flag that admits one thread to make a bigger table, the wait of the
others, the insertion, and `add_producer`. All tables made so far are kept in
`tables`, as in the code, which never frees one while the queue lives. `newCount`
and `producer` remember what a thread's local variables were.

### `RestClient` and `ExchangeInfo`

`curl` holds the options of the one easy handle, `strings` the `std::string`
objects that are alive, known by the call of `api::get` they belong to; `stack` has
those calls, since a callback may make a request before it returns. `curl_cb`
appends to whatever the address in the options names.

A response is a sequence of entries. `ClearAndRequest` clears and starts the
request; its callback reads one entry at a time (`ReadEntry`) to the end, or throws
at one, before or after that entry's currencies are made. Which of the responses with
what was read in common it is reading stays open until they differ. A currency is the number of its node,
so that a reference that dangles can be told; `copy` is a symbol that a caller
copied from what `get_symbol` returned.

### `Buffer`, `Download` and `Inflate`

A buffer is a record of the array, `size_` and `max_size_`; what `new char[]`
leaves in an array is `garbage`. `append` and the copy constructor are operators
on that record. `pc` of `Download` follows `get_file` through `multi_loop`:
`perform`, `test` (the `while`), `wait`, `return`. Within one
`curl_multi_perform` any number of pieces reaches `write_to_memory`, and the
transfer may fail at any of them; the call itself may fail, and so may `select`.
`received` and `failed` are history variables: what libcurl handed over, and
whether there is a reason for a partial file. Returning the buffer may copy it
or not, as the compiler likes.

`at` of `Inflate` follows `gzip_inflate` and `copy_data` over an archive of entries
and blocks. libarchive may answer any call with an error, after which it may or
may not be usable; of a part of a file it may see any part of the archive.
`delivered` and `troubled` are the history variables here.

## 3. What the runs check

| Run | Question | Distinct states |
|---|---|---|
| `api_announced` | With every ending announced, and errors inside connect: delivery to the owner, no dangling handle, nothing left after `~api`, one connection each but for subscriber 0, every subscriber connected or tried again for ever | 50 thousand |
| `api_unannounced` | With ignored endings: `Api` implements `Endpoints` with nobody exempt; an unnoticed ending is never repaired | 340 thousand (symmetry) |
| `program` | Both threads: context of the callbacks, lifetime of `q`, the stop, the pings, the fairness that the connection manager needs | 1.1 million |
| `queue` | A producer, two consumers and the destructor: counters, block reuse, the queue implements `Channel`, what is left is destroyed once | 2.7 million (symmetry) |
| `queue_taken` | One consumer takes everything; lookups are right while a ring that has come round grows | 130 thousand |
| `free_list` | Three threads and two nodes: references are counted right, no node is lost, `FreeList` implements `Pool`, all calls end | 610 thousand |
| `producer_hash` | Three threads that collide, two replacements of the table, failing allocations: tables, entries, producers, all calls end | 810 thousand |
| `indices` | Indices of four bits: size, room, claims and lookup across the wrap | 1.6 million (symmetry) |
| `block_pool` | Three threads race for blocks: one owner each, what was allocated is freed | 17 thousand (symmetry) |
| `exchange_info` | Complete, partial and failed requests, nested in callbacks: answers, references, tables | 30 thousand |
| `inflate` | A download and the reading of it as an archive, with failures and stalls at every point: contents, reasons for missing data, the end | 240 thousand |
| `streams` | Every text of up to five characters, both kinds of stream: symbols, streams and topics | 46 thousand |

What they show of the code, besides that it does what it should:

* `OneLink` needs its exemption: an error announced inside connect makes
  subscriber 0 open a second stream beside a live one. Nobody else is affected.
* `OrphansStay`: a session whose ending comes with a reason outside the `switch`
  (`binance.cpp:37-65`) is never reconnected, for its handle stays.
* `QueueOutlivesCallbacks` has one exception, the return after a failed
  `MQTTClient_subscribe` (`binancenativeapp.cpp:91`): the client is connected,
  and its thread may enqueue while `q` is destroyed.
* `CallbackContext`: no message is ever handled while `ticker_` is alive, so the
  `this` that its callbacks captured always dangles (`ticker.h:24`); what comes of it
  is up to the compiler, and the model has both outcomes.
* After `connectionLost` only a crash ends the loop (`DeafForever`, proved).
* `Taken` holds of one consumer. With two it does not: each can keep an old
  `dequeueOvercommit` while the other's reservation fails, and so on for ever.
  The program has one, and the library promises no more.
* `NothingMissing`: missing data always have a reason, but the caller of `get_file`
  and `gzip_inflate` is not told of it: `get_file` looks at no result of libcurl, and
  the result of `copy_data` is overwritten by that of the next header.
* `InflateEnds`: a server that stalls in the middle of a transfer keeps the caller of
  `get_file` for ever, for no timeout and no lowest speed are set
  (`restful.cpp:144-154`). Nothing else does: not a timeout of `select`, an error here
  and there or a damaged archive.
* `SymbolsMatchResponse` is about the part of the response that was read: after a
  failed reload it is empty, and so is `symbols_`.
* Empty tokens between delimiters become streams named `@bookTicker`; `StreamsAsGiven`
  counts them as given. A text of delimiters only still gives `combine` a value.
* `FoundEntry` of `Indices` holds although a comment of the lookup
  (`concurrentqueue.h:2941-2942`) gives a reason that is not so: the difference of
  the indices is not divided as a negative number, since `BLOCK_SIZE` is a `size_t` to
  which it is converted. The result is masked with the ring's size, a power of two,
  which makes both divisions agree.

No statement of a doc, an assertion or a test was found violated.

### Bounds, and why they are enough

* Two endpoints are what `main` makes; three where it matters who is exempt.
  Three handles let one be reused while two are in use. The age of a subscriber
  is capped where the code stops telling ages apart; that is not a bound.
* In `program` there is one handle for two endpoints, so that one is always being
  retried: the graph stays small and both the connected and the retrying case
  occur. `MaxArrivals` = 2 puts a message in front of a stop; `MaxJumps` = 1 sets
  the clock back once, which leaves `elapsed` negative.
* Blocks of two, a ring of two entries and three blocks: with `MaxTail` = 5 the
  third block of messages finds the ring full, or reuses an entry and a block.
  With `MaxTail` = 7 (one consumer) the ring also grows from a position other
  than its last. `MaxReserved` = 6 leaves a failed reservation beside the five
  that succeed; without it two consumers make failed reservations without end.
* `free_list`: the interesting schedules need one thread that is interrupted inside
  `try_get`, one that takes the node and gives it back, and one that adds meanwhile.
  Two nodes let the head change and come back.
* `producer_hash`: a first table of two slots, of which none may be taken
  (three quarters of two, in integers, is one), so that every insertion but one
  needs a bigger table; two threads start probing at the same slot.
* `indices`: with four bits all indices come round every eight blocks; the ring
  starts with two entries and grows to eight, all that half of the indices can
  need. `MaxStale` keeps an overcommit from getting so old that it looks new again:
  with the 64 bits of the program that takes 2^63 failed reservations during one call.
* `block_pool`: capacities of zero to two blocks, with three threads racing past the end.
* `exchange_info`: `MaxCalls` = 4 is complete, failed, partial, complete; `MaxDepth` = 3
  nests two requests. The two responses share a name, swap the roles of assets, repeat
  a name and a type, and have an unknown type.
* `inflate` has a file without pieces, one whose first piece grows the empty
  array, and one with an empty piece, a piece that just fits, one that fills the
  array and one that overflows it; archives without entries, with empty entries and
  with empty blocks. The timeouts lie on both sides of each boundary of `get_timeout`.
* `streams`: five characters hold two tokens with an empty one between, before or after;
  the two kinds are those of `main`, so that streams meet that differ in either or both.

Deadlock is checked except in `exchange_info` and `streams`, where nothing need follow
the last call, and `queue`, where `MaxReserved` can stop all threads.

### Fairness, and why the code justifies it

* `Api!Fairness`: `EventLoop` and `Tick` are weakly fair. `main` calls `event_loop`
  in an endless loop, the scan is a plain `for`, and `lws_service` with a
  negative timeout does not wait. The clock is `steady_clock`. Nothing is assumed
  of the network: connecting may fail for ever. `ServesApi` checks that the
  fairness follows from that of `Program`.
* `ProgramFairness`: `main`, `mqtt_arrived_cb` and both clocks. The operating
  system runs both threads and no external call blocks for ever. The broker
  need not send anything and the connection need not last.
* `ImplicitQueue!Fairness`: a consumer goes on with its call and calls again, as
  the loop of `main` does. The producer is not fair.
* `FreeList!Fairness`, `ProducerHash!Fairness`: a thread in the middle of a call goes
  on. Nobody has to call. Both algorithms retry when another thread interferes, so
  their `Settles` says that calls end once no more are started.
* `Download!Fairness`: the thread runs, and neither `select` nor `curl_multi_perform`
  fails for ever (strongly fair, because either may fail now and then). This is an
  assumption about the operating system and libcurl: without it the loop spins.
  Nothing is assumed of the server: it may send the rest, end the connection or
  stall, and `InflateEnds` tells these apart. `InflateFairness` adds only that the
  thread runs.

## 4. What is proved

TLAPS proves, for every number of endpoints, threads and consumers, every set of
handles, file and archive, every bound and every admitted behaviour of the libraries:

* `Program_proofs`, of `Api`: `TypeCorrect`, `DeliveryCorrect`, `OneLinkCorrect`,
  `HandlesCorrect`, `TeardownCorrect`, `OrphansCorrect`, and `Refinement`
  (`Spec => RefinesEndpoints`); of the process: `ProgramImplementsApi`
  (`ProgramSpec => Spec`), and with it delivery and the refinement,
  `ProgramTypeCorrect`, `CallbackContextCorrect`, `QueueLifetimeCorrect`, `DeafCorrect`.
* `ImplicitQueue_proofs`, for any number of consumers and blocks, and blocks and rings
  of any size: `CountersCorrect` (no consumer claims a message that is not there; every
  reservation is accounted for), `FoundEntryCorrect` (the lookup finds the entry of the
  message, in an old ring too), `BlocksRightCorrect` (a block is given back once, when
  it is empty), `ImplementsChannelCorrect` (`Spec => ImplementsChannel`), and of the
  destructor `DestroyedOnceCorrect` (what is left is destroyed and given back once).
* `Indices_proofs`, for every width of the indices, blocks and rings of any size that
  is a power of two: `NumbersRightCorrect` (the size told and the room found are right
  on both sides of the wrap), `ClaimsBackedCorrect` and `FoundEntryCorrect`.
* `BlockPool_proofs`: `PoolBlocksOwned`, `PoolDynamicFreed`.
* `FreeList_proofs`, for any number of threads and nodes: `ListCorrect` (no exchange
  succeeds with a pointer out of date), `NothingLostCorrect`, and
  `ImplementsPoolCorrect` (`Spec => ImplementsPool`).
* `ProducerHash_proofs`: `TablesCorrect` (the tables stay chained and counted, and
  each keeps a free slot, so that probing ends), `EntryOnceCorrect`,
  `SameProducerCorrect` and `ProducersListedCorrect` (consumers reach every producer),
  for every number of threads, every hash and every initial capacity.
* `ExchangeInfo_proofs`: `OwnResponseCorrect`, `ReferencesCorrect`, `SymbolsCorrect`,
  `SymbolsMatchCorrect` (the order types of a symbol are those its entry lists), for
  every set of responses and every depth of nested requests.
* `Data_proofs`: `AppendBuffer` and its fellow lemmas for every buffer and
  piece; `DownloadTypeCorrect`, `ResultCorrect`, `NoEarlyReturnCorrect`,
  `TimeoutCorrect` for every file, every cut into pieces and every timeout;
  `BuffersCorrect` and `NothingMissingCorrect` (an archive is only cut short for a
  reason), for every archive and every failure; `SymbolsReachExchangeCorrect` and
  `TopicsDistinctCorrect`, for texts of symbols of any length and any kinds of stream.

Assumptions: those named `...Assumption` in the modules. There is at least one
endpoint; the null handle is not a handle; `CloseReasons` and `InCallErrors` range
over what the modules name; threads and consumers are finite sets; sizes are positive
and bounds natural; in `Indices` the sizes divide half of the width, and
`PowersOfTwoAssumption` says what the proof needs of powers of two; consumers, with the
reservations that fail during one dequeue, are fewer than half of the indices; `garbage` is not a character; curl's timeout is a natural or -1. No symbol has a `/`
(`CharactersAssumption`): the program does not look, but the exchange has no such
symbol, and would take the path of one apart in the wrong places; the kinds of
stream that `main` names differ.

Argument for `Api`. `DeliveredToOwner` and `OneLink` are not inductive. The
invariant `IInv` adds

* `Routed`: the entry of a live connection's handle names the subscriber that
  opened it, so the lookup at a message is right;
* `StaleEntry`: an entry without a live connection still agrees with the `wsi` of
  its subscriber, unless that is subscriber 0. Without this, an error inside
  connect, looking up a leftover entry, could null a handle that is in use;
* `NotYetAdded` and `GoneIsQuiet`, for new endpoints and after teardown.

One lemma treats `connect_endpoint`, one the endings, one each other action.
`HandlesCorrect` and `TeardownCorrect` have an invariant of their own
(`HandlesLive`) that presumes handled endings. `Refinement` uses `IInv`: opening
a link is allowed because `OneLink` says a subscriber without a handle has none.

Argument for `Program`. Each action contains an action of `Api` or leaves its
variables alone, hence the step simulation. `PInv` ties `pc` to the client
(`ClientAt`), to where the connection manager is (`ApiAt`), to the ticker
(`TickerAt`), and bounds `q` by the messages that came (`Accounted`); the
theorems follow from it without further induction.

Argument for `ImplicitQueue`. A reservation is the number that a consumer drew from
`dequeueOptimisticCount`. `CInv` splits the numbers drawn into those that succeeded,
those that failed and those not yet checked. A consumer that succeeds had loaded an
overcommit not larger than the failures among the lower numbers; hence the numbers
up to the highest that succeeded (`Highest`), less those that failed, are at most
`tailIndex`, and `headIndex` counts some of them. `ReservationsCorrect` counts the
consumers between drawing and giving back in the same terms.

Argument for the blocks of `ImplicitQueue`. `BInv` adds three groups of facts to `CInv`.
*The index*: in the current ring the keys go down block by block from the tail
(`Ordered`), whatever was emptied meanwhile; the entry after the tail may already have
the next key, from an insertion under way or one that failed, but only if it is free
(`Announced`; without the last condition the step that replaces the ring does not
preserve the order). In a ring that was replaced, keys and positions agree modulo its
size (`Congruent`), which is what the lookup with an old tail needs: sizes are
multiples of each other. *The blocks*: one is free, or in one entry, or being put
there, or being given back (`BlocksOwned`). *The messages*: every index between head
and tail, and every one claimed, has an entry (`NeededFound`); a block counts the
messages begun of it less the consumers still at work there (`Counting`), hence
whoever counts the last is alone; message `i` is in its slot until moved (`Stored`).
The steps map to those of `Channel`: `Publish` to its enqueue, the claim to its take,
`Move` to its get, all others to nothing.

Argument for `Teardown`. `BInv` says who may have a block; that somebody has it, the
destructor needs too. `Accounted` adds that a block that is not free is in the index,
being put there or being given back (`NoneLost`), that a consumer is about to clear
the entry of one that is done with (`FullSeen`), and that between two blocks
`tailBlock` is still the one before (`TailKnown`). Without calls under way it follows
that each message that is left has its home, and that a block that is not free is one
of these homes or, when none is left in it, a tail block that is not full
(`HomesRight`). The loop then has given back the homes it came through but the one it
is in (`Destroying`), and the last step adds the tail block unless it is on the free
list already.

Argument for `Indices`. Every number is the remainder of one that never comes round:
`T` messages were enqueued, `H` claimed, `V` reservations given back, so
`dequeueOptimisticCount` stands for `H + V` and the reservations under way. The
invariant `NInv` says that such `T`, `H`, `V` exist. What the code compares
then lies less than half of the width apart (`Compared`): the tail and the head
because a block is only begun if all of it is behind a head loaded before, and heads
only grow; the two sides of a consumer's test because few reservations fail while it
holds an old overcommit (`LooksThereIf`). In the ring, the entries of the blocks that
have messages lie one by one behind the tail (`Entries`); the offset computed for one
comes round after a whole number of rings, since the ring's size divides the number of
blocks that there are indices for (`PositionFound`). That it still does when the ring is
doubled, is where powers of two are needed: a full ring of that size would have more
than half of the indices in use (`RoomToGrow`).

Argument for `BlockPool`. `RaceBound` counts the threads that saw room in the array
and have yet to add: with them the index stays below the size plus the number of
threads. `FreeExist`, `NoneLost` and `PastArray` say of the free list and the
allocator what `OneOwner` and `BlocksExist` say of the threads; with all blocks given
back, the free list holds every allocated block, and `DynamicFreed` follows.

Argument for `FreeList`. `freeListRefs` counts the threads that refer to a node, and
one more for the list unless the node is held or still to be put there
(`RefsCounted`). Whoever brings it to nothing while it is to be put there, alone has it
(`ClaimsRight`, `WantedIsKnown`), and writes its pointer while nobody refers to it. A
thread that counted itself in before it read the pointer keeps the count above
nothing, so the pointer it read stays true (`LocalsRight`) and the exchange cannot
succeed with an old one. The nodes of the list are those with a count for the list
that no thread claims (`OnList`); no two of them lead to the same node (`Chained`), and
every set that is closed under the pointers contains them (`Reachable`). Being reached
is defined by closed sets, so that no induction along the chain is needed.

Argument for `ProducerHash`. The count is taken before the slot, so at most `k`
threads have a `newCount` of at most `k` (`Rationed`), and a thread enters a table
only with a `newCount` below three quarters of its capacity (`WithinQuota`). The keys
of a table are therefore fewer than its slots, whatever happened to newer tables.
Every key can be found by probing (`Findable`: no slot is ever emptied), so a thread
that met a free slot is not in that table; since tables are only replaced under the
lock (`Locked`) and each leads to the one before, one that searched them all is in
none. A copied entry may go to a newer table because tables only grow (`Growing`): a
count within the quota of the old one is within that of the new one. For the list of
producers, `PInv` adds that owners differ, and that the producers that are not being
linked form a list that is closed and contained in every closed set; the exchange that
links one succeeds only if its pointer leads to the head.

Argument for `RestClient` and `ExchangeInfo`. Calls nest (`Nested`): only the latest is
outside its callback, so the options of the handle are its own whenever it performs
(`Filled`). After a nested request they still hold the addresses of strings that are
gone, but nobody performs before setting them anew. Each string holds the first pieces
of its part. `TInv` says of the tables that every symbol is that of the first entry of
its name in what was read; reading the next entry only adds currencies (`Extends`).
`Mask` folds the bits of the types together: each step sets the bit of its type and
leaves the others. Where the bits first differed from the types listed, that step
would have done otherwise; the least such number stands in for an induction.

Argument for `Download` and `Inflate`. `DInv` adds to the four properties that the
buffer holds what was received in every state, not only at the end (`Filled`, which
rests on `AppendBuffer` and `CopiedBuffer`), and that the loop waits only while the
transfer runs and tests 0 only when nothing is left or something failed
(`Unfinished`). `AInv` carries it through `gzip_inflate` and repeats the argument for
the second buffer. For `NothingMissing`, what was delivered and what the archive still
has make up the whole, until libarchive reports trouble (`WholeRight`).

Argument for `Streams`. `Parts` and `Joined` are the two ways to look at a text, and a
lemma each says what a piece more does to them (`MoreParts`, `JoinedMore`). The
invariant `SInv` says that the tokens joined and the rest make up the text (`MadeUp`;
what is left is the text itself before the first token), that the parts of the path
are the names written so far (`PathRight`), that each call of `subscribe` that is over
has its endpoint with all its names (`EndpointsRight`), and that each message has the
name of a stream and its topic (`PublishedRight`). Without a `/` in a name, the `/` of
a topic is where the `@` of the name was, so a topic gives its name back
(`TopicsDiffer`); the name ends in its kind (`StreamType`), which gives the call.

Only model-checked: liveness (`NeverAbandoned`, `StopHandled`, `PingsContinue`,
`ServesApi`, `Taken`, `Settles`, `InflateEnds`), which is out of the prover's reach.
Every safety property that a run checks is a theorem.

## 5. What is taken for granted, and what is left out

* libwebsockets stores a null pointer through `pwsi` when a connect fails, gives
  a handle to one connection at a time, and keeps no use of `pwsi` after the call.
* `MQTTClient_disconnect` returns when the client's thread has stopped;
  callbacks run one at a time.
* Unchecked results of `enqueue` and `MQTTClient_publish` are not modelled: the
  message is lost, and the program goes on as if it were not.
* Memory accesses of the queue are sequentially consistent. Indices wrap only in
  `Indices`. Blocks come from an abstract pool in `ImplicitQueue`, and
  `BlockPool` has an abstract free list, which `FreeList` implements.
* The throw at a missing field stands for rapidjson on a response of another form;
  what a Release build of rapidjson does without its assertions is external.
* Sizes of a buffer do not overflow. curl counts the seconds of a timeout in a
  `long` wide enough for them.
* libarchive hands over blocks in order and without gaps; `append` ignores offsets.

Not modelled:

* The choice among several producers in `try_dequeue`: one thread of this program
  enqueues, so there is one producer.
* Explicit producers, tokens, bulk operations, moves and swaps of the queue: the
  program does not use them.
* Which members of a tick's JSON are forwarded, the precisions and the filters of a
  symbol (read and dropped), the HTTP status (not looked at): data without control.
* `random_string`, which names the MQTT client: what `rand()` gives is not the
  program's.
* Option parsing, logging, `curl_global_init`: no state that later steps depend on.
* Build and data files: no behaviour.

## 6. How the project grew, and what could follow

The connection manager and the process came first, with proofs, then the queue and
the buffers, then the queue's memory (`BlockPool`, `FreeList`), its hash, arithmetic
and end, and the clients of the REST interface. The proofs then followed the
models, down to `Streams`. Worth doing next, should the program get a second thread that
enqueues: the choice among producers.
