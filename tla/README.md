# A verification of liberdus-proxy

TLA+ modules, model-checking runs and proofs for the proxy under `src/`. The
proxy stands between the clients of the Liberdus network and its validators
("consensors"): it keeps a pool of validators, forwards each HTTP request to one
of them, serves some routes from other services, and pushes account updates to
websocket clients.

## 1. The system

| Component | Source | State | Operations |
|---|---|---|---|
| Consensor pool and load balancer | `src/src/liberdus.rs` | `active_nodelist`, `trip_ms`, `load_distribution_commulative_bias`, `round_robin_index`, `list_prepared` | `update_active_nodelist`, `get_next_appropriate_consensor(_with_retry)`, `prepare_list`, `get_random_consensor_biased`, `set_consensor_trip_ms` |
| Request forwarding | `liberdus.rs` `send`, `handle_request`, `get_account_by_address` | none of its own | one attempt, up to three attempts with pauses, an answer or an error |
| Subscription manager | `src/src/subscription.rs` | `accounts_by_sock`, `socks_by_account`, `last_received_ts` under one `RwLock`; the websocket senders under another | `subscribe`, `unsubscribe`, `unsubscribe_all`, `listen_account_update_callback`, `get_all_subscriptions` |
| Websocket server | `src/src/ws.rs`, `src/src/rpc.rs` | per socket: channel, write half, `last_pong`; `stream_count`, shared with the HTTP server | accept, reader task, heartbeat task, sending loop |
| HTTP server | `src/src/http.rs` | per connection: the bytes collected; `stream_count` of the same `Stats` | `collect_http`, `handle_stream`, `get_application`, `respond_with_*` |
| Collector proxy and listener | `src/src/collector.rs` | the socket.io client | `handle_request`, `listen_account_update` |
| Notifier proxy | `src/src/notifier.rs` | none | `handle_request` |
| Observer gateway | `src/src/observer_gateway.rs` | `OBSERVER_RR_INDEX`, the rotation shared by all connections; a task per accepted bridge-out | `handle_request`, `handle_notify_bridgeout`, `forward_transaction_get_to_observers`, validation |
| Monitor proxy | `src/src/shardus_monitor/proxy.rs` | `CACHE_MAP`: a payload, its time stamp and lifespan per route | `handle_request`, `cold_fetch` |
| Archiver discovery | `src/src/archivers.rs` | `active_archivers`, the cache file | `new`, `discover`, `verify_signature` |
| Start-up | `src/src/main.rs`, `src/src/lib.rs` | none | the first discovery and update, the two tickers, the wait for the first list, the servers |
| Crypto, configuration, TLS, `stream.rs` | `src/src/` | none that changes | library calls, values read once |

How they meet. `main.rs` runs one refresh loop that calls
`update_active_nodelist`; the HTTP and websocket listeners open when the first
list is there. Every HTTP connection is a task, whose requests go to one of six
handlers; a validator request calls `Liberdus::send`, which reads and writes the
pool. Every websocket is three tasks (reader, heartbeat, sending loop) that
share the subscription manager with each other, with other sockets and with one
task per account update. A subscription asks a validator for the account, hence
the pool again.

What is hard: all tasks run on a multi-threaded runtime and share cells that are
consistent one by one but not together; checks made under a lock are used after
it is released; connections end in several ways, of which only some clean up;
time-outs race with answers. `PROJECT.json` lists these hazards at their lines
with the properties that watch them.

What would make each part correct:

* pool: a request gets a validator of the current list; the weights belong to
  the list they are used with; no request panics; a filled pool is not emptied;
* subscriptions: the maps agree, nothing of a closed socket remains, updates
  are delivered once and in the order of their timestamps, no deadlock;
* connections: one response per request, an end for every connection, resources
  given back;
* framing: what is read does not depend on how the bytes arrive;
* monitor cache: an answer is no older than its lifespan;
* observers and archivers: one failing peer does not spoil the result.

## 2. Modules

### NodePool

`NodePool.tla` models the pool with every interleaving of one refresh task, any
number of senders (`Liberdus::send`) and account lookups
(`get_account_by_address`). No lock is held over two cells, so each read or
write of a cell is an action and `pc` says which comes next.

| Model | Code |
|---|---|
| `nodelist`, `weights`, `trips`, `rr`, `prepared` | the five cells; `weights` keeps the increments of the cumulative vector, `Cumulative` adds them up |
| `Refresh`: `StoreNodelist`, `ClearWeights`, `ClearTrips`, `ResetIndex`, `ClearPrepared` | the stores of `update_active_nodelist` in their order, `FilterNodes` its join-order filter |
| `Begin`, `CheckEmpty`, `GatePrepared`, `GateWeights`, `GateLength`, `TakeIndex`, `Select` | `get_next_appropriate_consensor` |
| `CheckPrepared`, `PrepareLoadList` ... `PrepareSetFlag` | `prepare_list` |
| `PickCheck`, `PickLoadList`, `PickLoadWeights`, `RestartIndex`, `RestartPrepared` | `get_random_consensor_biased`; the random choice is any index the binary search can return |
| `Miss`, `Refuse` | the retries of `..._with_retry` and the refusal after the last |
| `Forward`, `InsertTrip` | the call and the spawned task that records its round trip |
| `Reconnect` | a panic ends the task of its connection; another client connects |

Biases are scaled by the timeout to stay in the integers: `max - t` for
`1 - t / max`. Only comparisons and sums of them matter. `fresh` and `raced` are
history variables. `raced` becomes true when a refresh replaces the list while a
task holds a copy of the old one, or when a task copies the new list while the
weights of the old one are still there; a refresh that meets nobody clears it.
Such races do happen in the code (see the findings);
the conditional invariants say that *everything else* is safe: any number of
concurrent passes, restarts and late inserts. Of two passes at once they promise
only that list and weights are as long as each other: the list sorted by one can
be kept with the weights of the other (`liberdus.rs:323`, `325`), so that a
validator gets a weight that was computed for another.

### Subscriptions and SubscriptionRegistry

`SubscriptionRegistry.tla` is what the manager promises: a relation between
sockets and accounts, the newest timestamp per followed account, and sockets
that leave with nothing. `Subscriptions.tla` is the code: three maps, their lock
taken anew in each step of an operation, and the tasks that call it.

| Model | Code |
|---|---|
| `accounts_by_sock`, `socks_by_account`, `last_received` | `Inner` |
| `socket_map`, `receiving`, `map_writer` | the senders, whether the receiver lives, and the reader that holds the map's write lock over `unsubscribe_all` |
| `Subscribe`, `SetStates` | `subscribe`: `is_exist` under the read lock, then a validator is asked, then `set_states` under the write lock |
| `Unsubscribe`, `Remove` | `unsubscribe` |
| `UnsubscribeAll`, `UnsubscribeNext` | `unsubscribe_all`: copies the accounts, then removes them one at a time |
| `Receive`, `Stamp`, `TakeTargets`, `Send` | `listen_account_update_callback` |
| `Connect`, `Close`, `CloseEnds`, `Timeout`, `PingFails`, `HandleStreamEnds` | the tasks of `ws.rs` as far as the manager sees them |
| `Break` | the reader ends without a Close frame: its stream fails, or it panics over a request, also while it asks for the account |

The listener that starts the callbacks (`collector::listen_account_update`) is
called by nobody at this commit (its call in `ws.rs` is commented out); the
manager and its callback are library code with tests and are modelled with it.

The registry is implemented by: `subscribed` = the pairs of `socks_by_account`,
`newest` = `last_received`, `left` = the sockets whose reader has finished its
Close.

### MonitorCache

`MonitorCache.tla` models the caches of the monitor proxy and the tasks that use
them. `handle_request` copies a payload under the read lock, judges the copy
after the lock is gone, fetches without a lock and stores under the write lock,
so each of these is an action.

| Model | Code |
|---|---|
| `cache`, `Empty`, `Payload` | `CACHE_MAP`, `PayloadCache::new`, `PayloadCache::set` |
| `Look`, `JudgeFresh`, `JudgeCold`, `JudgePanics` | the copy and the comparison of `date_now - timestamp` with the lifespan; the unsigned subtraction wraps in a release build and panics in a debug build |
| `Fetch`, `FetchFails` | `cold_fetch`, whose success may be a page cut short or nothing |
| `Refuse`, `Store` | the report that does not parse; the write into the cache |
| `Reply`, `RelayFails` | the answer, an error if the page is empty |
| `Tick`, `SetBack`, `Publish` | the clock, the clock set back, upstream's pages |

`now` is the system clock the code reads, `Real = now + slipped` the time that
really passed; the properties speak of real time. `begun`, `seen`, `overtaken`
and the `set` field are history.

### HttpConnection

`HttpConnection.tla` models one client connection from `http::listen`'s task to
its end: `collect_http` on both sides, `handle_stream`, and how each of the
applications calls its upstream server and answers. A message is a number of
units of head and of body; what `collect_http` does depends only on how many
have arrived and on what the head declares, and TLC explores every way to cut
the message into reads.

| Model | Code |
|---|---|
| `Collected`, `TooLarge`, `EndsEmpty`, `EndsInHead`, `EndsAfterHead`, `Chunks` | the conditions of `collect_http` in their order, its 1024-byte buffer (`MaxRead`) and `MAX_PAYLOAD_SIZE` (`MaxPayload`) |
| `Collect`, `CollectEnd`, `KeepAliveEnds`, `Turn`, `Close` | the loop of `handle_stream` |
| `request.app`, `request.ask` | `get_application`; "none" is a request without a route; `ask` is what a request of the observer gateway is for |
| `Call`, `CallFails`, `CallSucceeds`, `Receive`, `ReceiveEnd`, `ReceiveFails` | connecting, writing and reading in `Liberdus::send`, `collector::handle_request`, `notifier::handle_request`, `cold_fetch` |
| `Panic` | the pick of a validator panics in `send`, or the age of a monitor page in a debug build: the connection ends with its request in hand |
| `Retry`, `Resume`, `GiveUp`, `StatusOf` | the three attempts of a validator request, the pause between them, 504 or 500 |
| `Endpoint`, `ValidQuery`, `Admissible`, `LocalStatus`, `AnswerLocally` | `validate_observer_endpoint`, `validate_transaction_query`, and what the gateway answers by itself |
| `NotifyBridgeout`, `told`, `Post`, `PostFails` | `handle_notify_bridgeout`: the answer, and the task that then posts to one observer after the other |
| `rr`, `NextIndex`, `OthersRound` | `OBSERVER_RR_INDEX`, advanced by this connection and by others |
| `TransactionGet`, `AskedNext`, `ObserverFails`, `ObserverAnswers`, `ObserverBreaks`, `ObserversFail` | `forward_transaction_get_to_observers`, over the observers rotated by `observer_urls_round_robin` |

The four forwarding handlers are the same machine up to the retries and the
choice of 504 or 500, which is why they are one set of actions. Which validator
`Call` reaches is NodePool's subject, whether the monitor calls at all is
MonitorCache's. A connection is modelled by itself; of the others it sees only
that they turn the observers' index. `told` counts, per request, the observers
its bridge-out was posted to, and goes on when the connection is gone.

`Exchange.tla` is what such a connection promises, without its messages, reads
and servers: a request is taken when none is in hand and none is owed an answer,
sent on within its budget (three times for a validator, once for the other
servers, to each observer for a transaction), answered at most once, and reported
as timed out (504) only when the budget is used up; it is left unanswered only
for a client that is gone, when an observer's body breaks (`Frail`), or when the
connection breaks over it (`Crashing`: a validator's or the monitor's request,
whose handlers can panic). The connection implements it by: `current` = the request while a handler has it
(`Busy`), `open` = the task has neither ended nor panicked (`Ended`), `sent` =
the servers asked for it, `last` = the status of the last answer.

### WsConnection

`WsConnection.tla` models the websocket server: the accept loop with its counter
and, per connection, the task that runs `handle_stream`, the reader and the
heartbeat. What a request does to the subscriptions is in Subscriptions; here it
is a call that takes its time (`Request`, `HandleEnds`). The counter belongs to
one `Stats`, which `main.rs` gives to both listeners: the HTTP connections
(`HttpConns`) are here as far as they count in it. One whose handler panics never
gives its count back, so that what `main.rs` displays as "Active Connection
Streams" may be too high: `CountsLive` says by how much.

| Model | Code |
|---|---|
| `Accept`, `HandshakeFails`, `Handshake` | `listen`: the counter, TLS and the websocket handshake; the entry in `sock_map`, the two tasks spawned |
| `generate_uuid` | an id is a function of the nanosecond: two connections may get the same |
| `InvalidJson`, `Request`, `HandleEnds`, `HandlePanics`, `Reply` | the reader's text messages and `rpc::handle`; a send into a channel nobody receives from panics |
| `Pong`, `CloseFrame`, `CloseEnds`, `ReadEnds` | the reader's other messages; the entry is removed and the map kept locked while the manager forgets the socket |
| `Receive`, `Lock`, `Write`, `WriteFails`, `NoSenderLeft`, `End` | the receiving loop of `handle_stream`, its mutex on the write half, its end |
| `Check`, `LockHeart`, `Ping`, `PingFails`, `HeartCloses`, `Cancel` | the heartbeat: `Elapsed` truncates both instants as `as_secs()` does |
| `HttpAccepts`, `HttpEnds`, `HttpPanics`, `http` | a task of `http::listen`: it counts itself, and gives the count back at its end, which a panic does not reach |
| `Tick`, `silent`, `slept`, `phase` | time: since the last pong, since the heartbeat went to sleep, within the clock's second |

### ArchiverDiscovery

`ArchiverDiscovery.tla` models how the proxy starts and keeps knowing archivers:
`ArchiverUtil::new` and `discover`, the loop over the archivers in
`update_active_nodelist`, and `main` with its two tickers, from process start to
process start: a crash may fall between any two steps, and the cache file
survives it.

| Model | Code |
|---|---|
| `Start`, `Listen`, `boot`, `inherited` | `new` removes the cache file, or goes on with it if that fails: the history variable `inherited` says that the file is still that of an earlier process; `main` runs a discovery and an update, waits for a first validator, opens the listeners |
| `Base`, `Discover`, `Answer`, `AnswerFails` | `discover`: cached archivers and seeds are asked at once; a valid answer enters its list, anything else nothing |
| `Before`, `SortByKey`, `Dedup`, `Merge`, `Finish` | the merge in the order of arrival: `sort_by` is stable, so the n-th entry of its result is the one with n - 1 entries before it; `dedup_by` compares neighbours; the list replaces the active one, also if it is empty |
| `Create`, `WriteAll`, `WriterPanics`, `file` | the task that writes the cache: it truncates, then writes, and may overlap with the next one |
| `Update`, `Fetch`, `FetchFails`, `NobodyLeft`, `FetchPanics` | `update_active_nodelist`, one archiver after the other; a body that breaks off panics the task |
| `Crash`, `Calm` | the environment: the process dies; from some time on archivers answer well and nothing crashes |

What a list of validators does to the pool is NodePool's subject: here it is only
whether there is a validator (`filled`).

## 3. Runs

Twelve runs, each under five minutes with two workers.

| Run | Expect | What it shows |
|---|---|---|
| `races` | pass | two senders and the refresh task in every interleaving: weights, list and picks are right unless a refresh met a pass, and only then is an index out of range |
| `refresh` | pass | one sender, filtered lists of four, slow and failing calls, three refreshes: the inductive invariant `Inv`; a filled pool is never emptied |
| `PreparedPoolHasWeights` | violation | a pass that spans a refresh leaves the pool prepared without weights |
| `BiasIsNormalised` | violation | a slow answer makes a bias negative |
| `updates` | pass | two subscribers, two callbacks, repeated timestamps: `Inv`, nobody is notified twice, the manager implements the registry |
| `cleanup` | pass | reader, heartbeat and callback of one socket clean up at the same time: maps agree, a closed socket is forgotten, the locks deadlock nobody, also while a lookup never ends |
| `TimeoutUnsubscribes` | violation | a subscription in hand is entered after the heartbeat has unsubscribed the socket and stays |
| `monitor` | pass | answers are younger than a lifespan, a client's pages do not go back unless fetches overtook each other, a fresh page spares upstream the request |
| `requests` | pass | two requests of every kind, in any pieces, with failing servers and observers: whole messages, bounded buffers, the abstract `Exchange` implemented, an answer to every request unless its task panics or an observer's answer is broken, an end for abandoned connections, every observer asked before a round fails, every accepted bridge-out posted to all of them |
| `CollectsDeclaredBody` | violation | a response cut in its declared body is relayed as success |
| `websocket` | pass | three tasks and their heartbeat: frames never mix, no client is dropped early, the heartbeat of a silent one ends, a Close frame ends everything, no reply stays, a client that is read and written to has its sender in `sock_map`; the counter of both listeners is the number of connections whose task has not ended and of the HTTP connections that panicked |
| `archivers` | pass | rounds nobody answers, torn and overlapping cache files, a file that cannot be removed, crashes: the inductive invariant `Inv`; the merge is right for any order of arrival, no archiver of an earlier process gets into use, the seeds are always asked, the list fills and stays full, the listeners open |

Every property of a passing run has a mutant: a definition whose name carries an
underscore suffix is the plausible bug that this property must notice.

### Bounds, and why they are enough

* NodePool: the races need one refresh to spoil and a second to repair or to
  spoil differently (`MaxRefreshes = 2`), a list that shrinks and one that grows
  (`MCLists`), and two passes. `refresh` adds what two senders made too large:
  the filter, retries (`Attempts = 2`), round trips at and over the time-out and
  a third refresh. `IndexCap` is above the longest list, so that the round robin
  ends. `NotSpoiledForGood` stops `races` at a spoiled pool that no refresh can
  clear any more: from there each of its properties holds by its `~raced`
  antecedent, but for `TypeOK`, which `refresh` checks as a part of `Inv` and
  without the constraint. What a stale list does after the last refresh is
  therefore not explored in `races`; `NeverEmptied` in `refresh` and the proofs
  are about it. `SenderSymmetry` is sound: senders are only compared for
  equality and no property is a liveness property.
* Subscriptions: `updates` has two sockets on one account and two callbacks, the
  smallest system in which a callback can overtake another and an account can
  keep a subscriber while another leaves; `cleanup` has one socket with two
  accounts, so that `unsubscribe_all` takes two steps. Two timestamps (0 and 1)
  and `MaxUpdates = 2` give a repeated one. Deadlock is not checked: a socket
  identifier serves one connection and is never used again, so that every
  behaviour ends. A reader that waits for an account may wait for ever.
* MonitorCache: two clients, a lifespan of none and of one tick, four instants,
  one step back of the clock, two versions of a page. `OneRoute` looks at one
  route at a time; a step for one route neither reads nor writes what belongs to
  another, the clock apart.
* HttpConnection: heads of two units, bodies of none, two and four, reads of up
  to two units, a limit of three, so that a message can end within, at and
  beyond the limit; three attempts as in the code; three observers, the fewest
  whose rotation differs from swapping two; and two requests (`MaxRequests`),
  since what the second can inherit from the first is the question.
* WsConnection: two connections and two ids, so that ids may collide or not; one
  of the connections (`Lasting`) sends a request and outlasts heartbeats, the
  other is over before its heartbeat wakes. An interval of one second with two
  instants in it (`Interval = 1`, `Ticks = 2`) is the smallest clock in which
  truncation can add a second that has not passed; `MaxRequests = 1` puts a
  reply in the channel while the heartbeat wants the write half. Deadlock is
  not checked: connections end and none comes back. The constraint `OneBeside`
  has either the second websocket or an HTTP connection beside the first, not
  both: an HTTP connection touches nothing but the counter, and `Counts` is
  proved for any number of either kind. What leads out of the constraint is an
  `Accept`, which has no fairness.
* ArchiverDiscovery: one seed; two lists an archiver may answer, which share a
  key, differ in its address and are not sorted; two writers of the cache file
  (`MaxWriters = 2`), the fewest that can mix. Deadlock is not checked: the model may stop at a process that waits for archivers that never end their
  answers.

### Fairness

* `Subscriptions!FairSpec`: weak fairness of each reader, heartbeat and callback
  once it works (`Progress`). The runtime polls every ready task, and tokio's
  `RwLock` hands the lock on in order. Nothing is assumed of clients, validators
  or the collector: messages and updates may stop coming at any point, and
  `SetStates`, which needs the account from one of them, has no fairness, for
  neither way to ask has a time-out (`collector.rs:169`, `liberdus.rs:608`).
  `Settles` says nothing of a reader that waits there.
* `HttpConnection!FairSpec`: weak fairness of `Serve`, what the connection's own
  task does when polled. Connecting and writing upstream end because the code
  gives them time-outs. Reading from upstream has none, which is why
  `EveryRequestAnswered` and `LeftConnectionsClose` assume `UpstreamFinishes`
  openly. The keep-alive timer is not needed for either and gets no fairness.
  `Forwarding` is weakly fair because a post to an observer has a time-out.
* `WsConnection!FairSpec`: weak fairness of what a ready task does next, strong
  fairness of taking the write half (`Lock`, `LockHeart`), since tokio's mutex
  serves in order of arrival and the two tasks take turns. That `Write` and
  `Ping` end assumes a client that reads, for the code gives writes no time-out;
  handshakes, messages and validators may never come.
* `ArchiverDiscovery!FairSpec`: the tickers tick and the runtime polls. That an
  archiver answers is only assumed in calm times, because the requests to
  archivers have no time-out; nothing is assumed of crashes.

## 4. Proofs

| Module | Theorems |
|---|---|
| `NodePoolProofs` | `FilterKeepsNodes`, `TypeCorrect`, `Invariance`, `WeightsFit`, `Fresh`, `HandsOut`, `IndexInRange`, `NeverEmpty`, `RangeNotEmpty`, `SomeReachable`, `PassHasOrder` |
| `SubscriptionsProofs` | `Invariance`, `TypeCorrect`, `Agreement`, `Forgotten`, `NoRepeats`, `Implementation` |
| `MonitorCacheProofs` | `Invariance`, `Young`, `Monotone`, `SparesUpstream` |
| `HttpConnectionProofs` | `Invariance`, `TypeCorrect`, `Bounded`, `Whole`, `Asks`, `Implementation` |
| `WsConnectionProofs` | `Invariance`, `TypeCorrect`, `Counts`, `Exclusion`, `Registered`, `NotEarly` |
| `ArchiverDiscoveryProofs` | `MergeIsMerge`, `Invariance`, `NoStrangers`, `SeedsAreAsked`, `RoundsMerge` |
| `Induction` | the lemmas `LeastElement`, `SetInduction` and `StableOrder`, used by `NodePoolProofs` and `ArchiverDiscoveryProofs` |

Every invariant and every action property that a passing run checks is stated by
one of them, and so are both refinements.

They hold for any numbers of validators, senders, lookups, sockets, accounts,
callbacks, clients, observers, archivers and writers, any lists, messages, sizes, bounds and times
that satisfy the assumption declared in each module (`NodePoolAssumption`,
`SubscriptionsAssumption`, `MonitorCacheAssumption`, `HttpConnectionAssumption`,
`WsConnectionAssumption`, `ArchiverDiscoveryAssumption`) and what the theorem itself states. `NeverEmpty` assumes `AnswersListSomeone`: the
filter leaves something of every archiver's answer. `FilterKeepsNodes` says when
it does: the answer is not empty, and `min_nodes_for_filtering` is at least the
number of nodes removed from the young end.

*NodePool.* `WeightsFitList` and `ListIsFresh` are not inductive: a task may hold
a copy of a list that a refresh then replaces. `Unspoiled` adds what the tasks
hold: while no race is recorded, every copy in hand lists the validators of the
last refresh and has the length of the pool's list, and between the two stores
of a refresh no task holds a copy at all. `TypeOK` and `TaskData` are proved
first, for both kinds of tasks; then `Unspoiled`, refresh steps and request steps
apart. A pass may rank the list in any order that sorts it; the invariant needs
only that it is a permutation (`RankedList`), and `PassHasOrder` that there is
one, so that the step is never blocked.
`RangeNotEmpty` is about a sum over a sequence: `Cumulative` folds the first
increments, and `CumulativeIsSum` says that the fold is their running sum, by
induction over how many there are. `TotalNotNegative` follows when no bias is
negative, which is so unless a round trip exceeds the time-out
(`BiasType`). A positive total then leaves the pick an index
(`SomeReachable`), so that a range is empty only after a late answer.

*Induction.* The induction over lengths that these proofs need is carried out on
sets: the set of the counterexamples among the numbers up to n has a least
element if it has any (`LeastElement`, from the library's theorem on well-founded
relations, which takes a set and no operator), and the property of its predecessor
excludes it (`SetInduction`). `StableOrder`: for any keys of n entries there is a
permutation that orders them by key, equal keys in their order.

*Subscriptions.* `Inv` adds to the agreement of the maps what a closing reader
has still to remove (`Closing`), and that carried timestamps differ and are not
ahead of the stamp of their account (`Once`). Agreement is preserved because
every write of the maps is one of `Put`, `Drop` or a stamp of a followed account.
`Implementation` maps each write to a step of the registry or to a stutter;
`Closed` never shrinks because no action leaves the label "closed".

*MonitorCache.* `Inv` needs the ages of the payloads in hand and in the cache
(`Ages`) for `AnswersYoung`, and for `ClientsMonotone` the order of the pages of
a route that no fetch has overtaken: what a client has seen, what is in the
cache and what is in hand, each at most the next (`Ordered`). Types and ages do
not depend on the order, so they are proved first and the order after them, one
lemma per part.

*HttpConnection.* `Inv` says how much of a message is there at each stage
(`Framing`), how many servers have been called (`Counting`), and that a round
has asked the first observers of its rotation (`Round`). The lemma `Steps` lists
what a step can do apart from what it answers; each part is preserved under that
list. `RelaysWhole` is inductive beside it (`RelayStep`). For the rotation,
`RotationInjective` and `RotationCovers` say that `s, s + 1, ...` modulo the
number of observers visits each of them once; `Asks` follows, for any number.
`Implementation` maps every step to a step of `Exchange` or to a stutter. It
needs what the other parts do not say (`Engaged`): a handler has a request only
while its answer is owed, a client sends none while one is, and the calls made
are within the budget of the request, so that a handler that gives up has used
it up (`FailSettles`).

*WsConnection.* `OneWriter` is not inductive: `Locked` says that whoever writes
holds the write half. The counter is the sum of the sizes of two sets, the live
websocket connections and the HTTP connections that have not given their count
back (`Counted`); they are finite because each step adds at most one connection,
however many there may be. `Registered` needs that an id is given once, at the
handshake (`Opened`), and that the entry stays until the reader closes or the
socket's id is given to another (`Entry`). `NotEarly` is arithmetic: a quotient
above the interval (`Quotient`) leaves no room for the truncated second.

*ArchiverDiscovery.* `MergeIsMerge` is about the list alone. The entries that go
before entry i (`Before`) are as many as its place in the stable order less one
(`OrderByRank`), so the counting in `SortByKey` finds that order, for which
`SortFacts` says what is kept. `DedupFacts` says of every prefix what
deduplication has kept of it (`KeptOf`), by induction over its length: among
sorted neighbours, the first of each key. Addresses are replaced at the end
(`MergeElements`). `RoundsMerge` and `SeedsAreAsked` follow with the types.
`OnlyNamed` is not inductive: a list that waits to be merged or written gets into
use or into the file later. `Inv` adds that these hold only named archivers too
(`EverythingNamed`), and, so that a new process starts with nothing of the old
one but a file it could not remove (`inherited`), that a process that is down
runs nothing (`NothingRuns`).

Only model-checked: liveness under fairness (`Settles`, `EveryRequestAnswered`,
`LeftConnectionsClose`, `BridgeoutsForwarded`, `ClosedEnds`, `SilenceIsNoticed`,
`RepliesLeave`, `Recovers`, `Serves`), which is beyond the prover, and the four
properties that the code violates, whose counterexamples TLC shows.

## 5. Findings

* A pass of `prepare_list` that spans a refresh sets the flag for a list whose
  weights were cleared: after the round robin every request misses until the next
  refresh, contrary to `liberdus.rs:288` (`PreparedPoolHasWeights`).
* A round trip above the time-out makes a bias negative, contrary to
  `liberdus.rs:192` (`BiasIsNormalised`).
* A subscription that waits for its validator during the heartbeat's
  `unsubscribe_all` outlives it, contrary to `subscription.rs:129-131`
  (`TimeoutUnsubscribes`).
* `collect_http` takes the end of the stream for the end of the declared body,
  contrary to `http.rs:66-67` (`CollectsDeclaredBody`).
## 6. Not modelled

* Values: JSON shapes, header rewriting, the mathematics of signatures (one is
  valid or not), the spelling of queries and routes, the gateway's filter of an
  answer by time stamp; a page, request or response is a member of a small set.
* The TLS handshake of `http::listen`, logging, the display of `main.rs`,
  `stream.rs`: pure input and output, or read by nobody.
* `config.rs`, `tls.rs`, `crypto.rs`: read once at start, or calls of a library.
* The query helpers of `collector.rs` (`get_transaction`, `get_receipt`,
  `insert_field` and their like): they build and read values and keep no state.
* Clients that stop reading (no write has a time-out), archivers that never end
  an answer, and pipelined requests, which the code documents as unsupported:
  the code gives no bound that a property could state.

## 7. Plan

Everything the first plan named is modelled. What would come next:

1. a composition of WsConnection with Subscriptions, in place of the call that
   takes its time, and a proof that what each promises is kept in it;
2. a composition of HttpConnection with NodePool and MonitorCache, so that
   `Panic` happens where those modules say it does;
3. an abstract specification of the validators' pool that NodePool implements
   while no refresh meets a pass.
