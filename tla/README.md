# A formal model of cyphalpp

TLA+ modules, TLC configurations and TLAPS proofs for `src/`, a C++ implementation of Cyphal/UDP
with back ends for Boost.Asio, Qt and Python's asyncio.

## The system

| Component | State it keeps | Operations | Interacts with | What makes it correct |
|---|---|---|---|---|
| Node, `CyphalUdp` (`include/cyphalpp.hpp`) | address, sender socket, subscriptions, node-wide `transfer_id_`, one serialization buffer | `setAddress`, `subscribe*`, `unsubscribe`, `sendMessage`, receive pipeline | sockets (callbacks), user handlers | a handler runs for the transfers it subscribed to and for no others; handles stay valid; after `setAddress` everything listens and answers at the new address |
| Service callers (same file) | pending calls with a timer each, a response subscription, a sender socket | `call`, response handler, timeout, destruction | node, timers, server, other callers of the same port | each accepted call gets one outcome, its own, and gets it eventually |
| Back ends (`asio/`, `qt/qt_cyphal_udp.cpp`, `pybind/cyphalpypp`) | bound sockets, pending timers, transmit queue (asyncio), rebind timers (Qt) | bind/listen, write, single-shot timers, destruction | event loop, operating system | destroying an object ends its callbacks |
| Addressing (`include/cyphalpp.hpp:62-171`) | none | transfer to address and port, and back | node | the two directions are inverse where the widths allow |
| Registers (`include/cyphalppregistry.hpp`, storages) | register list, flags, file | get/set/list over services, load/save | node services, file system | remote nodes change registers that exist and create none; list and access agree; what was saved is what is loaded |
| Register handles (`cyphalppregistry.hpp:194-671`, `qt/Registry/Register`) | a name and a copy of its value, per handle | open, assign, read as a type, change in place, destroy | storages, other handles, remote nodes | a handle that nobody wrote past holds what is stored, and can be assigned to |
| Conversions (`qt_cyphal_register_values_as_qvariant.cpp`, `cyphalppboostjsonregistry_impl.hpp`, `qt/Registry/Convert`) | none | register values to and from `QVariant`, JSON and C++ types | storages, handles, table of a remote node | what a file held comes back; every item fits its kind; two readers of a value agree |
| `NodeRegisters` (Qt) | rows, access queue, two "in progress" flags | list walk, access queue, edits | two service callers, timers | the walk ends, lists every register once, answers go to the row they were asked for |
| `NodesHealthModel` (Qt) | rows with heartbeat, info, offline timer | heartbeat, GetInfo answer, offline timeout | node, service caller | a node is shown as what it last said, offline nodes are recognised, info is eventually fetched |
| Registry v2 (`qt/Registry/Network`) | handlers per router, the node that is served | route, acquire, access, list | node services, QSettings | an access reaches the register that is listed under its name; a walk of the list misses nothing |
| Heartbeat publisher (`include/cyphalppheartbeatpublish.hpp`) | a timer, start time | publishes and restarts its timer | node, timers | heartbeats go on as long as there is a network |
| File server, remote registry stub, uzel (Python) | none, or not usable | request/answer | node | not modelled, see below |

One event loop runs all of this (the README of the repository calls the library "inherently
single-threaded"), so the hard behaviours are not data races. They are orders of callbacks: a response
against the timeout that is already queued, a handler that runs after its object was destroyed, a
response that reaches another socket on the same port, a lost request whose error path does not reset a
flag, a node that restarts while its datagrams are still under way, a file that is rewritten while it is
being read.

## The modules

| Module | Models | State and actions against the code |
|---|---|---|
| `ServiceCalls` | both kinds of service caller, their timers, the shared response port, the server, the network, restarts of the client (`cyphalpp.hpp:471-706`) | `pending` is `calls`; `timer` is the timer inside each stored call; `Call`/`CallNotSent` are the two ends of `operator()`; `Receive` then `AcceptResponse`/`RejectResponse` is the subscription's socket and handler, one datagram at a time on Boost.Asio, a batch on Qt, which the event loop does not leave before its end (`EventLoopIsFree`); what is left of it for a destroyed caller is `LateReceive`; `Expire` then `Timeout` is the timer's; `Destroy` is the destructor |
| `CallOutcomes` | what `prepareServiceCalls` promises, abstractly | refined by `ServiceCalls` |
| `Addressing`, `Datagram` | `MessageAddr`, `DataSpecifier`, `NetworkAddress` with their bit fields and 16-bit casts; one datagram between two nodes | an address is its three fields; `FromDataSpecifier` and `FromPacket` are the two conversions, with the truncations the code makes |
| `CyphalNode` | subscriptions, handles and the memory behind them, the receive pipeline on each of the three libraries, `setAddress`, also from inside a handler, and sockets that are destroyed while the event loop still has something of them | `sub` is `subs`, each object in a slot of memory that is used again; what the library holds between a datagram's arrival and its handler is `queued[s]` (Boost.Asio: `Complete` then `HandleReceiveFrom`) or `batch[n]` (Qt: `ReadyRead`, `HandleNext` per datagram, `ReadyReadEnds`), nothing on asyncio (`DatagramReceived`); a handler that runs is `running[n]`, and what it calls are the actions between its start and its `Return`; `CallOrphan` is the event loop that calls a destroyed socket |
| `Transfers` | what a network of nodes promises a handler, abstractly | refined by `CyphalNode` |
| `RegistryStore` | `StdStorageRegistry` with its binary and JSON files, and `QSettingsRegistry` | `values` and `names` are `values_` and `names_`; a load is one step per register, because each passes through `set()`, which may save; a save completes, is cut short or never opens the file |
| `Registry` | the two register services on a node, `NodeResetter`s | `serving` is `state_->uc_`; nodes and resetters are variables of nested scopes |
| `DurableMap` | what a storage promises, abstractly | refined by `Registry` |
| `NodeRegisters` | the Qt table of a remote node's registers | `queue` is `accessQueue`, `rows` is `values`; the handlers of the two callers and of the two timers are an action each |
| `NodesHealth` | the Qt table of nodes, their heartbeats, GetInfo and offline timers | `nodeData` as in the code, with the timer's progress in `timeout`; time passes in units of a second |
| `RegisterValues` | register values and what conversions make of them: `QVariant`, the JSON of Qt and of Boost, the casts of `ValueConverter` | a value is its kind and its items, each a number of the kind's range; a document is what stands in a file, also one written by hand |
| `Registers` | handles on registers, `Registry::Register` and v2's `Register`, with the file behind them | `handle[h]` is the record `name_`, `val_`, `mutable_`; every way to open, assign, change in place, store and drop one is an action |
| `RegistryRouter` | `RegistryRouter`, `QSettingsStorage` as a handler, `NetworkRegistryServer`, `RegistryNodeAcquirer` | `handlers[r]` is `m_handlers`; `Reached` is `access` followed from the root, `ListAt` is `list`; `WalkOn` is one request of a remote node |
| `Sockets` | a node's sender and one subscription's socket on each back end, the heartbeat that writes to it, an interface that comes and goes | `bound`, `transport`, `queue` are `write_bound_`, `transport_`, `tx_queue_`; the tasks and timers of the event loop are an action each |

`MC*` modules give the constants values (`Sockets` needs none). `ServiceCallsProofs`, `CyphalNodeProofs`,
`RegistryProofs`, `NodeRegistersProofs`, `NodesHealthProofs`, `RegistersProofs`, `RegistryRouterProofs` and
`SocketsProofs` hold the theorems.

How they compose: `CyphalNode` uses `Addressing` for every socket and datagram. `Registry` extends
`RegistryStore`. `NodeRegisters` and `NodesHealth` sit on service callers and take from `ServiceCalls`
what is checked there (a call that was sent ends once, with its own answer or with an error), and
`NodeRegisters` takes from `Registry` that names keep their indexes (`IndexesAreStable`). `Registers` extends
`RegisterValues` and reduces a storage to what its handles see of it; saves that fail are in `RegistryStore`.
`NodesHealth` assumes of a running node what `Sockets` says of its heartbeats (`HeartbeatsReturn`).

Three kinds of variables are not in the code: bounds' counters (`sets`, `stops`, `moves`, `edits`, ...),
what the network holds (`requests`, `responses`, `air`, `answers`), and history variables, each marked
as such where it is declared. No guard of an action reads a history variable.

## What the runs show

| Run | Question | Instance |
|---|---|---|
| `calls_cancel` | Do callers keep their promise where destroying a timer cancels its handler (Qt)? | one caller of each kind, one call per run of the client, one restart |
| `calls_late` | ... and where a queued handler outlives its timer (Boost.Asio)? | one caller of each kind, two calls, no restart |
| `calls_asio_shared` | Is every call answered *or* failed on Boost.Asio? **No** | one call |
| `datagram` | Is a transfer read as what it was sent as? | two subnets, node ids and subjects at the edges of 13, 15 and 16 bits |
| `node` | Do handlers run only for what their node listens to and was meant to get, and do handles keep pointing to their own subscription? | a node on each library, four addresses, three handles, two slots of memory, two datagrams, one copied handle, one change of address |
| `registry` | Is a storage a durable map, and do its services end before their node? | three storages, two names, two values, three changes, two restarts, three scopes |
| `registry_early` | Does a load restore the file, when autosave was switched on before it? **Not in the binary storage** | as above |
| `rows` | Does the table follow the remote list, show current values and settle? | two registers, two edits, one timeout, calls that cannot be sent |
| `health` | Is a node shown online while it is heard, and with current information? | two nodes, two runs of each, an offline timeout of 3 and a call timeout of 1 unit |
| `registers` | Do copies of a register agree with the storage, and do values survive a file? | two handles on one register, either generation, nine values, five documents written by hand |
| `router` | Is what is listed reached, what is reached listed, and does a walk miss nothing? | two storages whose names begin alike, a router in a router, two acquirers of two nodes |
| `sockets` | Do messages keep their order, do heartbeats come back, and are sockets bound again, when the interface was away? | each of the three libraries, an interface that goes as often as it likes |

The two runs that end in a violation each state what a comment of the repository says:

- **`calls_asio_shared`** - `cyphalpp.hpp:683-685` delivers "the result of a call [...] to callback f or to
  ef". `ServiceCaller`'s timeout handler does not look at what `findAndRemove` returned, so on Boost.Asio
  a response and a queued timeout reach both callbacks. `RequestMappedServiceCaller` looks, and is safe.
- **`registry_early`** - `cyphalppregistry.hpp:119`: "load should load values from persistent store". The
  binary `load()` calls `set()` per register, and with autosave on `set()` truncates the file under it.

Five things the code does are worth knowing when a passing property is read, because the property
leaves room for them:

- A node with `loopback` off recognises its own datagrams by the address it has *now* (`cyphalpp.hpp:812`).
  One that was sent before `setAddress` and arrives after it is handled. `ImplementsTransfers` allows it.
- A socket that is destroyed may still be called. On Boost.Asio a completion that is queued runs on it
  (`asio_cyphalpp.hpp:136`), on asyncio its transport stays open (`cyphalpypp.cpp:242`), on Qt the timer that was to bind
  it again fires (`qt_cyphal_udp.cpp:82`). A Qt `readyRead` goes on with what it has read when a handler has destroyed its
  socket or its caller (`qt_cyphal_udp.cpp:32`), and handles the rest for the address the node has by then: `from_packet`
  looks at subnet and port only, so the node answers for an id that it gave up a moment ago. The models take these
  steps. `HandlesOwnTheirSubscription` says that undefined behaviour comes from nowhere else, as long as no handle is
  misused. `ImplementsTransfers` allows such a handler if the transfer was meant for the node when its socket took it
  in, and ends where behaviour is undefined. In `ServiceCalls` a handler that runs on a destroyed caller is recorded in
  `dangling` and changes nothing else; no property rules it out, since it happens on every library.
- `Registry::setNode` returns a `NodeResetter` whose destructor ends the services (`cyphalppregistry.hpp:176`).
  A caller that drops the result is not served at all. `ServedNodeIsAlive` speaks of a node that is
  served, not of one that should be.
- v2's `Register` stores its copy when it is destroyed (`Register.h:37`). A handle that somebody wrote past
  puts the older value back. `FreshHandlesMirror` therefore speaks of handles nobody wrote past.
- After an error the handler of a Boost.Asio socket receives no more, and a heartbeat that cannot be written
  there is the publisher's last; an asyncio socket that lost its transport queues for ever. `HeartbeatsReturn` and
  `SubscriptionsSettle` name these cases and say that there is no other.

### Why the bounds are enough

The races are between few actors. Every mistake of the callers needs one call, its response and its
timeout, or two calls whose ids are confused, or one call of an earlier run. A confusion of subscriptions
needs two slots, one of them used again, and a copied handle. A confusion of transfers needs two nodes,
one address that changes hands, and a datagram sent before the change. A registry needs two names to have
an order, a third change to overwrite, and a second restart to load what a damaged load saved. A copy of a
register goes stale by one other handle. A router is wrong at two handlers that begin alike or at one
register behind another storage's. Each bound
is named where it is declared, and for the theorems below no bound is assumed at all. Each
property was also run against a changed definition (the operators marked "Mutant"), a mistake one could
make at that line, and is violated by it in the same instance.

- `calls_cancel` has the restart, `calls_late` two calls in one run of the client; a batch of two datagrams is in the first
  when an answer of the earlier run is still under way. Both at once take longer than minutes, and the theorems have no bounds.
- `node` has a node on each library and a free address. One assignment of addresses is enough (`MCInit`), since the others differ
  by names. `MCNext` keeps the run to minutes: in one behaviour the Qt node and at most one of the others do something
  (`Pair`); a third handle and copied handles are there only while one node is involved and at most one datagram was sent
  (`Few`); two datagrams are requests or responses, and a request goes to an address that a node which does something has or
  had (`Aimed`); and once the event loop has a destroyed socket, or a handle was misused, nothing new is subscribed and only
  responses are sent (`Restrained`). The confusions of handles need one node and one datagram, those of datagrams two handles
  and two nodes.
- `registers` scales the widths down and keeps their order: 64 bits to 5, 32 to 4, 16 and 8 to 3, and the 2^53 up
  to which a double is exact to 2^3. What matters is which width holds which, and that the widest integers do not fit
  a double.
- `router` has storages of at most two registers (`MaxKeys`); the index arithmetic needs one register behind another
  storage's, and a walk that a growing storage overtakes.
- `sockets` queues three messages (`MaxQueue`) and numbers messages modulo five (`Cycle`), which is more than can be under
  way, so a number tells a message from all others that wait.

### Fairness

- `ServiceCalls`: deadlines pass (`WF` of `Expire`), a `readyRead` comes to its end and a queued completion runs (`WF` of
  `HandleResponse`), and a timer's handler that is queued gets its turn among the batches of datagrams (`SF` of `Timeout`).
  The last must be strong: while a batch is handled no timer fires, and batches may come for ever, but each event loop
  serves its timers and its sockets in turn, between two batches. Nothing is assumed of the network or the server: calls settle even if all is lost.
- `NodeRegisters`: callbacks and timers run, and of a request that is sent again and again one is handled.
  Timeouts are bounded, since a network that loses everything lets nothing settle. `TableSettles` holds
  only if no `call()` fails to send; the code ignores that result, and the table then stops for good.
- `NodesHealth`: time passes, what is due runs, and a running node is heard again and again
  (`HeartbeatPublish` restarts its timer for ever). Nothing is assumed of GetInfo.
- `Sockets`: timers fire (`Beat`, `TryAgain`) and the event loop runs the tasks that create endpoints
  (`ListenerOpened`, `SenderOpened`), all weakly fair. Nothing is assumed of the interface; the properties speak of
  behaviours in which it is there for good at last (`<>[]up`).

`CyphalNode`, `Registry`, `Registers`, `RegistryRouter` and `Datagram` have no fairness: they react and owe nobody
an action.

Runs with `CHECK_DEADLOCK FALSE` are of systems that may stop: every bound is used up and nothing is left
to do.

## What is proved

`tlapm` checks every proof, for all values of the constants under the named assumptions beside them.

- **Callers** (`ServiceCallsProofs`): `TypeCorrect`, `TimersMatchCalls`, `OneOutcome`, `AnswersMatch`,
  and `Refinement`, that every step of the callers is a step or a stutter of
  `CallOutcomes`. The invariant is `IInv`. None of the properties is inductive alone: that a call has one
  outcome needs that a pending call has had none (`PendingCalls`), which needs that transfer ids of one
  run of the process are not given twice (`IdsUnique`) and, where destruction cancels, that a timer that
  can still fire has a pending call (`Timers`).
- **Addresses** (`CyphalNodeProofs`): `ReadsAsMeant` and `MistakesByWidth` over all 16-bit ids and all
  addresses, from lemmas about the port arithmetic (`PortRead`, `PortWraps`) that the two cases of the
  conversion share.
- **Nodes** (`CyphalNodeProofs`): `NodeTypes`, `HandlesOwn`, `ResponsesAnswer` and `NodesImplementTransfers`, from
  `NodeInv`. What a handler is told comes out of an address and a port, so the invariant says what the code leaves
  implicit: the socket of a service is bound at the address its node has now (`SocketsBound`, which one action,
  `setAddress`, breaks and restores), a datagram's destination is its specifier's (`AirAddressed`), what a completion or a
  `readyRead` holds came to the socket of a subscription that is there (`QueuedTrue`, `BatchTrue`; in a batch the address may be
  the one the node had before a handler moved it), and a handler that runs was told what a datagram that was sent says
  (`HandlersTrue`). A match of socket and destination then gives a match of specifiers: a datagram that is taken in is
  taken into the inbox of `Transfers`, one that is handled is handled there, what is destroyed is forgotten.
- **Registry** (`RegistryProofs`): `AlwaysAgree`, from `RInv`, the agreement itself with the types of the
  file and the reader: whatever reaches `set()`, torn files included, has a name. `NodeOutlivesServices`,
  from `SInv`: scopes are left in reverse order, so a served node has the resetter of its services above it.
  `NamesKeepIndexes` is about single steps: `set()` changes a register in its place or appends one. `WritesReach` rests on
  `OnDisk`. `OnlyCreated` and `LoadsRestore` assume that autosave is not on before a binary file is loaded
  (`"binary" \notin EarlyAutosave`); `registry_early` shows that `LoadRestores` fails without it. `Durable` assumes it of every
  storage (`EarlyAutosave = {}`): a JSON storage that saves while it loads leaves a file without the registers it has not set
  yet, when the process ends then. What its load brings back is what the file held, because the file is parsed before the first
  register is set: `LoadsRestore` covers that case, which the run `registry` does not have. The three go together: the names in the file are
  known, and a load that reads as it goes reads the file it opened (`KInv`); memory is the part read so far, each name once (`LInv`,
  where the order in which `QSettings` gives its keys is any that holds the same registers); so the end of a load gives the map
  that was in the file, which is still there (`QInv`), and register by register each step is a `Put`, a `Write`, a `Start`, a `Stop` or a stutter of `DurableMap`.
- **Remote registers** (`NodeRegistersProofs`): `TypeCorrect`, `WalkInOrder` and `FrontUnderWay`, from `NInv`:
  the rows are a prefix of the list because the index that is asked for next is always the number of rows
  (`AskedIsNext`), also while a response is late or a request is repeated. `ShownIsCurrent` needs more (`CInv`): requests
  have numbers of their own, so the answer that is taken is the one to the request under way (`Numbered`); it says what the
  register still holds (`AnswersTrue`); and no name is listed twice, and a queued access has the name of its row
  (`NamesOnce`, `QueueNames`), so that the row that is written is the row of that register.
- **Health** (`NodesHealthProofs`): `TypeCorrect`, `OneRow`, `ShownIsCurrent` and `HeardIsOnline`. The third rests on `HInv`, an
  argument about time: the heartbeat that makes a call also starts the timer of its row, so the timer is
  never older than the call (`CallInTime`), and since `CallTimeout < OfflineTimeout` a row never goes offline
  while its call is under way. What is fetched was therefore fetched since the row is online (`Fetched`).
  `HeardIsOnline` adds `OInv`: the timer of an online row has run exactly as long as its node was silent.
- **Register handles** (`RegistersProofs`): `TypeCorrect`, `Mirrored`, `ReadersAreOne` and `SavedComesBack`. The first needs that every
  conversion ends in the kind's range (`CastFits`, `ToNumberFits`) whatever stands in the file, so that the file
  holds documents is part of the invariant. The second needs that a handle is a full record with its name (`Copies`), and
  that a write marks exactly the other handles of its register (`WriteKeeps`, which every writing action cites; with the types it makes `RInv`).
  `ReadersAreOne` follows from the types: each reader is taken kind by kind. `SavedComesBack` is an action property; it needs
  that a file nobody edited holds what the format writes of the last value that was saved (`SavedTrue`) and that reading
  undoes writing for the values the format can hold (`RoundTrip`).
- **Router** (`RegistryRouterProofs`): `ListedReached`, from `Tree` (routers two levels deep, every register's name a
  sequence that is not empty): a listed name is the names of the handlers on the way and the key, each router takes
  one part away, and where no two handlers begin alike the first one that matches is the one that was listed.
  `NoServiceLeft`, from the same kind of step-by-step argument about acquirers alone. `ReachedListed` and `WalkComplete` are
  about indexes, which are sums over the handlers that come before one. The lemmas `SumsExist`, `SumsTake` and `TotalIs` say
  what such a sum is, by taking a smallest counterexample, since no induction theorem can be used. With them every index below a router's
  size belongs to exactly one of its handlers (`Sizes`), so what has an index is found there. A walk then misses nothing because each
  name it has not come by stands at its index or behind it (`WalkInv`), and a register or handler that is added moves names only
  backwards (`Grown`, `Persists`).
- **Sockets** (`SocketsProofs`): `TypeCorrect` and `InOrderAlways`, from `QInv`: the last message sent, those that wait and the
  next one are consecutive numbers (`InOrder`), and nothing waits while there is a transport.

## What is only model-checked

- Liveness (`CallsSettle`, `TableSettles`, `InfoArrives`, `HeartbeatsReturn`, `SubscriptionsSettle` and the liveness half of
  `ImplementsPromise`, whose safety half is `Refinement`): the prover does not do fairness or `ENABLED`.

Every other property of a passing run, the invariants, the action properties and the refinements, is a theorem.

The assumptions are those beside the constants. The least obvious are in `CyphalNode` (a node's address carries a node id, and
subjects fit in the 13 bits of a group, which `datagram` shows to be needed) and in `RegisterValues` (the widths keep their
order, and a bit is 0 or 1).

## What is not modelled

- Serialization of DSDL types, frames and their checks of version and end of transfer: generated code and
  a few comparisons; a payload is a value. Text, formatting and logging.
- Node: a `bind` that throws in the middle of `setAddress`, with some of several subscriptions on the new address
  (`asio_cyphalpp.hpp:112`); the destruction of a node, or of the two Qt models while they are
  subscribed (`nodeshealthmodel.cpp:244` drops its handle, `cyphalpp.hpp:647` needs a node that outlives its callers):
  all of these are undefined, or end in an exception no caller expects. `DataSpecifier::operator==` compares
  `subject_id` with the other's `node_id` (`cyphalpp.hpp:119`); nothing in the library calls it.
- Sockets: joining of multicast groups.
- Registry: more than 65535 registers, of whose number the binary file keeps 16 bits
  (`cyphalppbinaryregistry_impl.hpp:39`).
- Registry v2: `NetworkRegistryServer::setImplementation`, a server as the handler of a router, copies of an acquirer.
- Conversions: reals that are not whole numbers, infinite or NaN, texts that are not UTF-8, and `NameConverter`, which
  copies characters.
- The heartbeat's uptime, 64 bits of seconds stored in 32 (`cyphalppheartbeatpublish.hpp:45`), begins again at 0 after 136
  years.
- The file server keeps no state: each request is answered from the file system, so there is nothing to interleave.
  `RemoteRegistry` is a stub whose operations return constants.
- `uzel`, the Python package, calls `CyphalUdp()` without an address and `setAddr` (`uzel/node.py:56-60`), and the binding offers
  neither (`cyphalpypp.cpp:384-389`): it was written for an earlier one, and no node of it can be made with this source.
- Templates of the code generator, build files, examples, tests and vendored code.

## What is left to do

The control of every component that keeps state is modelled, and what is safe of it is proved. What would add most next: an
abstract storage that is weaker than `DurableMap` in the one place where a JSON storage that saves while it loads is, and a
theorem that it is implemented whatever `EarlyAutosave` has of that storage; and a node whose `bind` fails in the middle of `setAddress`.
