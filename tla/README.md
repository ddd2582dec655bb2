# Verification of zenoh-rpc

zenoh-rpc (`src/zrpc`, `src/zrpc-derive`) is an RPC framework over Zenoh. A user
writes a trait, the `#[zrpc::service]` macro turns it into a service and a client,
a `Server` serves any number of services on one Zenoh session, and clients find
servers by liveliness tokens and labels. This directory holds TLA+ models of that
system, the TLC runs that check them, and TLAPS proofs about them.

## The system

| Component | State it keeps | Operations | What makes it hard |
|---|---|---|---|
| `Server` (`zrpc/src/server.rs`) | services, labels, `tokens`; in `serve()` a queryable and a local token vector | `serve()`: declare queryable, declare a token per service, move the tokens to the Server, loop: receive, build a future, spawn it | a `?` in the loop ends `serve()` for every client; what each early return leaves declared; tasks outlive the loop |
| generated `Service::call` (`zrpc-derive/src/lib.rs:288`) | the user's state behind an `Arc` | dispatch on the method name, decode the request with `unwrap`, run the handler | panics, under unwinding or `panic = "abort"` (release profile) |
| generated client (`zrpc-derive/src/lib.rs:421`) | session, labels, timeout; nothing between calls | `find_server` (liveliness get, metadata gets, label filter, `pop`), then `call_fun` | everything it knows about servers may be out of date |
| `RPCClientChannel` (`zrpc/src/rpcchannel.rs`) | session, service name | `get_servers_metadata`: one get per session in sequence; `send`, `call_fun`: one get, first reply only | `QueryTarget::All`, timeouts, late replies, payloads that do not decode |
| wire data (`types.rs`, `status.rs`) | - | `WireMessage`, `ServerMetadata`, `Status`, conversions | a response that does not serialize becomes an empty body with status Ok |
| builders (`server.rs:28`, `lib.rs:476`) | the fields of a Server or client under construction | `session`, `add_service`, `services`, `add_label`, `labels`, `timeout`, `build` | some replace, some extend, in any order |
| `service` macro (`zrpc-derive/src/lib.rs`) | the trait parsed so far | `Service::parse`, `RPCMethod::parse`, the attribute, `snake_to_camel`, one generator per item | errors are accumulated; names are made up and may collide |
| `serialize`, `deserialize` (`zrpc/src/serialize.rs`) | - | one of three formats, chosen by a Cargo feature | nothing on the wire names the format |
| tokio runtime and Zenoh channels (external) | worker threads, the bounded channel of a queryable | - | `into_iter()` over a reply channel blocks a worker (`rpcchannel.rs:165`, `lib.rs:548`), and with it the task in that worker's slot |
| `ServerChecker` (`zrpc/examples/check-servers.rs`) | session, service name, labels | liveliness query, metadata, filter by label | the liveliness list may be partial and has a timeout of its own; then one timeout per server, in sequence |
| `service.rs`, `simplified.rs` (`zrpc-derive/examples`) | a counter behind a mutex; a script of calls | each process serves `Hello` and calls it | a process that calls itself; two programs that advertise one name |
| `ZRPCError`, CI | - | conversions | see "Not modelled" |

Components interact through Zenoh only: tokens `@rpc/<zid>/service/<name>`, the
queryable `@rpc/<zid>/**`, gets on `@rpc/<zid>/metadata` and
`@rpc/<zid>/service/<name>/<method>`, and their reply channels.

What has to be true: a call runs its handler at most once, and only on a server
with the service and the labels; an Ok result is the answer to that very call;
every call returns; one client cannot stop the service of another; what is
advertised can be asked for; no path through `serve()` loses a query without the
client learning of it. PROJECT.json lists, line by line, the hazards that
threaten these.

## Modules

| Module | Models |
|---|---|
| `ZrpcWire` | keys, codes, payloads, replies, and `CallResult`, the match in `call_fun` from a reply to the result |
| `Zenoh` | external: queryables, gets (`Get`), dropped and answered queries, timeouts, as `src/` uses them |
| `ZrpcServer` | `serve()`, its tasks, generated `Service::call`, the ways a Server ends |
| `ZrpcClient` | generated clients over `RPCClientChannel`, and applications that use the channel or session directly (`RawClient`) |
| `ZrpcSystem` | the composition, fairness, and all properties |
| `AtMostOnceRpc` | abstract specification: calls, numbered executions, results; no sessions, queries or replies |
| `ZrpcRefinement` | the mapping of the system onto it |
| `WorkerPool` | a process that serves and calls itself on one tokio runtime: who holds a worker thread, calls in tasks and in `block_on`, the slot the woken loop is in, the bounded channel |
| `ServerDiscovery` | one discovery with clock ticks, from the liveliness query on, among servers of several wire formats: `ServerChecker`, and `find_server` with its call |
| `ZrpcBuilder` | the builders of servers and of generated clients |
| `MacroNames` | pure: `snake_to_camel`, the items an expansion declares, its arms, what compiles |
| `ServiceMacro` | the macro at work: parsing argument by argument, errors, attribute, expansion |
| `ZrpcTyping`, `ZrpcRouting`, `ZrpcQueries`, `ZrpcOnce` | theorems about the system, each module on top of the one before: types; where calls go; what becomes of queries and replies; at most once, and the refinement |
| `PoolProofs`, `DiscoveryProofs`, `BuilderProofs`, `MacroProofs` | theorems about the other models |
| `MCSystem`, `MCPool`, `MCDiscovery`, `MCBuilder`, `MCMacro` | values of the constants for TLC |

`ZrpcSystem` composes `ZrpcServer` and `ZrpcClient` over `Zenoh`; `ServiceMacro`
extends `MacroNames`. The other modules look at one aspect each, of the same code,
that the composition abstracts from (threads, time, construction, names, formats),
and leave the rest of it out.

Operators with a suffix, such as `ServeEnds_ForgetQueries`, are wrong
variants of the operator that follows them. No run uses them; each shows, put in
its place, that some property is able to fail.

### How the state corresponds to the code

* `queryables`, `declared`, `held`: the queryable and the vector `tokens`, locals of
  `serve()`, and `Server.tokens`. When `serve()` returns, or its future is dropped at
  one of its awaits (`AbortServe`), its locals are dropped, so `ServeEnds` undeclares
  the queryable, drops the queries in its channel and the local tokens, and leaves
  `held` alone.
* `phase`: where a Server is. `serve(&self)` may be called again once it has ended
  (`DeclareQueryable` from `"ended"`). `"crashed"` is a dead process whose
  declarations Zenoh still holds; `LeaseExpires` ends that. A process that dies takes
  with it the tasks of Servers already dropped (`HasProcess`).
* `inbox[s]`: the channel of the queryable. `tasks[s]`: the spawned tasks; a task
  owns its query and the reply it has computed. A metadata or an unknown query
  has its reply as soon as it is spawned (both are functions of immutable data);
  a service call has `Pending` until `MethodMissing`, `MethodUnknown` or
  `RunHandler`, or dies in `HandlerPanics`.
* `counter`, `executed`: the user's state behind the handlers, in the shape the tests
  use (lock, increment, return what was read), and a history of all executions.
* `open[c]`: the get client `c` awaits: the servers that still hold its query and the
  replies in its channel. The channel is closed when `pending` is empty.
* `pc`, `request`, `ids`, `todo`, `metas`: the awaits and locals of a client method:
  `"collecting"` between the gets of `get_servers_metadata` and before the call,
  `"metadata"` and `"calling"` while one is open. `results` is a history.

One action is what runs between two awaits. `Discover` takes the liveliness query
and the collection of its replies as one step and finds *some* of the sessions
that advertise the service, which covers declarations still on their way (the tests
sleep two seconds for them) and replies that are errors, which the code drops;
`ForeignToken` is the token whose id does not parse. `AbortServe` is the drop of the
future of `serve(&self)` alone. That future borrows the Server, so the Server can only
be dropped once it is gone: aborting the task that owns both, as the tests do, is
`AbortServe` and then `DropServer`. `CloseSession` is the error of `recv_async`.

### Constants

`Outcomes` are what handlers may do: return a value, return something that does not
decode as the response, or return a status. `Requests` gives bodies that decode,
do not decode, or do not serialize. `ZidOf` gives each Server its session.
`Interchangeable` says that Servers of one session have the same services and
labels. Nothing in the code enforces it, since `Server::builder` takes any clone of
a session; it holds when each session has one Server, and when a program is
restarted under a fixed session id (`zrpc-derive/tests/service.rs:57`).

`Cancel` is a caller that drops the future of a call. It can do so only at the await
of `call_fun`: the metadata gets are iterated over without an await, and the
liveliness query is one step here. `TimedSpec` keeps `OneServing`: where two Servers
have one session id, as a program and its successor do, one starts only while the
other does not run, whatever Zenoh still knows of a crashed one.

### The other modules

* `WorkerPool`: `size` is the runtime and the program (workers, capacity of the channel,
  whether timeouts are short enough to fire, which calls are made in spawned tasks),
  chosen at the start. Calls that are not in tasks are made in the `block_on` of
  `#[tokio::main]`, as those of `service.rs` are, on a thread that is no worker. `pc` says
  where each call is; in `Blocking` stages a call in a task holds a worker. `FreeWorker`
  guards whatever runs on the runtime, `Room` whatever puts a query in the queryable's
  channel: a call of the same process does so on its own thread and waits there while
  the channel is full. Putting the first query in an empty channel wakes the loop; done
  on a worker, this puts the loop in the slot of that worker (`slot`), which runs it next
  and from which no other worker takes it. When the query is that for metadata, the
  worker then blocks in `into_iter()` until the timer of the get fires. Liveliness replies
  and timers are Zenoh's and need no worker.
* `ServerDiscovery`: while `"listing"`, replies arrive one by one and end at any time, at
  the latest after `ListTout` ticks, with any part of the sessions that are not gone:
  a session that does not show up stands for an error that was dropped, for a token on
  its way and for a reply that came too late. `health` of a session only gets worse; a
  get ends with the answer of an "up" server, at once for a "gone" one, after `Tout`
  ticks for a "hung" one.
  `popped` is the position in `metas` of the server called, 0 before.
  `answered` and `steady` are histories. `FormatOf` and `OwnFormat` are the Cargo
  features of the programs: metadata of another format is filtered out (`Readable`).
* `MacroNames`: a name is a sequence of characters; a suffix such as `Request` counts as
  one, and `NamesAssumption` keeps letters, digits, marks and suffixes apart.
  `CamelAfter(ident)[n]` is `snake_to_camel` after `n` characters. `Items` are the items that the
  generators of `ServiceGenerator` declare, each in a scope; `Compiles` says that none
  is declared twice and that `Response`, `self.inner.<method>` and the fields mean
  what the generator wanted.
* `ServiceMacro`: one action per argument; `errors` holds the positions of what is to be
  reported (0 is the missing receiver). One method with errors ends the macro.
  `SourcesAssumption` gives the types of what users write, and nothing else.
* `ZrpcBuilder`: fields and a `log` of the calls made, about which `Latest(CallsOf(op))`
  says which call came last; the properties compare fields with the log.

## What is checked

| Run | Instance | Shows |
|---|---|---|
| `two_clients` | 2 servers, 2 generated clients of different services, one call each, all faults | TypeOK, PendingIsHeld, NoPoisonQuery, AtMostOnce, LabelsRespected, OkIsExecuted |
| `two_calls` | 2 servers, 1 client, 2 calls, all faults | ImplementsRpc: refinement of `AtMostOnceRpc` |
| `calm` | 2 servers, 2 clients, 2 calls, no fault | FoundIsReached, AnswersArrive |
| `raw` | 1 server, 1 generated client, 1 application sending every key and body; panics unwind | PendingIsHeld, AdvertisedAnswerable, ServeSurvivesGenerated, CallReturns, Drains |
| `timers` | 3 servers, two of them under one session id, one after the other; 1 client; panics abort | CallReturns, from timeouts alone; AtMostOnce; ImplementsRpc |
| `pool` | 2 calls to itself, in tasks, in `block_on` or one of each, and a remote query; 1, 2 or 3 workers; from one slot to room for all; with and without timers | PoolTypeOK, StuckShape, SpareNeverStuck, LoneWorkerUnserved, OwnSlotStarves, CallsServed, CallsReturn |
| `discovery` | 3 sessions, one of another format, a foreign token, 2 label sets, timeouts of 1 tick for the list and 2 for a get | DelayBounded, UpIsFound, StalenessBounded, NeverMisread |
| `builder` | 2 sessions, 3 services of 2 names, 2 user maps, 4 calls | BuiltAsAsked |
| `macro` | names of up to 4 of 2 letters, a digit, upper case, underscores; up to 3 arguments of 7 kinds, up to 2 methods | RulesSuffice, DispatchRight, AllReported, AcceptedIsWellformed, ExpandedAsWritten |
| `err_code`, `eval_one`, `unknown_call` | small | the three findings |

In words:

* **PendingIsHeld**: whoever a client still waits for holds its query in a channel or
  a task, or has crashed and will be noticed.
* **NoPoisonQuery / ServeSurvivesGenerated**: queries of generated clients never end
  `serve()`. Those of other applications can: an unknown service name does.
* **AdvertisedAnswerable**: a token has a queryable behind it. The exception is in
  the code: tokens in `Server.tokens` outlive a `serve()` that failed or whose future
  was dropped, so discovery goes on finding a Server that cannot answer. The property
  says exactly how far this goes: all the tokens of the Server, only when it had got to
  its loop once, until it serves again, is dropped, or its session ends. A `serve()` cut
  short among its declarations leaves nothing that it declared itself.
* **AtMostOnce**: of a call, to whatever session it is sent. It holds when no two Servers of a session run at once, also when one
  takes over from a crashed one; with two at once it fails (`eval_one`).
* **LabelsRespected**: handlers run only where the client's labels and service are,
  as long as Servers of one session are interchangeable.
* **OkIsExecuted, ImplementsRpc**: an Ok result is the value of this call's own
  execution, whatever replies were late. Handlers may run after the client was told
  that the call failed; the abstract specification says so too.
* **FoundIsReached, AnswersArrive**: on a calm day, in every interleaving of servers
  that start and clients that call, the queryable is there before the tokens, no get
  fails, and results are exactly what handlers answered.
* **CallReturns, Drains**: calls return, and held queries are done with.
* **CallsServed**: a process that makes its calls in `block_on`, as the examples do, is
  served without any timer, by a single worker and through a channel of one slot.
* **OwnSlotStarves**: a call made in a task may wake the loop into the slot of its own
  worker and then blocks that worker. Other workers do not help: the call waits until
  its timeout and fails. So `CallsServed` does not extend to calls in tasks.
* **SpareNeverStuck**: with more workers than calls in tasks, nothing is for ever: what
  is not served is ended by a timer that is still to fire.
* **CallsReturn**: with as many calls as workers, all of them can be blocked on
  metadata that no worker is left to compute; the timeouts end this.
* **StuckShape**: no timeout ends the wait for room in a full channel. The process is
  stuck for good when every worker waits there, since the loop that would empty the
  channel needs a worker. This is the only way, and it needs as many calls of tasks in
  discovery at once as there are workers. (Zenoh's default capacity makes it rare.)
* **LoneWorkerUnserved**: with one worker, a call that a task makes to its own process
  always fails.
* **DelayBounded, UpIsFound, StalenessBounded**: a discovery takes up to the timeout of
  the liveliness query, which the user cannot set, and a timeout per session found;
  hung servers do not hide others that were heard of; what the call knows of its server
  is at most as old as the timeouts of those asked after it. A foreign token whose
  id does not parse fails the discovery for all: `UpIsFound` is about those that end,
  and about the servers on the list. Who is missing from the list is never found.
* **BuiltAsAsked**: of services with one name the last counts, unless `services()` came
  later, whose map is taken as it is, whatever its keys.
* **RulesSuffice**: traits of conventional (`snake_case`, words starting with a letter),
  distinct, untaken method names expand to code that compiles, so no two methods
  share a request type; the macro does not panic on them. **DispatchRight**: whatever
  compiles dispatches each call to the method called, with the type encoded.
* **AllReported, AcceptedIsWellformed, ExpandedAsWritten**: about the parser; see the
  module.
* **NeverMisread**: since a client keeps only sessions whose metadata it can read, its
  requests reach only servers that can read them; with **UpIsFound**, servers of other
  formats hide nobody.

### Bounds and why they are enough

`MaxCalls` bounds the calls of a client and `MaxOps` those of a builder; no other
guard has a bound. One call per client shows every interleaving of two calls. Two
calls of one client are the least that lets a late reply of one meet the other. Two
servers are the least with a choice to make, with different services and labels, so
that a wrong choice is visible; a third is a successor of the first. `RawKeys` holds
one key for each way `serve()` and `service_call` can branch. Four builder calls
suffice for add, replace, add, and one more. Pools have as many workers as calls, one
to spare, or a single one; what holds in them for safety is proved for all sizes.
Names of four characters are enough for two
words with any wrong character between, and three arguments for an error before and
after another. Only session z1 crashes, and the future of `serve()` is dropped by the user only at s1
(`Abortable`): servers differ, but any server may still be dropped once its `serve()` has
ended, and any session closed. In `calm` and the small instances nobody aborts. `ListTout`
is 1 and `Tout` 2 in `discovery`, so that neither can stand for the other. Runs turn deadlock checking off because the system rightly
stops once all calls are made and nobody serves again.

### Fairness

`ServedSpec` (run `raw`): weak fairness for a running `serve()`, its tasks, client
steps, and the lease of dead sessions. Tokio runs ready tasks, handlers are assumed
to return, Zenoh detects dead peers. No fairness for users (to call, to call
`serve()`) and none for faults or timers, so `CallReturns` there shows that no query
gets lost and needs no timeout. `TimedSpec` (run `timers`): client steps and
timeouts only, servers may hang for ever and are restarted or not. Both gets that the client makes on
session keys carry `.timeout(..)`; the liveliness get, which is a single step of this
model, has Zenoh's own default timeout, which `ServerDiscovery` counts.

`WorkerPool`: strong fairness for each call, the loop and each task, since tokio's
queue gives every task that can run a worker although others compete for it, and
flume serves those who wait for room in turn (`WorkersRun`). The loop in the slot of a
worker is in no queue: `ServeTurn` is disabled until that worker is free, whoever else
is. `TimersFire` adds the timeouts, which `Expire` allows only in runtimes with `timers`.

### Findings

1. `err_code`: `call_fun` returns `Err` with a status whose code is `Ok` when the payload
   does not decode (`rpcchannel.rs:122`); its comment promises an error.
2. `eval_one`: "eval goes to only one" (`rpcchannel.rs:102`) fails for two Servers on
   one session; the get is sent with `QueryTarget::All`.
3. `unknown_call`: the comment at `server.rs:184` says internal error, the code
   replies Unavailable.

## What is proved

For every number of servers, clients, sessions, services and calls, from the named
assumptions of the modules (`ZenohAssumption`, `ServerAssumption`,
`ClientAssumption`: the types of the constants):

* `TypeCorrect`: `TypeOK` always holds. It is not inductive: the key of a call is a
  key only because the client still knows which request it is for. `RequestKnown`
  adds that; `TypeInv` is the pair.
* `AdvertisedCorrect`: `AdvertisedAnswerable`, with no assumption on sessions.
  `AdvertisingInv` adds that whoever runs `serve()` has its queryable, that local tokens
  exist only while `serve()` declares (or the process died there), and that a Server
  keeps all its tokens or none. Both ends of `serve()`, by an error and by an abort, and
  a crash after either, keep tokens without a queryable; the property names them.
* `RoutingInvariance`, `NoPoisonCorrect`, `LabelsCorrect`: under `Interchangeable`,
  `NoPoisonQuery` and `LabelsRespected`. `RoutingInv` follows the metadata: replies
  computed by tasks are true (`TasksTrue`), so those in reply channels are
  (`RepliesTrue`), so what clients collect is (`MetasTrue`, `NothingKept`), only from
  sessions that offer the service (`IdsOffer`), so calls are addressed to suitable
  servers (`QueriesAddressed`), which is all a handler ever runs for. The server half
  is one lemma: a server step adds nothing to what a server holds.
* `PendingCorrect`: `PendingIsHeld`, with no assumption on sessions. It is inductive on
  top of `TypeInv`: a get goes to those with a queryable, and from there a query only
  moves from channel to task, or is dropped and with it the claim that its client
  waits. `QueryableInvariance` adds that whoever has a queryable serves or has crashed,
  and that nobody else has anything in its channel.
* `OkCorrect`: `OkIsExecuted`, with no assumption. `OkInv` says that every value, in a
  task, in a reply channel or in a result, was computed for the get it answers, and
  that a client in `"calling"` listens to the get of its current call only
  (`OpenIsMine`); that is what keeps the late reply of a call that timed out or was
  cancelled out of the next one.
* `SurvivesCorrect`: under `Interchangeable`, `ServeSurvivesGenerated`, an action
  property, from `RoutingInv`.
* `OnceCorrect`: `AtMostOnce` of every behaviour in which no two Servers of a session
  run at once (`[]OneServing`). `OnceInv` says in how many places a call may yet be
  executed: the channels of running servers and the tasks without a reply. Of the
  queries there, no two on different servers (`OnePlace`) or on one (`Distinct`) are of the
  same call; none is of a call that was executed (`NotYet`); and there is none before its
  client sends it (`AllSpent`).
  `OnceTimed` and `OnceOwnSession` are its two uses: `TimedSpec`, and a session for
  each Server. `eval_one` shows that the assumption is needed.
* `RpcCorrect`, `RpcTimed`, `RpcOwnSession`: `ImplementsRpc`, every step of servers and
  generated clients is a step of `AtMostOnceRpc` under the mapping or leaves it alone.
  Assumed are `RawClient = {}` (the abstract specification has no applications that
  send queries of their own), `Interchangeable`, and no two Servers of a session at
  once. `CounterInv` (a server's counter is the number of its executions) makes the
  number of an execution the abstract one; the step of a handler needs `OnceInv` (not
  yet executed), that of a returned Ok needs `OkInv`.
* `FoundCorrect`, `AnswersCorrect`: `FoundIsReached` and `AnswersArrive` of `CalmSpec`, in
  which nothing fails, on a `GoodDay`: interchangeable servers, generated clients only,
  requests that survive the wire. `FoundInv` says that a session found stays
  answerable, that servers are asked for what clients mean, and that each get for
  metadata has its answer ahead of it, in its channel, or collected. `AnswerInv` adds
  the same for calls: a caller has its answer ahead of it or in its channel, and what
  handlers and results say agrees; a call refused as unknown has not run and cannot
  run any more (`Refused`).
* `PoolTypeCorrect`, `StuckCorrect`, `SpareCorrect`, `LoneCorrect`, `StarvesCorrect`
  (`PoolProofs`), for any number of calls, in tasks or not, workers and slots. `SlotInv`
  says that the call with the loop in its slot awaits metadata that no task computes;
  what is stuck for good can then only wait for room, and the
  rest is counting. `SpareCorrect` follows from the shape: more workers than calls in
  tasks leave one that no call holds. `LoneCorrect` needs an invariant: while a call
  awaits metadata on the only worker, no task can reply. `StarvesCorrect` follows from
  `SlotInv`: no task can answer it, and the loop that would spawn one is in the slot.
* `DelayCorrect` (`DiscoveryProofs`): from an invariant that the clock is at most `ListTout`
  and `Tout` times the gets closed plus what the open one has waited, and that there
  are at most as many gets as sessions found and one.
* `UpCorrect`, `ReadCorrect`, `StalenessCorrect` (`DiscoveryProofs`), for any number of
  sessions, formats and labels and any timeout. `SearchInv` follows the list of sessions by
  position: whoever of it was up all along is collected once it has been asked;
  whatever was collected is readable and at most one timeout old for each session
  asked after it; and the server called is one of those found.
* `BuiltCorrect` (`BuilderProofs`), for any number of calls. `AskedInv`
  relates the fields to the log: the latest call of a kind decides a field, and a
  service comes from the last `add_service` of its name, or from the last `services()`
  when that is later.
* `ReportedCorrect`, `AcceptedCorrect` (`MacroProofs`): for methods and modules of any
  size. `MacroInv` says that `errors` are exactly the offending arguments read so
  far, that `recv` is "none" exactly if no receiver has been read, and that the
  methods kept are wellformed and those of the trait.
* `ExpandedCorrect`: `ExpandedAsWritten`. `WrittenInv`, on top of `MacroInv`, says that the
  fields captured are the typed arguments read so far, in their order (`Selects`), and
  that the methods kept and the traits expanded are those that were written. That no
  typed argument is lost needs `MacroInv`: patterns are skipped, but a method that has
  one is rejected.
* `CamelInjective`: `snake_to_camel` is injective on conventional names of any length. By
  induction on the characters of one of two names with the same camel form, the loop
  is in the same state on both: the next character of the camel form is upper case
  exactly if an underscore or the start comes before (`Tells`), and what the loop has
  written stays (`LoopExtends`), so neither name can end first.
* `RulesCorrect`: `RulesSuffice`. Names in the module are told apart by their last part
  and what stands before it (`MadeOnce`, which needs `CamelInjective`), or by their length
  from that of the trait (`MadeNew`); fields by `WrittenInv` and the names of the
  arguments. A camel form begins with a capital, so no `format_ident!` panics (`PanicInv`).
* `DispatchCorrect`: `DispatchRight`. If the expansion compiles, the methods of the trait it
  declares have different names, so of the arms exactly one matches.

Induction over data is done without the induction theorems of the library, which take
an operator: `AllNat`, a fact about sets of numbers, follows from the wellfoundedness of
`<` (`NatLessThanWellFounded`, `WFMin`), and so does that the recursive function in
`CamelAfter` exists (`LoopExists`).

TLC finds the inductive invariants of the system (instances of `two_clients`, `timers` and,
with `FoundInv` and `AnswerInv`, `calm`), of discovery, builders and macro to hold in the
instances of the runs. The exception is `LogTyped` in `AskedInv`, which only says that the
log has its type: TLC does not compare arguments of different kinds.

Every invariant and every action property of the passing runs is a theorem, and so is
the refinement. Only model-checked are the liveness properties (`CallReturns`,
`Drains`, `CallsReturn`, `CallsServed`), since the prover reasons about neither ENABLED nor
fairness. The findings are counterexamples of TLC.

## Not modelled

* Two `serve()` calls of one Server at the same time; tokens that still look alive
  after their undeclaration; repliers that are not zenoh-rpc, hence replies that are
  no WireMessage.
* Repeated tokens in `Server.tokens` after a second `serve()`: `held` is a set.
* Bounded reply channels, and pressure of a full queryable channel on other traffic
  of the session.
* `ZRPCError` (`zrpcresult.rs`): conversions without state. Whatever the kind, a caller
  sees a Status of InternalError, which `ZrpcClient` models.
* The examples `service.rs` and `simplified.rs` beyond the shape of their process
  (`WorkerPool`): their scripts of calls and the counter behind a mutex are user code.
  `ZrpcServer` runs a handler in one step, which is what that mutex provides.
* The bytes of a format, the text of messages, the bodies of generated items other
  than those that run (`Service::call`, the client's methods), `derive_ast`, CI.

## Plan

1. Done: the composition with its abstract specification, cancellation and restart;
   pool, discovery with formats, builders, macro; every safety property of the runs
   as a theorem, and the refinement.
2. Open: liveness for every size of the system, should a prover with ENABLED be at hand;
   more than one trait per module in `FollowsRules`, whose names would then have to
   differ in what is generated from them too.
