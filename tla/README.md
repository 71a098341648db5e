# Verification of go-commons

TLA+ models of the stateful and concurrent parts of
`github.com/purposeinplay/go-commons`, the TLC runs that check them on small
instances, and the TLAPS proofs that establish the main invariants for every
size. Source paths are relative to `src/`. `PROJECT.json` lists components,
runs, mutants, the map from definitions to source lines, findings, hazards and
theorems.

## The system

go-commons is a set of libraries; an application uses some of them, and they
meet mostly through the application. What is modelled are the libraries that
keep state between calls, run goroutines, or put calls into an order that has
to be right.

| part | module | what is hard | what makes it correct |
|---|---|---|---|
| `pubsub/pubsub.go` | `PubSubContract` | | abstract: one log per subscription, no gap, a drop ends it |
| `pubsub/inmem` | `InmemPubSub` | receives need no mutex; slow consumers are dropped inside Publish | refines the contract; map exact; no send on a closed channel |
| `blockingqueue` | `BlockingQueue` | takes interleave with Refill's loop | round robin, nothing repeated or lost |
| `pubsub/kafkasarama`, group | `KafkaSaramaGroup` | rebalances, restarts, lost commits, late acks, a racy ready channel | nothing undecided is committed past; Subscribe and Close return |
| `pubsub/kafkasarama`, partitions | `KafkaSaramaPartitions` | partial start, errors, cancellation while sending | order, no gap, no send after close |
| `pubsub/kafka` | `KafkaWatermill` | Close against a blocked send | order; the forwarder ends |
| `pubsublite` | `PubSubLite` | Close call by call, a shared connection, restarts | acked only after the application's ack; the goroutine ends |
| `worker` | `AMQPWorker` | Stop during Start, failing jobs, the semaphore, delays | acked only after success; cancelling closes |
| `httpserver/server.go` | `HTTPServer` | several Shutdowns and a signal, timeouts, the base context | Serve returns when it is drained |
| `grpc`, life cycle | `GRPCServer` | Close against the run group's interrupts, two servers, in-flight calls | both stop together, and only when drained |
| `grpc`, `errors`, `auth`, request id | `GRPCChain` | the order of interceptors, wrapped and joined errors, panics | errors keep their type, failures are reported once |
| `http`, `smartbear`, `sentry` | `HTTPChain` | the order of middlewares, responses written before a failure | what the log says against what was sent; failures told as such |
| `pagination` | `Pagination` | statements without a transaction, writes between them, ties | a listing visits every row once, in order, and ends |
| `value` | `ValueInt` | a `big.Int` copied by value shares its words | an Int changes only by operations on it or with a big.Int it took over |
| `httpserver/signed_cookie.go` | `SignedCookie` | instances with different key rings | cookies survive a rotation |
| `kafkadocker` | `KafkaCluster` | partial failure of Start and of parallel Terminates | what is up can be stopped |
| `psqldocker`, `clickhousedocker`, `rabbitmqdocker` | `DBContainers` | failure after the container exists, a server that boots twice | nothing is left behind |

`GRPCChain` and `HTTPChain` compose components: an error of `errors` goes
through `errorsgrpc`, the interceptors of `grpc`, the transport and the client
interceptor; or through `smartbear` or `http`, the router's recoverer and
logger, and `sentry`. `GRPCServer` composes the gateway, the gRPC server, the
run group and the calls that the gateway forwards. The `*Proofs` modules hold
the proofs, the `MC*` modules the instances for TLC.

## How state and actions correspond to the code

Every program counter (`stage`, `at`, `loop`, `consumer`, `claim`...) is a place
between two statements at which another goroutine, the broker or docker may act.
Libraries outside the repository are modelled from how the code uses them, and
their definitions are marked external in the map: calls may fail wherever they
return an error.

**InmemPubSub.** `channelsSubs` is the Go map as a function on its keys, `c[s]`
the buffer of a subscription, `listening[s]` a consumer parked in a receive.
Publish is one step per channel and one per subscription; Subscribe and
Unsubscribe are single steps under the mutex. An event is its publication
number. The refinement maps the contract's log to what was received, what is
buffered and what the publisher in its loops still owes (`Owed`); a Publish
takes effect when it takes the mutex.

**BlockingQueue.** An element is its index in the slice. Each turn of Refill's
loop is a step; Take is a call followed by an element or a cancellation.

**KafkaSaramaGroup.** The goroutines are the caller of Subscribe, the Consume
loop, a claim per partition, the application and the caller of Close. Ready
channels are numbered, so that reading `consumer.ready` and waiting on it are
two steps. `acker[p][o][n]` is the acker of an offset in a session; late calls
are possible until the process ends. Marks are a high-water mark and a commit
may be lost. The group starts with a committed offset, as with
`Offsets.Initial = OffsetOldest`; other members of the group commit nothing.

**KafkaSaramaPartitions, KafkaWatermill.** One program counter per goroutine; an
unbuffered channel is a rendezvous with the application. In `KafkaWatermill` a
send on a closed channel ends the process.

**PubSubLite.** A message is at one `place`: in the queue, buffered by the
client, with the goroutine, acked. A channel that closes, for whatever reason,
puts the unacked ones back. Close is three steps (Cancel, channel, closing
channel), any of which ends it with an error. `consume.autoAck` is false, the
default of the configuration.

**AMQPWorker.** `job[j]` is the place of a job, including delayed, held and
skipped (neither acked nor nacked). `sem` is the number of tokens in the
semaphore, `taken` counts the slots the goroutine took, `filled` those of its
last loop. Stop is called by the application and by the goroutine that waits for
the context of Start. A delay is in milliseconds and is truncated to seconds as
in the code; a negative one makes the broker close the channel.

**HTTPServer.** `server` is Serve's progress, `shutdown[c]` that of each caller
of Shutdown, the signal handler among them. `done` is the channel that the first
Shutdown to return closes. Requests may wait for the base context.

**GRPCServer.** `serve[x]` is the Serve call of each of the two servers, `at[a]`
the progress of each closer: callers of Close and the run group's interrupts.
Load and Store of `closed` are two steps.

**GRPCChain, HTTPChain.** One call goes down a chain that was built from the
options, and its outcome comes up, one interceptor or middleware at a time. A
gRPC error is the sequence of its leaves and whether it is wrapped; an HTTP
error is the set of kinds that `errors.As` finds in it, and its status.

**Pagination.** `stage` is the statement that ListItems runs next; others write
between any two. The client takes the page and asks for the following one until
none is announced. A cursor is a row's key and id; what does not survive its
encoding (the zero time, an id with a colon) is refused.

**ValueInt.** `heap` holds the words of the big.Ints; `int` and `big` are sign,
length and slice.

**SignedCookie.** An HMAC is the triple it was computed from.

**KafkaCluster, DBContainers.** `up` and `live` are what docker runs, `ref` what
the Go value refers to. The history variables `lost`, `leaked`, `overlapped` and
`unstopped` name what the properties except.

Definitions marked "Mutant of" state plausible mistakes in the code; replacing
the definition by its mutant violates the property it is listed with.

## Runs

Components share no state, so four MC modules check several each: `which` is
chosen once and only that component takes steps, so the state space is the sum
of the components', not the product.

| run | components | distinct states |
|---|---|---|
| `pubsub` | in-memory broker with a buffer of one and with none, a group of one partition with two messages and a failing Consume | 254,663 |
| `consumers` | queue, group of one partition, partitions, watermill, pubsublite, AMQP worker | 54,702 |
| `lifecycles` | HTTP server, gRPC server, Kafka cluster, containers | 140,490 |
| `requests` | gRPC chain, HTTP chain, pagination, Int, cookie | 420,857 |

Each property is stated in its component's module; the MC module extends one
component and names the properties of the others again. The safety and refinement properties
are about every interleaving of the instance. The ones that say the most:

- `KeepsContract`: with and without a buffer the in-memory broker refines
  `PubSubContract`: order, no gap, a subscription is dropped only when it is
  behind, and what it had in its buffer stays readable.
- `NothingSkipped`, `AckedByApplication`, `AckedAfterSuccess`: at-least-once, in
  the three consumers that ack, across restarts and lost channels.
- `GroupCloseTerminates`, `CloseTerminates`, `CloseEndsLoop`, `ForwarderStops`,
  `CancelCloses`: what is told to stop stops; the exceptions in the statements
  are the ones the code has.
- `ReturnedIsDrained`, `StopsTogether`, `RefusedByGroupOnly`: a server that
  returned is drained; a Close alone never stops gRPC under the gateway.
- `CleanStop`, `StoppableWhileUp`, `NothingLeftBehind`: partial failures of
  Start and Stop leave only what the history variables name.
- `ErrorsKeepTheirType`, `FailuresReportedOnce`: for every chain of
  interceptors.
- `ErrorsSurface`: the caller is answered OK exactly if the call succeeded, or if
  it was cancelled and the chain converts errors.
- `RequestIDPassedOn`: one id that came in goes out once; twice if the request id
  interceptor is inside context propagation.
- `LoggedStatus`: the logged status is the one sent if the response passed the
  logger's writer; in the other cases it is 0, and the property says what was
  sent instead.
- `FailuresAreTold`: an error or a panic that nothing was written before is not
  answered with success, unless the error's type has no status or the Sentry
  middleware swallows the panic first.
- `EveryRowVisited`, `OrderedVisit`, `ListingEnds`: a listing under writes.
- `OwnWords`: an Int changes only by an operation on it; one that
  `NewIntFromBigInt` built, or a copy of it, also together with a big.Int that
  has its words, and with nothing else.

Some of these state exactly what the code does where a reader may expect otherwise:

- A cancelled call is returned by the converting interceptors as a nil response
  with a nil error (`grpc/grpc_server.go:337` and `:426`, `grpc/server_2.go:64`
  and `:123`); grpc-go answers it with OK and an empty message. It is the only
  failure that is answered so (`ErrorsSurface`).
- In the default router the Recoverer is outside the logger
  (`http/router/router.go:61`): a panic is logged with status 0 while the client
  is sent 500, against the comment at `http/structuredlog.go:93`, "chi calls this
  and Write (with status 500)". With the Recoverer inside the logger 500 is
  logged (`LoggedStatus`).
- A panic behind the Recoverer is no 500 if the Sentry middleware is inside it,
  and an error whose type has no HTTP status need not be told as a failure
  (`FailuresAreTold`).

The runs below are violated; each is a finding, and states what a comment or a
test of the repository says. They were found in the models and have not been
reproduced against a running system.

| run | what the counterexample shows |
|---|---|
| `group_hang` | a Consume that fails before Setup makes the loop replace `ready` while Subscribe waits on the old channel: Subscribe hangs |
| `group_nack` | the ack of a later message commits past a nacked one, against `kafkadocker/cluster_test.go:268` |
| `partitions_stop` | the send of a consumer error ignores the context: the goroutine, and Close, wait for a receiver |
| `watermill_close` | Close closes the event channel under its forwarder, which panics |
| `worker_stall` | nothing receives from the semaphore: after `maxConcurrency` deliveries no job is attempted |
| `gateway_order` | the gateway's Serve returns as soon as its Shutdown begins, and the run group stops gRPC while the gateway drains, against the comment at `grpc/server.go:185` |
| `redis_ties` | a page that ends between equal scores says that nothing follows, against `pagination/types.go:64` |
| `sentry_pair` | with the recoverer on the same chain, in either order, a panic is not both captured and answered with 500, against `sentry/middleware.go:26` |

**Bounds.** Two publishers and two subscriptions on two channels are the least
for overlapping maps and for a drop between two sends; two channel arguments
give a subscription the same event twice; buffers of 0 and 1 are the two kinds
of full. Three elements and eight takes wrap the queue twice with a partly full
channel. Two messages make a nack followed by an ack; two sessions a redelivery
with a late ack; the claims of several
partitions are left to the theorem `GroupSkipsNothing`, since two partitions with
two messages each have too many states for a quick run. The group of
`consumers` has no failing Consume (`MaxFails` is 0): with one, Subscribe may
hang, which `group_hang` shows. Two jobs and one slot of the worker fill the
semaphore and go beyond it; delays of 1.5, -0.5 and -1.5 seconds are a truncated
one, one truncated to zero and a negative one; two starts are a restart. Two
closers race for every flag that is loaded and then stored; two requests are one
that ends and one that does not. One request of the gateway and one direct RPC
are enough for a drain that waits for the other server. Two brokers make one
Terminate fail while another runs, two networks a second Start. Two statements
and two starts make a container fail between statements and be replaced. Chains
have every order of the HTTP middlewares and every two of the gRPC interceptors
with every set of options; errors have every kind, alone, wrapped and in pairs
joined. Four rows are two equal keys, the zero time and an id with a colon;
pages of 0, 1 and 2 end inside and between ties; one write hits every gap
between two statements. Two Ints and one big.Int are the least that share words.
Six key rings are two rotations, so that a ring two steps away is among them.

`CHECK_DEADLOCK FALSE` is set where the system may stop: bounded messages, a
request that was answered, a server that was closed, a process that died.

**Fairness.** A goroutine that can run does run: weak fairness of the steps of a
Publish, a Refill, a claim, the Consume loop, a consumer loop, a started Close,
Stop or Shutdown, a statement of ListItems. For a select with a Done case that
stays ready, weak fairness of that case is justified by Go's random choice among
ready cases. A Shutdown that is not drained times out, because the code gives it
a deadline. The broker delivers ready messages and expires delayed ones. Nobody
is obliged to call anything. Where the application's diligence matters it is
named: `Reading` and `Diligent` are hypotheses of `CloseTerminates` of the
partitions and of `AllDecided`; in `HTTPServer` only handlers whose context was
cancelled must end; in `GRPCServer` handlers end, since GracefulStop waits for
them without a limit. Rebalances, crashes, restarts, failures of external calls
and writes of others are never fair.

## Proofs

Every safety invariant and action property that the four passing runs check is
also a theorem, for every value of the constants that satisfies the assumptions
below; so is the refinement of `PubSubContract`.

| module | about | theorems that are properties of a run | other theorems | inductive invariant |
|---|---|---|---|---|
| `InmemPubSubProofs` | `InmemPubSub` | `TypeCorrect`, `NeverSendsOnClosed`, `MapIsExact` | `BusKeepsContract` | `Inv` |
| `PubSubProofs` | run `pubsub` | `BothKeepContract`, `GroupSkipsNothing` | `UnbufferedKeepsContract` | from the modules above and below |
| `KafkaSaramaGroupProofs` | `KafkaSaramaGroup` | | `AtLeastOnce`, `InTurn`, `CloseWaits`, `ReadyClosedOnce`, `TypeCorrect`, `NackMovesNoOffset`, `SubscribeAwaitsSetup` | `TInv`, `LoopInv`, `AckInv`, `ClaimInv`; `Counters`, `Places`; `MarkInv`, `ReadyInv` |
| `ConsumersProofs` | run `consumers` | `AllTyped`, `HandsOutRoundRobin`, `AckedOnlyByApplication`, `NoJobLost` | `TypeCorrect`, `RefillRestoresAll`, `DeliveredInOrder`, `PartsCloseWaits`, `ForwardsInOrder`, `OneEventOut`, `NoSecondClose`, `ConsumerStays`, `SlotsRunOut`, `StallIsFinal` | `Inv`, `PartsInv`, `WatermillInv`, `LiteInv`, `JobInv`, `SemInv` |
| `LifecyclesProofs` | run `lifecycles` | `ServeDrains`, `CloseRefusesNothing`, `ClusterStoppable`, `ClusterStopsClean`, `ContainersAreRemoved`, `ContainersAreReady` | | `ServeInv`, `GRPCInv`, `ClusterInv`, `ContainerInv` |
| `GRPCChainProofs` | `GRPCChain` | | `ChainIsCorrect` | `Inv` |
| `PaginationProofs` | `Pagination` | | `ListingIsCorrect`, `PagesTellTheRest`, `PagesAdvance` | `Inv`; `AnnounceInv` |
| `RequestsProofs` | run `requests` | `TypesReachTheCaller`, `OneReport`, `NoPanicEscapes`, `OnlyCancellationsAreLost`, `OnlyAuthorizedRun`, `RequestIDGoesOut`, `LogTellsTheStatus`, `ClientsHearOfFailures`, `PagesInOrder`, `NoRowIsSkipped`, `RotationIsSafe`, `IntsOwnTheirWords` | `PanicGoesToTheInner` | `HTTPInv`, `CookieInv`, `ValueInv`, `CaptureInv`, `LoggedInv`; the two above |

A proof module of a run extends the run's MC module, so that its theorems are
about the very definitions that TLC checks. Theorems about one component carry
over through an instance of its proof module: `PubSubProofs`, `ConsumersProofs`
and `RequestsProofs` prove its assumption from those of the MC module, that
initial states and steps are the same, and cite the theorem. They are about the
component's `Spec`, without fairness; `BothKeepContract` and `AllTyped` are
about `MCSpec` itself. What no run checks (`NoEmptyMap`, `RefillRestores`,
`OneAtATime`, `NoDoubleClose`, `NoGap`, `Forwarded`, `OneUnacked`, `ClosedOnce`,
`ExitsOnlyIdle`, and `NoSendOnClosed` of the Kafka subscriptions) rests on the
proofs alone. Steps are tried with Zenon first and with SMT after it.

**Around the violated runs.** A violated run shows one behaviour of one instance.
For five of them a theorem says, for every instance, what the code does instead
of what was expected, or when the expectation holds:

- `group_nack`: marks are set only by acks, so the message just before a committed
  offset was acked, and a nacked message is passed only with the ack of a later
  one (`NackMovesNoOffset`);
- `group_hang`: as long as no Consume fails, Subscribe waits on a `ready` that is
  closed or that the coming Setup closes (`SubscribeAwaitsSetup`);
- `worker_stall`: with any capacity, the goroutine takes at most
  `maxConcurrency + 1` deliveries (`SlotsRunOut`), and the last of these waits
  until the process is started anew (`StallIsFinal`);
- `redis_ties`: while nobody writes, `HasNextPage` going forward and
  `HasPreviousPage` going backward are exact on PostgreSQL, and on Redis if no two
  members have one score (`PagesTellTheRest`);
- `sentry_pair`: of the Recoverer and the Sentry middleware the inner one gets the
  panic and the outer one does not see it, whatever else is on the chain
  (`PanicGoesToTheInner`).

**Assumptions**, all of them named `ASSUME`s that TLC evaluates on the instance:

- sizes and bounds are natural numbers, the queue's slice is not empty and the
  group gets a session (`SizeAssumption`, `NAssumption`, `MaxTakesAssumption`,
  `GroupAssumption`, `BoundsAssumption`, `CapacityAssumption`, `SQLsAssumption`);
- the value for "nobody" is not a goroutine (`NoOneAssumption`), and networks are
  not containers (`ClusterAssumption`);
- HTTP errors have a status of 400 to 599, which is what the constructors of
  `http/error.go` make (`StatusAssumption`);
- a key ring holds the signing keys of the rings before and after it
  (`RotationAssumption`), which is what makes a rotation stepwise;
- there are at least as many words as variables (`CellsAssumption`): memory does
  not run out;
- the application's interceptors are known ones or its own and its handlers
  return errors built from leaves (`HandlersAssumption`); tables are finite and
  page sizes not negative (`TablesAssumption`).

**Arguments.**

*In-memory broker.* `NoSendOnClosed` is not inductive: a step of Publish needs to
know that what it reads from the map is open (`MapAgrees`), that nobody else is
inside Publish (`OnlyOwnerPublishes`) and that a parked consumer is open with an
empty buffer (`ParkedIsCurrent`). For the refinement, the contract's log of a
subscription is `got \o c \o Owed`: received, buffered, and what the Publish that
holds the mutex has yet to send, one copy for each of its remaining channels
that the subscription is on. Taking the mutex is the contract's Publish; a
buffered send moves an event from `Owed` to `c` and a receive from the buffer
from `c` to `got`, which leaves the log alone; a drop cuts the log down to what
was buffered. The unbuffered broker is the same theorem with
`eventBufferSize` 0.

*Queue.* `RoundRobin` speaks of the past, so `Inv` adds that the channel holds
the elements due next, in order (`ChanContinues`), and that the saved index, or
the loop variable of the refiller that holds the mutex, is the one due after
them (`IndexContinues`). Positions are in closed form (`Nth`), which avoids an
induction.

*Consumer group.* Commits follow marks and marks follow acks, so `AckInv` says
that everything below a mark, like everything below a commit, was decided in some
session, and that later sessions have sent nothing. `ClaimInv` is about a running
claim: what lies before the message in its hands is decided, what lies after it
was not sent in this session. `LoopInv` ties the loop, the session and the ready
channels together: claims run only inside a session, a loop about to consume has
a ready channel that was never closed, and the event channel is closed only when
the loop is done. `MarkInv` adds that marks, from which commits are taken, stand
just behind an acked message; `ReadyInv` that nobody cancels before Subscribe has
returned, and that a Consume that did not fail has run Setup.

*Partitions and watermill.* What was delivered is a prefix of the partition, and
a goroutine holds at most the next message (`Behind`); a closer that got past
the wait group finds every goroutine stopped.

*pubsublite.* `MsgInv` says at which points of the goroutine its message is with
the application, and that no other is; `CloseInv` that a caller about to close
the closing channel is the one whose close of the AMQP channel succeeded.

*Worker.* `JobInv`: a job on its way to the ack is the current one, and its
handler ran. `SemInv`: tokens only come in, so `sem` is what the goroutine took
(less the one it is about to put) plus what its last loop put; that loop has to
put `cap(sem)` more, which fit only if nothing was taken. No step but the start
of a process takes a token out, which is all that `StallIsFinal` needs.

*HTTP server.* done is closed only by a Shutdown that returned, a Shutdown that
was called has set inShutdown, so nothing is accepted any more, and one that
returned drained leaves nothing running.

*gRPC server.* `CloseOrder`: a Close that has come to the gRPC server either
drained the gateway itself or found it closed; then an earlier Close drained it,
because Closes exclude each other, or the run group closed it, which closes the
gRPC server first. `Fired` names who stopped the gRPC server: if it was a Close,
no request waits in the gateway and none can come.

*Kafka cluster.* As long as no Start ran while a Stop did, every container that
exists is one the Cluster refers to, one that was lost with a failed call, or the
broker that is on its way (`Referred`); a Stop has every container that it has
not terminated still to do, or has met an error.

*Containers.* They are numbered by the Start that ran them. The place of Start
says whether the newest one exists, is stored and is ready; an older one that
exists is the one Close refers to, or is counted as out of reach.

*HTTP chain.* `HTTPWriters`: the code in chi's writer is the one that was sent,
unless it has none or one that net/http refuses, and inside the logger nothing
is sent past it. `HTTPFailures`: an error has been answered as one, and a panic
that unwinds is below the Recoverer, if there is one. The order of the
middlewares enters only as "who is outside of whom", so no induction over the
chain is needed. `CaptureInv`: a panic on its way up has met neither the
Recoverer nor Sentry yet, or was captured, or was answered with 500. `LoggedInv`
says what the logger's writer holds on the way up: the code of the handler's
response or of the answer to its error, and nothing if there was neither.

*gRPC chain.* `Positions` describes every chain that newGRPCServer builds: no
interceptor twice, the panic handler outside those of the application. `Context`
is the invariant of the way down (which interceptors have set the user and the
outgoing ids), `Outcome` that of the way up: `Going(o, r, p)` says what an
outcome `o` with `r` reports at position `p` may be. A reported failure is a
status, which every converter passes on without a report; a typed error that has
not met a converter is still the handler's; an outcome is a success only if the
handler's was or if a converter below dropped a cancellation (`Success`). The
number of outgoing ids follows from which of the two interceptors was passed
first (`Counted`). That `errors.As` finds the first
leaf of a kind is the least-number principle (`Least`), proved from the
well-foundedness of finite subsets.

*Pagination.* A page is the listing of a set of rows, cut off. `ListingFacts`:
the rank of a row in a finite set is an injection into as many numbers as there
are rows, hence onto, so that every position of the listing is taken by one row.
`InOrder`: what was visited ends at the cursor and the page goes on behind it.
`Reached`: a row that stays in the table is behind the cursor and asked for
(`Todo`), or was visited (`Covered`); after the query it is on the page or comes
after it (`Left`), and when no further page is announced none comes after it.
Deletes and inserts between the statements change none of that for the rows that
stay. `AnnounceInv`: while nobody writes, a page with rows announces exactly what
is `Left`, and one without rows found none and announces none; so the
next request starts at a row of the page, and such a row lies beyond the cursor
of the last request. `PagesAdvance` is the safety part of `ListingEnds`: what remains of it is
that statements are executed, which is fairness.

*Cookie.* A cookie that was not damaged is the MAC that the signing key of some
deployment makes of its value; the neighbours of that deployment have the key.

*Int.* Two variables share words only if one was made by `NewIntFromBigInt`
(`OwnCells`); new words are words that no other variable refers to, and there
are some because there are at least as many cells as variables (`SomeFree`).

**Only model-checked:** liveness, because fairness and ENABLED are outside the
prover's reach: `PublishReturns`, `RefillReturns`, `GroupCloseTerminates`,
`AllDecided`, `CloseTerminates`, `ForwarderStops`, `CloseEndsLoop`,
`CancelCloses`, `ShutdownEndsServe`, `CancelDrains`, `StopsTogether`,
`CloseStops` and `ListingEnds`. The properties of the violated runs are false
and have no theorem.

## Not modelled

- Payloads, event types, headers, the wording of messages, logging and tracing.
- Publishers of Kafka, which are one call into the client library per message.
- `money`: decimal and float conversions without state.
- Tokens (`jwt_manager`) and the HTTP auth middleware, which copies context
  values; random strings and UUIDs.
- `psqlutil`, `psqltest`, RabbitMQ utilities, telemetry setup, SASL and TLS
  configuration: I/O and configuration without a protocol; generated code.
- The aliasing of the channel slice passed to Subscribe, and the empty slice in
  `blockingqueue`.
- A second Close of a Kafka subscription, which closes a closed channel; the
  client libraries' own reasons for closing a message channel; watermill's ack
  protocol.
- Some edges are kept in the models but no document says what should happen, so
  no property is about them: `WithBaseContext(nil, true)` panics in New, Close of a
  ClickHouse container that never started dereferences nil, a nil `*time.Time`
  in a cursor and `SetBigInt(nil)` panic, a job enqueued before any handler is
  registered is dropped, a gRPC listener stays open when the gateway cannot be
  created.
- `WithBaseContext(ctx, false)` is in the model too, and no run checks what its
  comment says: it "sets a predefined base context for all incoming http
  requests" (`httpserver/options.go:130`), but `apply` assigns its local `ctx`
  only when the context is cancelled on shutdown or absent
  (`httpserver/options.go:97-118`), so BaseContext returns nil and net/http
  panics in Serve. `ReturnedIsDrained` and the liveness properties of the server
  are about the behaviours in which this did not happen.
- The scripts that `kafkadocker` writes into containers.
