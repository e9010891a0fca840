# Verification of go_tools

TLA+ specifications of the concurrent and stateful parts of `go_tools`, the
TLC configurations that check them on small instances, and TLAPS proofs of the
safety properties of ten of them for all values of their constants. Paths
such as `conn_impl.go` are relative to `src/common/<package>/`.

    tlc -workers 2 -config MCConn.cfg MCConn     # one run
    tlapm ConnProofs.tla                         # the proofs

`PROJECT.json` lists components, runs, the source lines behind every
definition, the hazards, and for each checked property a faulty variant of the
code that violates it.

## 1. The system

`go_tools` is a library; its packages are used together only where this list
says so.

| Part | State | Operations | What is hard | What makes it correct |
|---|---|---|---|---|
| **Conn** (`network/conn_impl.go`) | `started`, `closeOnce`, context with cause, transport, send queue, WaitGroup of three loops | `Run`, `Send`, `TrySend`, `Close`; read, write and heartbeat loop; callbacks `OnOpen`, `OnMessage`, `OnClose` | five kinds of goroutines; anyone may close at any time; `select` picks at random; callbacks panic or block; the reader sends pongs through the writer's queue | `OnClose` once and last; callbacks never overlap; nothing delivered, and at most one write, after the cancellation; the wire is a gapless prefix; `Close` returns when the closing is complete; a cancelled connection ends and frees its senders |
| **SessionServer**, **SessionManagerImpl** | table of connections, capacity, `closed`, listener, WaitGroup | `Serve`, accept loop, factory, `Add`, `Remove`, `runConn`, `Close` | accept and registration race `Close`; the manager closes connections without its lock; factories fail or panic | capacity bounds live connections; none escapes `Close`; `Serve` returns, and leaves nothing behind |
| **SessionClient** | state, dial context, connection, result | `DialContext`, `Wait`, `Close`, `runConn`, `finish` | `Close` during a dial or just before publication; three places that may finish | `Wait` returns exactly when all is over; no connection is published after `Close` |
| **WebSocket listener** (`ws_impl.go`) | `closed`, `acceptErr`, `done`, slots, WaitGroup, unbuffered hand-over | `handleUpgrade`, `Accept`, `Close`, `serve` | hand-over and close ready at once; `Add` against `Wait`; unlocked read of `acceptErr` | every upgraded transport is delivered once or closed; bound on pending ones; `Close` returns |
| **Transports** over TCP, KCP, WebSocket (`tcp_impl.go`, `kcp_impl.go`, `ws_impl.go`) | socket, deadlines, rest of a WebSocket message | constructors of listeners, `Accept`, `DialContext`, `Read`, `Write`, `Close` | a step of a set-up fails after the socket is open; messages against a byte stream; deadlines; KCP sessions share a socket | no socket without an owner; the stream arrives intact; every call ends |
| **TaskRunner** (`pool/gpool`) | status, token channel, WaitGroup | `Submit`, `SubmitImmediately`, task goroutines, `Close` | closing a channel others send on; two orders of token and WaitGroup | concurrency limit; `Close` waits for the tasks |
| **Pool**, worker (`pool/gpool`) | status, a queue and a stop channel per worker | `Submit`, worker loop, drain, `Close` | full queues during `Close`; handlers that submit jobs; ordering per worker ID | order per ID; `Close` executes what was queued |
| **TimerManager** (`timer`) | heap with positions, execution queue | `AddTimer`, `RemoveTimer`, `Run` | re-entrant callbacks; panics in the middle of `Run`; repeated timers | heap and positions agree; no timer lost or doubled; `Run` ends, and calls back no more than its limit and what a panic left it |
| **LogFileRollover** (`logger`), **CompressFileByGzip** (`file_utils`) | active file, handle, size, backups; wake-up channel | `Write`, `Rotate`, `Close`; background delete and compress | background pass without the mutex; failures and crashes between file operations | no accepted record lost but by retention; newest backups kept; no wake-up lost |
| **LruCache**, **ShardLruCache**, **LruCache2Q** (`container`) | list and index; shards and hash function; FIFO queue of 2Q | `Put`, `Get`, `Remove`, `SetHashFunc` | entries move between two structures on several paths; expiry | hits return the latest value in its time; least recently used goes first |
| **Queue** (`container`) | slice, begin, end, capacity | `Push`, `Pop`, `Size`, `Value` | moves, growth and shrinking depend on its history | no element lost or read twice |
| Set, SortedMap, object and buffer pools, `http_utils`, `mongo_driver`, `profile`, `encode_utils`, `options`, traffic statistics | | | sequential helpers, wrappers and I/O | not modelled |

The parts interact like this. `SessionServer` and `SessionClient` create a
`Conn` per transport, call its `Run` in a goroutine and close it with `Close`;
`SessionServer` registers it with `SessionManagerImpl`. Transports come from a
listener or dialer (TCP, KCP, WebSocket). `TimerManager` uses the container
`Queue`; `LogFileRollover` uses `CompressFileByGzip`.

## 2. The modules

| Module | Models | Notes |
|---|---|---|
| `Connection` | what a connection promises: one effective `Run`, a cause that is never replaced, closing after it, `OnClose` once and last | abstract specification |
| `Conn` | `conn_impl.go` in full | `INSTANCE Connection` with `phase` as refinement mapping |
| `SessionServer` | `session_server.go`, `session_manager.go` | each connection is an instance of `Connection` |
| `SessionClient` | `session_client.go` | the connection moves as `Connection` does |
| `WsListener` | listener half of `ws_impl.go` | |
| `Transport` | `tcp_impl.go`, `kcp_impl.go`, and the transport and dialer of `ws_impl.go` | one listener and one connection; `kind` and `conf` are chosen in `Init` |
| `TaskRunner`, `Pool` | `pool/gpool` | |
| `TimerManager` | `timer` | with `up` and `down` of `container/heap` as recursive functions; an instance of `Queue` is its execution queue |
| `Queue` | `queue.go` | operators on a queue, no variables |
| `LogRollover` | `log_rollover.go`, `file_compress.go` | with failures and crashes |
| `LruCache` | `lru_cache.go` | the three caches, chosen by `kind` in `Init` |
| `MC...` | model values for the runs | |
| `ConnProofs`, `SessionServerProofs`, `SessionClientProofs`, `TransportProofs`, `PoolProofs`, `LogRolloverProofs`, `LruCacheProofs` | theorems about the module in their name; `TransportProofs` also about `WsListener` | TLAPS; the names of `WsListener` that `Transport` has as well begin with `Ws` |
| `CallbackProofs` | theorems about `TaskRunner` and `TimerManager`, with the operators of `Queue` | the names of `TimerManager` that `TaskRunner` has as well begin with `Timer` |

Conventions. A goroutine `p` is at label `pc[p]`; one action is what happens
between two points where another goroutine could notice: a channel operation,
an atomic access, a lock (a critical section that calls nothing outside is one
step), a call of a callback, of the transport or of the file system. A
`sync.Once` is the variable `once` (`fresh`, `running`, `done`), and callers
that lose wait for `done`. A `WaitGroup` is the set or the number of those it
counts, a context is its cause. An error path or an early return is an action
of its own, named `...Fails`, `...Refused`, `...Aborted` and so on. Definitions
marked *Faulty variant* belong to no specification: each is a plausible bug in
the definition below it, and shows that a property can fail.

**Conn.** `CloseSites` gives, for every place of `closeWithCause`, where its
caller goes on. `CloseEnter` is `closeOnce.Do` with the cancellation,
`CloseTransport` the close of the transport, `CloseReturn` the return of every
caller. `RunFirst` ... `OnCloseReturns` follow `Run`; `Writer...`, `Reader...`
and `Heart...` the loops. A message is `<<sender, n>>`; a packet is a kind
(message, ping, pong, or one the heartbeator rejects). `late` and `lateWrites`
remember what was decoded or written after the cancellation, `accepted` and
`wire` what `Send` took and `Write` put out. A write or a decode may block for
ever until the transport is closed; a heartbeat timeout may happen at any tick,
because time is not modelled.

**SessionServer.** `life[t]` follows a transport from `incoming` to `gone`.
`AcceptSetupFails` is what `Accept` of TCP and KCP returns when the set-up of
an accepted connection fails: an interface that holds a nil pointer, with an
error. `MgrClose` copies the table under the lock, `MgrCloseConn` closes each
connection without it.

**SessionClient.** `DialOK`, `DialFails` and `DialSetupFails` are the results
of the dialer, `Publish` the section under the lock after it, `Recycle` the way
out when `Close` was faster.

**WsListener.** A handler makes at most one transport. `Handoff` is the
rendezvous on `acceptQueue`; `OfferDone` the other branch of that `select`.

**Transport.** `SetUp(op)` lists the steps of a constructor, of `Accept` and of
`DialContext` in the order of the code; `Succeed` goes on to the next one,
`Fail` returns the error. Whether that closes a socket that is open is a matter
of the step: `ClosesOnError(op)` collects, per protocol and function, the steps
whose error return does. The source closes in one deferred function
(`TcpCloses`, `tcp_impl.go:28`) or at every return by itself (the others), so
that each list is read off its function, and one line forgotten is one step
missing: `KcpDialForgets`. An option that is not set cannot fail, and calls that
cannot fail are left out. Each blocking call arms a
deadline of `Timeout` ticks and resets it when it returns, and time stands
still at 0 until the call has ended. `incoming` is what the network has not yet
delivered: for TCP and KCP a message is what arrives at once, for WebSocket a
message, binary or text. `reader` is the unread rest of the current WebSocket
message, as in `WsTransportImpl`; its end is `EndOfMessage`, or comes with the
last bytes in `ReadMessage` (with compression it does). After an error of the
socket, or a message over the limit, gorilla/websocket repeats the error:
`broken`. `Usable` is where the protocols differ: a session accepted by a KCP
listener lives on the listener's socket. The address of a WebSocket dial is
parsed in the step `endpoint`, whose only effect here is that it may fail.

**TaskRunner.** `SendOnClosed` is the send on a closed channel, which panics;
`ReturnToken` and `TokenBack` are the two orders in which the two submit
functions give back their token and leave the group. `wg.Wait` blocks
(`WaitBlocks`), is woken by the `wg.Done` that makes the counter zero (`Wakes`)
and looks at the counter again: if a `Submit` that had passed its check has
added itself since, it panics (`WaitPanics`, "WaitGroup is reused before
previous Wait has returned").

**Pool.** `Submit` and `Close` are not called concurrently, as the comment at
`pool.go:90` demands: `CloseFirst` has that guard. A handler may call `Submit`
too: then its worker is the caller, and stays in the handler until the job is
sent. The jobs' contents are left out, so that a handler is whatever happens
between `Receive` and `Executed`.

**TimerManager.** One goroutine owns the manager (`timer/README.md:66`).
Between the steps of `Run` only callbacks run, which may call `AddTimer` and
`RemoveTimer`, return, or panic. `RemoveTimer` looks into the heap only: a
timer that the current `Run` has moved to the execution queue fires although it
was removed, which `timer/README.md:58` may be read to exclude; `NoTimerLost`
therefore says nothing about removed timers. The execution queue is the
`Queue` of `container`, with its slice, positions and capacity; its content is
`ToCall`. Where `Run` is, is in `phase`. `up` and `down` are functions from
positions to functions on heaps: a recursive operator would shut the module out
of the proofs. `heap.Pop` and `heap.Remove` always call `down` with all the
elements but the last, so that number is no argument.

**LogRollover.** A record has size one. The steps of a call that holds the
mutex follow `pc`; those of the goroutine `run` follow `bg`. `Fault` counts
failures: any file operation may fail (`CloseFails`: then `Close` returns before
it stops the goroutine), and `Crash` keeps nothing but the files.
Backups get different stamps and nothing is called after `Close`, both of which
the package's documentation demands. `OpenNewTruncates` is the branch of
`openNew` where `Stat` fails for a reason other than absence: the old file is
truncated.

**LruCache.** An operation holds its lock throughout and is one action, at one
time. `Home(k)` is the `LruCache` that an operation of `LruCache` or
`ShardLruCache` works on; the operations of `LruCache2Q` have a branch of their
own each. A value alternates between 0 and 1 with each `Put` of its key.
`latest`, `putAt`, `until` and `recent` remember the history that the
properties refer to. `SetHashFunc` is called while the cache is empty: later it
would leave entries in shards where nobody looks for them.

## 3. What the runs check

| Run | Instance | States | Result |
|---|---|---|---|
| `conn` | 2 calls of `Run`, 1 sender, 1 closer, queue of 1, one message, ping and packet each | 590,000 | passes |
| `session_server` | 1 server, 1 closer, 3 transports, capacity 2 | 173,000 | passes |
| `session_server_setup` | the same | | violation, see 6 |
| `session_client` | 2 dialers, 2 closers, 2 waiters | 21,000 | passes |
| `callbacks` | `TaskRunner`: 2 submitters with 2 tasks each, 2 closers, limit 1; `TimerManager`: 3 timers, heap of 3, times 0 and 1, repeated or not, limit 0 or 2, initial capacity of the queue 1 | 129,000 and 181,000 | passes |
| `task_runner_panic` | `TaskRunner` as in `callbacks` | | violation, see 6 |
| `timer_limit` | `TimerManager` as in `callbacks` | | violation, see 6 |
| `pool` | 2 workers, queue of 1, a submitter with 2 jobs, 1 job from the handlers of each worker, 2 closers | 36,000 | passes |
| `transport` | TCP, KCP and WebSocket, all options or none, 3 bytes in at most 2 messages at a time, limit of 2 bytes, timeout of 2 ticks | 236,000 | passes |
| `ws_listener` | 3 requests, 2 slots, 1 accept, 1 close, the HTTP server failing or not | 211,000 | passes |
| `log_rollover` | 3 records, 2 per file, 1 backup, age 1, 3 stamps, 1 failure or crash | 390,000 | passes |
| `lru_cache` | 3 keys, 2 shards of capacity 2, two hash functions, durations 0 and 1, expiry times -1, 0 and 2, 3 times | 1,663,000 | passes |

*conn.* `OnCloseIsLast`, `CallbacksSerial`, `NoLateDelivery`,
`AtMostOneLateWrite`, `SendOrder` and `CloseIsComplete` are the safety promises
of section 1. `EndsLikeConnection` is the specification `Connection` with its
fairness: refinement, and the end of every connection that runs and is
cancelled. `SendersReleased`: no `Send` outlives the cancellation, and
`TrySend` always returns. A second call of `Run`, a full queue (the second
message already waits), a pong behind a full queue and a failed write all
happen within these bounds; a further sender adds no new kind of step.

*session_server.* `CapacityRespected` counts connections whose callbacks can
run, not table entries. `NoConnEscapesClose`, `ServeReturnsClean` (nothing open
or running is left when `Serve` returns), `ConnsAreConnections` (every
connection is used as `Connection` says), `ServeEnds`. Three transports against
a capacity of two reach the refusal of the third.

*session_client.* `WaitMeansEnded`, `NoConnEscapesClose`, `WaitEnds`. A second
dialer reaches the refusal of a second dial.

*callbacks.* The two components share nothing, so `MCCallbacks` explores each
while the other is as it was created.

*callbacks, TaskRunner.* `ConcurrencyLimit` holds during the closing too, although
tokens
are then received from a closed channel; `CloseWaitsForTasks`; `CloseEnds`
unless a submitter panicked: then the `Done` of its `Add` never comes, and if
that `Add` falls between the wake-up of `wg.Wait` and its return, the wait
panics.

*pool.* `SameIDInOrder`, `CloseDrains`, `CallsEnd`. The IDs are a negative
one, which is routed at random, and 3, which two callers send to one worker. `CallsEnd`
says that `Close` ends, and that a `Submit` ends unless handlers form a knot:
each sends to a worker whose queue is full and whose handler is in the knot.
A handler waits for its own worker within these bounds; a knot of two needs
more nested jobs than fit.

*transport.* `NoSocketLeaked`: whichever step of a set-up fails, in the order
that the protocol and the function give them and with any options, the socket
that was opened is closed; it compares the order of the steps with the steps
whose error return closes. `StreamIntact`, `CallsEnd`. Three bytes, buffers
of one to three bytes and empty messages reach a message that is longer than
the buffer, one that ends with it, an empty one between two others, and one over
the limit; two ticks separate a deadline that is set once from one that each
message sets anew.

*callbacks, TimerManager.* An initial capacity of 1 makes three timers grow, move
and shrink the
execution queue, which the 8 of the code would take dozens to do.
`HeapConsistent`, `NoTimerLost`, `RunEnds`. `CallsWithinLimit`: the limit bounds
every `Run` that finds fewer timers than that in its queue, hence every one
that follows no panic; one that finds more calls those back and at most one
other. Without a panic in between this is what the documents promise; with one,
`LimitRespected`, their bound, fails (section 6).

*ws_listener.* `PendingBound`, `CloseIsClean`, `AcceptResults`, `CloseEnds`.

*log_rollover.* `NothingLost`, `NewestKept`, `SignalSeen`. Two failures were also run once (1.6 million
states, 160 s) and found nothing more; the configuration has one so that the
run stays short. An earlier process may have left its file, so that appending
to it happens.

*lru_cache.* `Consistent`, `HitIsRight`, `EvictsOldest`. Three keys against a
capacity of two evict in every order; one hash function puts the three keys into
one shard, two of them by a negative remainder, the other spreads them.

The type invariants of the modules other than `Conn` hold on the same
instances; they are left out of the configurations because the other invariants
say more. Those of the modules with proofs are theorems.

### Fairness

Safety needs none. Every liveness property assumes that a goroutine that can
run does (weak fairness of its steps), which Go's scheduler provides, and never
that somebody calls an operation, that a peer reads or sends, or that a blocked
`Write`, `Decode`, `Accept` or dial returns: those end only when their
transport or listener is closed or their context cancelled. Callbacks return
once the context they got is cancelled (`network/README.md:122` asks for it).
`Transport` assumes that time passes, that local steps of a set-up end, and that
a call whose deadline has passed or whose socket is closed returns; not that a
peer answers, sends or hangs up, nor that a write makes progress. Data that has
arrived is read by a `Read` that waits for it.
`Pool` assumes strong fairness for channel operations: `select` chooses at
random, and goroutines that wait on a channel are served in turn.

Deadlock checking is off where the program may stop (everything closed or all
bounds used up) and on for `LruCache`, where something can always be called.

## 4. What is proved

Each `...Proofs` module proves, for all values of the constants that satisfy
the assumptions of its component, `Spec => []Inv` for an inductive invariant
`Inv` (theorem `Invariance`), `Spec => []TypeOK` (`TypeCorrect`), and every
safety property that the run of the component checks (for `WsListener`:
`WsInv`, `WsInvariance` and so on, for `TimerManager`: `TimerInv`,
`TimerInvariance` and `TimerTypeCorrect`):

| Module | Theorem: property |
|---|---|
| `ConnProofs` | `OnCloseLast`: `OnCloseIsLast`; `Serial`: `CallbacksSerial`; `LateDelivery`: `NoLateDelivery`; `LateWrite`: `AtMostOneLateWrite`; `Ordered`: `SendOrder`; `CloseComplete`: `CloseIsComplete`; `Refinement`: `ImplementsConnection` |
| `SessionServerProofs` | `Capacity`: `CapacityRespected`; `CloseReachesAll`: `NoConnEscapesClose`; `ReturnsClean`: `ServeReturnsClean`; `Refinement`: `ConnsAreConnections` |
| `SessionClientProofs` | `WaitSound`: `WaitMeansEnded`; `CloseReachesConn`: `NoConnEscapesClose`; `Refinement`: `Conn!Spec`, the connection of a client moves as `Connection` does |
| `TransportProofs` | `SocketsOwned`: `NoSocketLeaked`; `StreamCorrect`: `StreamIntact`; of `WsListener`, `PendingBounded`: `PendingBound`; `CloseClean`: `CloseIsClean`; `AcceptCorrect`: `AcceptResults` |
| `CallbackProofs` | of `TaskRunner`, `Limited`: `ConcurrencyLimit`; `CloseWaits`: `CloseWaitsForTasks`; of `TimerManager`, `HeapStaysConsistent`: `HeapConsistent`; `TimersAreKept`: `NoTimerLost`; `CallsAreLimited`: `CallsWithinLimit` |
| `PoolProofs` | `InOrder`: `SameIDInOrder`; `Drains`: `CloseDrains` |
| `LogRolloverProofs` | `Durable`: `NothingLost`; `Retention`: `NewestKept` |
| `LruCacheProofs` | `CachesConsistent`: `Consistent`; `HitsAreRight`: `HitIsRight`; `OldestEvicted`: `EvictsOldest` |

The assumptions are of three kinds. Numbers are natural, and positive where
the code makes them so (the queue of `newConn`, the capacity of a pool and
of a cache, the limit of a runner, the slots of a listener, the shards). What is counted is finite
(transports, requests, submitters). Different goroutines, and the model values
that stand for nothing (`None`, `Nobody`, `NoReader`), have different names:
a submitter of a pool is none of its workers, and `NoReader` is no sequence of
bytes. TLC evaluates all of them in the runs.

Few of the properties are inductive alone; the invariants add what each label
implies, one named part per idea, and each part is proved with a step per
action. The inductive invariants hold in TLC's runs of the same instances, too.

**Conn.** `Inv` is `TypeOK /\ CoreInv /\ LateInv /\ QueueInv`, where `CoreInv`
says

- `OnceInv`: there is a cause exactly when `closeOnce` has been entered, and
  the transport is closed exactly when it is done;
- `WantInv`: whoever is at a call of `closeWithCause` brings a cause, so that
  entering it cancels the connection;
- `RunInv`: at most one goroutine is inside the effective call of `Run`, and
  before there is one no loop has started;
- `LoopInv`: the WaitGroup counts exactly the loops that run; the read and
  heartbeat loops have not started before `OnOpen` returned and have ended
  before `Run` goes on to its last steps; the reader runs only while `Run`
  waits; the writer exits only after the cancellation;
- `EndInv`: nobody is in `OnClose`, or back from `Close`, before the closing is
  done.

`OnCloseIsLast` follows from `LoopInv`, `EndInv` and `OnceInv`,
`CallbacksSerial` from `RunInv` and `LoopInv`. `LateInv` ties `late` to the
cancellation and to the reader's label, and says that after a late write the
writer is not about to write again: the one late write is the one that had
passed its check when the context was cancelled. `QueueInv` is `SendOrder` with
the fact that the writer holds nothing when it takes the next message.
`StepRefines` shows that every action is a step of `Connection` or leaves
`phase`, `cause` and `rwc` alone.

**SessionServer.** `LifeInv` is the centre: a transport is in the table of the
manager and counted by the WaitGroup between the same two steps as its
goroutine exists, its connection runs only then, has ended before it is
removed, and no transport is let go of open. `SnapshotInv` says what is left of
`NoConnEscapesClose` while `MgrClose` walks its copy of the table without the
lock: every registered connection is still in the copy, or is cancelled and
closed. With `OnceInv` (how far `Close` is) the three properties follow;
`CapacityRespected` needs that running connections are table entries
(`LifeInv`) and that the table respects the limit (`LimitInv`).

**SessionClient.** `DialInv` says what the one effective dial has left behind at
each of its steps, `CloseInv` that what `Close` read under the lock stays true:
a connection is published before, or never. `FinishInv` says who has published
the result, hence that nobody publishes twice and no waiter returns early.

**WsListener.** A handler holds a slot between the two steps that
`HandlerInv` names, so that the slots bound the pending transports, and is in
the WaitGroup until it exits. `TransportInv`: an open transport is with its
handler or inside an `Accept`. `OnceInv`: the cause is set before `done` is
closed, which is why `Accept` may read it without the lock (`AcceptInv`).

**Transport.** `SetUpInv` says of a socket that is open: every step that is
still to come is one whose failure closes it. That this holds when a socket is
opened is the lemma `StepsAfterOpenClose`, a case for each protocol and
function, which follows from the lists of steps and of error returns that close
(`OpenLast`, `ThenMore`, `TwoSteps` say how lists are put together). It is what
breaks when one cleanup is missing. `NoSocketLeaked` follows. For
`StreamIntact`, `Chain(off)` numbers the bytes: `off[j]` is how many the peer
had sent before the j-th message on its way, the first of them follows what was
read and the rest of the reader's message, and the last offset is `sent`. Such
an `off` exists until an error ends reading for good. Splitting a message
(`ReadStream`), moving it to the reader, and dropping it keep the chain.

**TaskRunner.** The two counters are the cardinalities of sets: `tokens` of the
tasks that still have to give a token back, until the channel is closed, and
`wg` of the tasks that owe a `Done` together with the submitters that have
called `Add`; so whoever calls `Done` is counted, and `wg` is never negative
(`wg \in Nat` in `TypeOK`). `ConcurrencyLimit` holds because a task that runs has
a token,
and none starts once the channel is closed.

**Pool.** `FlowInv`: what was sent to a worker is what it has executed, then
the job it executes, then its queue. `OrderInv`: jobs that one caller sent to
one worker have increasing numbers, below the one it is about to send.
`SameIDInOrder` follows, since one non-negative ID has one worker and a job
stands before another in the sequence of `FlowInv`. `CloseDrains` needs
`CloseInv`: no call of `Submit` is under way in a closed pool, and a worker
leaves an empty queue (`WorkerInv`).

**LogRollover.** `BackupInv`: the compressed and the plain file of a backup have
the same records, and the plain one is whole; so a record that is in one of
them survives the removal of the other if that other is the plain one and the
copy is whole, which is what `PassInv` says at the step of the removal. It also
says that no backup is both deleted and compressed in one pass. `DoomInv`: what
the pass has chosen to delete may be deleted when it gets there, although
rotations have added backups since; that needs that time does not go back and
that newer backups only increase. The list of the pass is a `CHOOSE` of a
descending sequence, and the lemma `Sorted` shows that there is one.

**TimerManager.** `TimerInv` has five parts besides the types. `HeapOK`: every
timer of the heap knows its position and is not earlier than its parent.
`QueueOK`: the elements of the execution queue lie within its slice. `NewInv`:
a timer that was not added yet is nowhere. `WhereInv` is stronger than
`NoTimerLost`: it also says that a single timer that was called is neither
scheduled nor to be called. `LimitInv` adds the calls to come to those made.
That they are kept rests on three groups of lemmas.

- `up` and `down` exist and unfold (`UpDef`, `DownDef`). The library's
  induction theorem for recursive functions takes an operator, which the
  provers cannot instantiate; `SetInduction` says the same of a set of numbers,
  and follows from the well-foundedness of `<`. `up` is built from the root,
  `down` from the last position. The same induction proves what they return.
- The heap. Before each step of `up` and of `down` one timer may be out of
  order, and its parent is not later than its children (`UpPre`, `DownPre`);
  a swap hands this on (`UpStep`, `DownStep`), and the end is a heap in order
  (`UpGood`, `DownGood`). `PushGood`, `PopGood` and `RemoveGood` follow.
  `RemoveGood` includes the branch of `heap.Remove` that moves a timer up,
  which needs a heap of six: the three timers of the run never take it.
- The queue. Moving, growing and shrinking keep the elements (`MovedToSame`,
  `MovedToFrontSame`), so `Push` appends and `Pop` takes the first
  (`QueuePush`, `QueuePop`), whatever the capacities.

**LruCache.** The first lemmas turn what `list.Remove`, `list.PushFront` and the
eviction do to a sequence into what they do to its keys, its entries and their
order; `RemoveGood`, `GetGood` and `PutGood` say the same of the operations of
an `LruCache`. `ValueInv` carries `HitIsRight`: an entry holds the latest value
and does not outlive its time. For `LruCache2Q` it says more of an entry of the
queue, that it has not been renewed: this bounds what `Put` computes from the
expiry time of an entry it promotes. `OrderInv` says that the list of an
`LruCache` has its keys in the order of their last use (`Rank`; the lemma
`TouchedFacts` shows that a use moves one key to the front and no other key past
another), so that what is at its back is the key used longest ago. `EvictInv` is
`EvictsOldest` stated with `Rank`; a key once evicted stays behind all the keys
that are held, whatever is used since. That no key is in two places of
`LruCache2Q` (`Consistent`) is inductive with the types.

Only model-checked: all liveness (`EndsLikeConnection`, `SendersReleased`,
`ServeEnds`, `WaitEnds`, `SignalSeen`, and the `CloseEnds`, `CallsEnd` and
`RunEnds` of the modules), since fairness and `ENABLED` are outside what the
prover supports. Every safety property of every passing run is a theorem.

## 5. What is not modelled

- The clock of the heartbeat (when exactly a silent peer is given up).
- The parsing of WebSocket addresses (`endpoint`, which is one step that may
  fail), TLS, headers and proxies; socket options that cannot fail; reads with
  an empty buffer, which return at once.
- Traffic counters, which are independent atomics.
- A `Run` inside a timer callback, and the int64 overflow of `now + interval`
  (`timer_manager.go:95`): times are natural numbers. A sum that overflows would
  be earlier than `now`, and a `Run` without a limit would collect the timer for
  ever.
- The WaitGroup's own checks inside `Add` ("misuse: Add called concurrently
  with Wait"), which need the same late `Add` as the panic of `WaitPanics`.
- The error that `Close` of a connection returns (`closeErr`).
- Two readings of the clock in one operation of the caches. `Get` of
  `LruCache2Q` reads it for the check of the expiry and again for the renewal
  (`lru_cache.go:263`, `269`), and `ShardLruCache.Put` computes the expiry before
  the shard takes its lock (line 176). The bound of `HitIsRight` on how
  long an entry is served holds up to the duration of one operation.
- `ShardLruCache.SetHashFunc` after entries exist, which takes no lock.
- Partial writes of a log record, and two rotations in the same millisecond,
  which the package's documentation excludes.
- `http_utils.Session`: one lock is held for a whole request, so requests do not
  interleave, and a hook that calls the session waits for itself. What is left
  is the construction of one request and the restoring of three fields.
- The sequential helpers, wrappers and I/O at the end of the table in 1.

## 6. Where the code and its documents differ

1. **`session_server_setup`.** If the set-up of an accepted TCP or KCP
   connection fails, `Accept` returns a typed nil pointer in its `Transport`.
   The accept loop tests `transport != nil` (`session_server.go:95`) and calls
   `Close` on it, so `Serve` panics; `network/README.md:465` says it cleans up
   and returns the error. `SessionClient` makes the same test
   (`session_client.go:74`): there the panic leaves `Wait` without a result,
   which is why `WaitEnds` excepts it.
2. **`task_runner_panic`.** A `Submit` that waits for a token, or has passed
   its check, sends on the channel that `Close` closes, and panics;
   `gpool/README.md:53` says that it returns. The WaitGroup then never reaches
   zero, and `Close` hangs, or panics if the late `wg.Add` falls between the
   wake-up of its `wg.Wait` and its return.
3. **`timer_limit`.** `Run` bounds the size of its execution queue, not the
   number of calls: the queue is compared with `limit` after a timer was added
   (`timer_manager.go:98`), and all that is in it is called back (line 104).
   When a callback panics the rest stays in the queue, so the next `Run` may
   call back more than its limit: three with a limit of 2 in this run.
   `timer_manager.go:68` calls the parameter the maximum number of executions
   and `timer/README.md:59` says that only `limit <= 0` means no bound on a
   round. `CallsWithinLimit` is the bound that the code keeps.

## 7. Plan

Done: the modules of section 2, in the order connection, sessions, listener,
pools, timers, log, caches, transports, and the proofs of section 4. Next, in
this order:

1. the heartbeat with explicit time (a peer that sends is never given up while
   callbacks return promptly), as a module beside `Conn`: inside it, counting
   the ticks of silence multiplies the states of run `conn` beyond its time;
2. the composition of `SessionServer` and `WsListener` through the `Listener`
   interface: the end of `Serve` from the end of `Close` of the listener.
