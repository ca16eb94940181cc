# Verification of InterprocessMemPool

TLA+ models of the library's memory pools (in shared memory and in the heap), its
interprocess pipes and routers, its reference-counted shared-memory objects, and of
its networking: sessions and their registry, rate limiting, discovery by broadcast,
the TCP client and the threads it runs on. They are model-checked with TLC, and
every safety property that a run checks is also proved with TLAPS, for every size
of the system.

    tlc -workers 2 -config MCHeapPool.cfg MCHeapPool.tla
    tlapm PipeIPC_proofs.tla

`PROJECT.json` lists every run with its module, configuration and properties,
the source lines each definition stands for, the hazards the properties are
aimed at, and, for each property, a mutation of the model that breaks it.

## 1. Inventory

### MempoolIPC (`src/MempoolIPC/src`)

| component | state | operations | interacts with |
|---|---|---|---|
| `RawMemoryIPC` | a raw allocation and its aligned start | `Allocate`, destructor | the segment manager |
| `AllocatorState` | stack of block offsets, `nAvailable`, `initialized`, a mutex | `Allocate`, `Loan`, `Accept`, `Statistics` | called by both allocators, from any process |
| `ObjectAllocator`, `ControlBlockAllocator` | a shared pointer to their `AllocatorState` | `allocate`, `operator()` (dispose), `deallocate` | called by boost's `shared_ptr` |
| `MemPoolIPC` | the two allocators, `nElements`, `countPerElement` | constructor, `make_pooled`, `ReConstruct`, `Statistics` | two buffers, each under its own mutex |
| `MemPoolGrowerIPC` | the current pool, a mutex | `make_pooled` | replaces its pool when it yields null |
| `PipeIPC` | ring of shared pointers, two indices, `size`, a mutex, semaphores `nempty` and `nstored`, `shutdown` | `Send` (three modes), `Receive` (two), `Shutdown`, `operator bool` | senders and receivers in different processes |
| `RouterIPC` | vector of weak pipe pointers, a mutex | `RegisterAsReceiver`, `Send`, `Shutdown`, `NumReceivers` | calls the pipes with its mutex held |
| shared objects | a named object, its counter and mutex in a segment | `find_or_create_shared_object`, deleter | the segment |
| shared mapping | a named segment with a counter and mutex in it | `open_or_create_mapping`, deleter, `RemoveSharedMemoryNuclear` | the operating system's names |

### MempoolHeap (`src/MempoolHeap/src`)

The same pool for one process: `AllocatorState` with a throwing `Loan` and
statistics of the minimum ever available, `SharedPointerAllocator` (object and
control block in one block), `SharedPointerArrayAllocator`, a pass-through pool.
Their memory is in `RawMemory` objects (an address, its size, the aligned start;
`Allocate`, destructor): one for the blocks, one for the stack of pointers to
them and, for arrays, one for the elements. The copies of the allocator in the
control blocks keep them until the last handle is gone.

### Networking (`src/Networking/src`)

| component | state | operations |
|---|---|---|
| `websocket_session` | send queue, `upgraded`, the stream | resolve, connect, handshakes or accept, read, `sendAsync`/`on_send`, `on_write`, destructor; all on one strand |
| `shared_state` | four sets of raw session pointers, four vectors of weak pointers, callbacks, a recursive mutex | `upgrade`, `downgrade`, `join`, `leave`, broadcast and addressed `sendAsync`, `queue_sizes_summed` |
| `detect_session`, `http_session` | parser, queue of at most 8 responses, send queue | detect TLS, handshake, read, write, upgrade to a websocket, `sendAsync` |
| `rate_limiter` | rates per enforcer, a mutex | register, unregister, share of the allowed rate |
| `UtilsASIO` | UDP receiver and its timer, heartbeat, guarded io_context | receive, time out, send, `Run`, `Shutdown`, signals |
| `MultiClientSender`, `MultiClientReceiver` | topics, known servers, their sessions | broadcast and listen on UDP, connect, `SendAsync` |
| `TCPClientBase` | connection, write queue, `connected_` | connect, send, close |
| `listener` | the acceptor | accept, start a session |

### What is hard, and what makes each part correct

* **AllocatorState**: callers return blocks in any order and nothing is
  verified; no block may be lost, loaned twice or overlap another.
* **MemPoolIPC**: an element is created and released in several separately
  locked steps, in several processes. An object must have one owner, a handle
  must not outlive its object, nothing may leak except where a constructor threw.
* **MemPoolGrowerIPC**: growth while elements come back, and growth that fails.
* **PipeIPC**: the wait, the check of the flag, the locked access and the post
  are separate; `Shutdown` adds tokens with no element or slot behind them;
  waits time out; a process can die anywhere.
* **RouterIPC**: pruning moves the vector under iteration, receivers come and go
  and shut down, and `Send` may block with the mutex held.
* **Shared objects and mappings**: last close against open, constructors that
  throw, killed processes that never decrement.
* **websocket_session**: one write in flight at a time, dropping from a full
  queue whose front is being written, failures, destruction at any moment.
* **http_session**: two chains of asynchronous operations, reads and writes,
  coupled by the queue of responses, which stops and resumes the reading; raw
  messages and upgrades on the same stream.
* **Heap pool**: arrays are built object by object, each of which may throw, and
  destroyed outside the mutex by `Accept`.
* **RawMemory**: it asks for `alignof(max_align_t)` bytes more than it needs and aligns
  within them; a type may be aligned more strictly, sizes may wrap, memory may run
  out for one buffer of a pool and not for another.
* **rate_limiter**: shares are computed from a sum others change meanwhile; ids
  are indices into a vector that swaps and pops.
* **Discovery**: a broadcast and a request find the same server at once; sessions
  end at any time and have to be found again; one handler, many clients.
* **UDPReceiver**: a timeout that races a datagram and a moved deadline, on threads
  that share no strand.
* **GuardedContext and TCP client**: `Run`, signals and two `Shutdown`s in any
  order; a read, a write and a close that fail together; late handlers.
* **shared_state**: sends walk a copy of the registry without its mutex, and the
  copy is a member that the next send refills; whoever drops a session's last
  pointer runs the destructor, which takes the mutex, perhaps once more.

The lines where each of these bites are in `PROJECT.json` under "hazards".

## 2. Modules

Every state variable is named as in the code where possible. Variables and
conjuncts marked "history" record what happened, for the properties only.
Operators whose comment says "Mutant" are deliberate bugs; nothing uses them.

**`AllocatorState`**: one action per method, each atomic because the method
holds the mutex. Offsets are real byte offsets, so the spacing computed in
`Allocate` matters. `loaned` is history and is what a caller may return.

**`ElementPool`** (abstract): who holds which element; acquire a free one, share
a reachable one, drop, lose.

**`MemPoolIPC`**: instantiates `AllocatorState` for the objects and again for
the control blocks. `make_pooled` is `LoanObject` followed by `WrapObject`,
`WrapAtNull` (exhausted control blocks) or `ConstructorThrows`. Releasing is
`Release`, `Dispose`, `WeakRelease`, `Destroy`. The use and weak counts follow
boost's `sp_counted_base`, which is external: atomic counters, `add_ref_lock`
that fails at zero. The model is a refinement of both `AllocatorState`s
(`BuffersImplement`: the pool returns only what it loaned, once) and of `ElementPool` (`PoolImplements`).

**`MemPoolGrowerIPC`**: `make_pooled` under the mutex in up to three steps (take,
grow, retry), the releases without it. A pool is the set of slots `ElementPool`
hands out and a count of the control blocks that outlive their objects (`zombies`). `Take`
is the pool's `make_pooled` with an object left: T's constructor may throw, and the
object never comes back (`lost`), or no control block is left and the process faults at the null
one (`WrapAtNull` of `MemPoolIPC`), with the grower's mutex.

**`BoundedQueue`** (abstract) and **`PipeIPC`**: a step per access to a
semaphore, the flag, or the ring under the mutex. `PipeIPC` refines
`BoundedQueue` while nobody shuts it down. `size` is an unsigned number: modulo
`SizeModulus` in the model, which stands for 2^64.

**`RouterIPC`**: `Send`, `Shutdown` and `NumReceivers` as a loop with an index
over the vector, a step per iteration and per step of the pipe's `Send`; the
pipes are bounded queues with a flag. `Shutdown` of a pipe appears here as its
flag only; what its extra semaphore tokens do to the ring is `PipeIPC`'s matter.

**`UtilsIPC`**: the named segment with its counter, and the named object with its
own counter inside it. Opening the segment and counting oneself in are two steps;
uncounting, unmapping and removing the name three, as the comment on
`open_or_create_mapping` describes. A lookup or a release of the object is one
step: its mutex is held throughout. The operating system is external: a name
stands for a segment until it is removed, and mapped segments survive. When the
object is destroyed, pointers that other processes still have become "dangling";
that is how a premature destruction shows.

**`SendQueue`**: the queue of outgoing messages, which both kinds of session contain
word for word: `sendAsync` posting to the strand, the rule by which `on_send` drops from
the queue, and the calls of the handlers. Messages are records of what the code looks
at: their kind (forced or not, with bytes in them or not) and the queue limit they came
with. `WebSocketSession` and `HttpSession` extend it.

**`WebSocketSession`**: one step per handler; they share a strand. A client goes
through the stages resolve, connect, TLS handshake (if any) and handshake, a server
starts at the accept; the user may send as soon as there is a session. `op` is the
one asynchronous operation that will call `on_write`.

**`HttpSession`**: one step per handler on the strand, from `detect_session` to the
destructor. `reads`, `writes` and `shutdowns` count the pending operations, so
that a forked chain shows as 2. `items` is the queue
of responses, of which the code looks at the length and the "need eof" of the
front. A TLS stream that an upgrade has moved out is a null pointer or an empty stream,
depending on the build: using it ends the process (`UseMovedStream`) or fails. `protocol` chooses between HTTP and the plain TCP of a server configured
so, where a read is a header or a body.

**`SharedState`**: `Fill` (under the mutex), a step per pointer promoted, and
`Post`, which ends the pointer's scope; `queue_sizes_summed` likewise with the
mutex held. Destroying a session is `Destroy` on its own thread or `Erase` on the
caller that dropped the last pointer. The four member vectors are one sequence
(`pool`), and the session classes the two kinds that calls distinguish. Refilling
the vectors under another call's walk is a data race: from there on
(`overwritten`) the walk may find any live session, skip, stop, or crash. So may
`queue_sizes_summed` after the element under its loop was erased. A session
itself is only its lifetime and its inbox here: that it handles what is posted to
it is what `EventuallyHandled` and `EverythingAnswered` check.

**`HeapPool`** extends `AllocatorState` (the stack is the same code but for `Loan`,
which throws instead of answering null): building the pool, `allocate_shared`,
`allocate_raw` object by object, the counts of `std::shared_ptr` (external), and
`Accept` in two steps, the destructor callback and the push. The pool of objects,
of arrays and of arithmetic arrays differ in `kind`.

**`RawMemory`**: addresses and sizes are numbers, and sizes wrap as a `size_t` does.
The allocator, external, gives any address at which the bytes fit, or none;
`std::align`, external, is its definition in the standard.

**`HeapPoolMemory`** composes the two: the constructors ask for the buffers in the code's
order (`Ask`), each of which may fail to be had or to be aligned; that decides whether
there is a pool (`BuildInMemory`, `BuildWithout`) and whether it has arrays. Threads
use it (`Work`), and the memory goes back when the pool and its last handle are gone
(`FreeMemory`), in any order of the buffers.

**`RateLimiter`**: `update_and_get_allowable` under a shared lock is `StoreRate`, an
`AddRate` per rate and `Unlock`, between which other holders of the shared lock
store theirs; registration takes it alone. A share is an integer; the doubles' product cut to a `size_t` may
come out one below the exact one. `Alpha` and `Trigger` are multiples of 1/`Unit`. An
instantaneous rate stands for bytes and time and, like the moving average, is in
1/`Precision`; `MaySend` compares the exact average with the share, and the average that is
kept is rounded up, so that it never comes down to 0, as a double's does not. Only a message
without bytes has a rate of 0.

The names of `HttpSession` and `RateLimiter` (`HttpInit`, `phase`, `RateNext`...) differ
from those of `WebSocketSession`, because one module of proofs extends all three.
Likewise those of `MemPoolGrowerIPC` differ from `MemPoolIPC`'s, those of `UtilsIPC`
from `HeapPoolMemory`'s, and those of `Discovery` from `ClientOnContext`'s.

**`UDPReceiver`**: the receive and the timeout actor, with the wait of the timer
that is cancelled, or is too late to be, when the deadline moves. `check_timeout` is three
steps, the look at the deadline (`CheckTimeout`), the user's callback, which stops the context
(`StopContext`), and the socket's close (`CloseSocket`): there is no strand, and a
receive may be started on another thread in between.

**`Discovery`** extends it with the sender's ports and heartbeat, `ProcessBroadcast`,
the request timer, `ConnectToServer` in two steps (find and create; store and
unlock) and `SendAsync` as a loop under `clientsMutex`. A session is a slot
with an owner and an inbox, and ends when it likes: what becomes of a handler in
its inbox is `WebSocketSession`'s matter. Other datagrams (`Strays`) mention no
port, come from this process, are about another topic, or have a number of too many digits,
which ends the process (`ParseThrows`).

**`GuardedContext`** and **`TcpClient`** have actions only; **`ClientOnContext`**
composes them. A worker takes any ready handler whose strand is free, the whole
handler is one step, and returning from it another, so that a handler is running
while others call `Shutdown`. When the context is destroyed the client's pending
operations go with it.

The `MC...` modules declare model values and symmetry sets for the `.cfg` files.

## 3. Runs, bounds and what they show

* `allocator`: 2 blocks, arrays of 2 objects, 2 threads, 2 pointers of each sort:
  one thread builds or fails while the other copies, locks and lets go, and blocks
  come back in either order. 18 addresses, of which all buffers of a pool take
  about as many, so that memory runs out for any of them; among the types of a
  block one is aligned more strictly than `max_align_t` and one is so large that
  the product of sizes wraps. TLAPS covers the other sizes of all this.
* `pool`: 2 processes, of which one may be killed, 2 elements, constructors that
  may throw: a release can overlap a creation, and the control blocks can run
  out while an object is free. All of ownership, the refinements of both buffers
  and of `ElementPool`, and reclamation.
* `grower`: 2 processes, 4 generations of pools starting from size 0, elements
  with and without objects, constructors that throw, and control blocks that are still out
  when the pool is asked again.
* `pipe`: 2 senders with two sends each and 2 looping receivers over a capacity that
  wraps and fills, waiting for ever or with a deadline, one receiver may be killed,
  and one Shutdown comes at any point. `SlotsAccounted`, `PipeImplements` and
  `Delivered` speak of the time before it, `SafeAfterShutdown` and
  `OneSenderReleased` of the time after.
* `router`: 2 callers, 2 receivers, 3 pipes of capacity 1, `Send` with and without
  a deadline, `Shutdown` and `NumReceivers`: pruning of the first, middle and
  last pipe, a pipe that fills, one created during a `Send`.
* `utils`: 3 processes, one may be killed, 2 segments (one being closed while the
  other is opened), an object limit of 2 so that it is met, throwing
  constructors, full segments and `RemoveSharedMemoryNuclear`.
* `session`: 4 messages with at most 2 waiting on the strand, limits 2 and 3: the
  queue holds a front and droppable messages when a smaller limit arrives. A
  client fails at any stage, with messages queued before it is open. An empty
  forced message is left out: it takes the branch of an empty one and the drop
  rule of a forced one.
* `http`: a queue of 2 responses instead of 8, 4 requests and 4 raw messages: the
  queue fills and drains more than once, with a raw message sent, aborted or
  dropped in between, on HTTP and on plain TCP.
* `shared_state`: 2 callers with one call each, to any kinds of session or one
  endpoint, or a sum; 2 sessions of different kinds and endpoints. Two callers
  are enough for one to disturb the other, two sessions for a pointer to expire
  before or behind another.

* `rate`: enforcers come and go in any order, with two maxima, and the rates are
  small enough for the shares to be cut, down to 0, and large enough to exceed a maximum.
  A send has the slowest rate there is or one as fast as a share. `Trigger` 3 and `Alpha` 1
  with `Unit` 2 stand for the code's 1.1 and 0.1: both satisfy what `SilenceEnds` assumes.
* `client`: 1 worker, a caller of `Shutdown` and the owner, which also destroys;
  2 runs (the second after a close, with late handlers of the first), 2 writes, 1
  close, plain and TLS. One worker suffices: the client's handlers share a strand,
  and a second would only run handlers of others.
* `discovery`: one server, bound or not, whose name is also requested, one stray,
  one send to one client or to all. The stray without a port makes a second
  session, so that a send meets two clients; two session objects are enough,
  which `OneSessionPerServer` shows. `SendReachesAll` says that a send leaves none of its
  targets out, though one has been created just before it and sessions end meanwhile.

Each module has one type invariant; most are a conjunct of another invariant
(`LoansExact`, `ElementsPlaced`, `ObjectLifetimes`, `Ownership`, `NeverEmpty`, `SlotsAccounted`, `EachPipeServed`, `HandlesLive`,
`QueueServed`, `OneReadUnlessFull`, `RegistryValid`, `OneSessionPerServer`).

Disagreements between the code and what it says of itself, met while modelling:

* `RouterIPC.h:174` says of the single `nempty.post()` in `Shutdown` "notify any
  pending senders"; it wakes one, which fails its check (117) and does not post
  again. `OneSenderReleased` states what does hold: one of them is released.
* `UtilsIPC.h:151-153` says that "the last reference to that object (among ALL
  processes) will automatically destroy it"; when the constructor throws, the null
  pointer returned was never counted (201) but has the decrementing deleter
  (211-214), whose release can destroy an object made in the meantime.
  `HandlesLive` excepts runs in which a construction threw.
* `UtilsASIO.hpp:130-138` says that `check_timeout` calls itself whenever the timer
  is reset; it returns on the abort (145). `run` resets the timer right after
  waiting on it, so the actor usually ends before it began, and no timeout is
  noticed unless the first wait had expired already.
* `UtilsASIO.hpp:151-154` says that a deadline that was moved is taken into account. The
  look at it (154), the callback that stops the io_context (159) and the close (163) are
  separate, and nothing keeps another thread from receiving or starting a receive in between:
  the context may stop with a datagram just received. No property says otherwise, and the
  liveness of `Discovery` ends with a stop.
* `MultiClientReceiver.hpp:50-66` calls `stoull` on any number of digits; with too many
  it throws `out_of_range` out of the handler of the datagram and out of the io_context's
  thread, which ends the process. `Reconnects` and `HandlerCalledOnce` except it.

* `MemPoolIPC.h:573-574` says that allocating a control block throws `bad_alloc`
  when memory runs out; `Loan` returns null, and boost builds the control block
  there (591-595). `WrapAtNull` models it, `NullOnlyAfterDispose` (in `Ownership`) says when.
* `RouterIPC.h:177` says of `operator bool` "not shutdown OR has queued elements";
  after `Shutdown` an empty pop wraps `size` (160), and it stays true with
  nothing queued.
* `RouterIPC.h:91` announces "return hadError", but a `Send` on a pipe already
  shut down returns false without sending (94-98); `EachPipeServed` excepts it.
* The drop loop of `websocket_session.cpp:113` starts at the third message, so a
  `max_queue_size` of 2 lets three unforced messages queue; `QueueServed` allows
  for it.
* `shared_state.cpp:248` calls the vectors "a local list"; they are members that
  concurrent sends overwrite. `ReachesItsSessions` and `HandlerCalled` except it.
* `~websocket_session` unregisters (`websocket_session.cpp:291`) when the derived class, and
  with it `enable_shared_from_this`, is already destroyed; a walk of the registry that calls
  `weak_from_this` then (`shared_state.cpp:101`, 260) is formally undefined. The model has what
  it finds in practice, a weak pointer that has expired.
* `shared_state.cpp:101`: `strong` may hold the last pointer of a session, whose
  destructor then erases the loop's element. `HandlerCalled` excepts its crash.
* `http_session.cpp:247` aborts raw messages while responses are queued, but
  nothing stops a response from being written while a raw message is being sent.
* A TLS session whose handshake fails leaves a `shared_state` it never joined
  (`StartFails`): harmless but for its `callbackClose`.
* Responses queued when a request upgrades are written to, or shut down on, a
  stream that has been moved from, and raw messages are sent on it; a TLS session may start
  two shutdowns. Where the moved-from TLS stream is a null pointer the process crashes:
  `EverythingAnswered` excepts it.
* `~http_session` calls none of the handlers still queued when the io_context is
  destroyed, as `~websocket_session` does; `EverythingAnswered` excepts it.
* `ssl_websocket_session::on_connect` does not report its errors (439-443), as the
  plain one does.
* `allocate_raw` whose constructor throws half way destroys the whole array,
  objects never constructed included (`MemPoolHeap.h:561`), and after a failed
  allocation of the arrays it builds them at a null address (588): undefined.
  `ObjectLifetimes` admits the consequences.
* `MemPoolHeap.h:167` says "TODO CHECK ALIGNMENT"; `ElementsPlaced` answers: every element
  is aligned, and an over-aligned type may get no memory. It is stated for sizes that do
  not wrap: `sizeT*nElementsTotal` (46) is not checked, and a product that wraps is
  allocated, too small, without an error.
* A share that `rate_limiter.cpp:46` cuts to 0 shuts its session up for as long as it stays
  0, however long it is silent: every message with bytes has a rate above 0 (119), so the
  average is above the share (132). `SilenceIsEnough` says that a silence is enough for
  exactly the other sessions.
* `rate_limiter.cpp:46` divides 0 by 0 when nobody has sent, and converts the NaN to
  a `size_t`; ids that went stale at 56 may read or write another's rate, and
  shares may then exceed the maximum.
* `TCPClientBase::on_resolve` runs outside the strand. Its destructor closes a socket
  that the derived class has destroyed, if it is still connected, which
  happens only when the io_context went first (`DestroyedUnconnected`).
* `GuardedContext::threads` is read by `Shutdown` without `Run`'s knowledge: a data
  race, modelled as a snapshot of the threads there are.
* `MultiClientReceiver::SendAsync` with the default, empty, handler throws
  `bad_function_call` when there is no client; with a handler it calls it under
  `clientsMutex`. `ListenForTopics` binds a raw `this` (285), so the receiver must
  outlive the io_context. A datagram without a port is taken for one with port
  65535 (50). Entries of `clients` are never erased.

`CHECK_DEADLOCK FALSE` is set where the bounds on calls, a killed process
holding a mutex, or a crash bring the system to rest.

## 4. Fairness

* `MemPoolIPC`: `WF` of the steps of an operation that has begun (they take a
  mutex for a bounded time and never wait for another event). Releasing a handle
  is the user's decision and has no fairness.
* `PipeIPC`: `WF` of each call's next step. Weak fairness is enough for the
  mutex and semaphores because the bounded number of sends leaves a waiter
  eventually undisturbed; we do not assume that semaphores are first-come
  first-served. `LoopingSpec` adds that receivers call `Receive` again, as the
  examples' loops do.
* `RouterIPC`: `WF` of the loop of the mutex's holder.
* `UtilsIPC`: live processes finish an open or close they began, and let go of
  their object and mapping, by the shared pointers' scopes. A killed process is
  included in `NameReclaimed` as an excuse, not as an exception to fairness: no
  action of it is enabled.
* `HttpSession`: the same as `WebSocketSession`; no fairness for reads, clients
  may stay silent.
* `SharedState`: a call that has begun goes on, sessions handle what is posted to
  them. None for `Close`: a session may stay open for ever.
* `GuardedContext`: a handler returns, and a thread that is in `run()` after the stop,
  or in `Shutdown`, goes on.
* `Discovery`: handlers run, timers expire, sessions handle what is posted to them.
  `SF` of taking `clientsMutex` (its holders alternate) and of a heartbeat's
  arrival: of infinitely many datagrams sent to a waiting socket some arrive. None
  for the end of sessions, strays, errors, or timeouts.
* `WebSocketSession`: the io_context runs ready handlers, and the stream
  completes each write, if only by an error.

## 5. Proofs

A component's proofs are in the module `<Component>_proofs`, but for

* the grower's, which are in `MemPoolIPC_proofs`;
* those of both sessions and of the rate limiter, in `Sessions_proofs`;
* those of named objects, the heap pools and their memory, in `Lifetimes_proofs`;
* those of the TCP client on its context and of discovery, in `Clients_proofs`.

Each states an inductive invariant (`IInv`; `GrowerIInv`, `SessionInv`, `HttpInv`,
`RateInv`, `UtilsInv`, `HeapInv` and `DiscoveryInv` where a module has several), proves it
(`Invariance`, `GrowerInvariance`...) with one lemma or step per action, and derives from
it the invariants and refinements the runs check. The theorems hold
for every value of the constants that the component's named assumption admits; the
bounds on calls, sends and so on are constants, so any bound will do.
TLC checked each of them on the run's instance before its proof was written.

**Assumptions.** Beside the typing of constants: the sets of processes
(`UtilsIPC`, `MemPoolIPC`, `PipeIPC`'s senders and receivers) and of sessions
(`SharedState`) are finite, because the code counts their members in integers.
Nothing is assumed of `Faulty`, the processes that may be killed, except that they
are processes. `SizeModulus` only has to exceed the pipe's capacity. `RawMemory` assumes
what C++ guarantees, that the size of a type is a multiple of its alignment. Where the code
allows interference that its own data does not survive, the theorems say
what the invariants say: `PipeIPC`'s accounting ends with `Shutdown`, `SharedState`'s
walks with the refill of their vectors, `UtilsIPC`'s meeting place with a raced open.
One theorem has a hypothesis: `SilenceEnds`, that `Trigger * (Unit - Alpha)` is less than
`Unit * Unit`, which is `rate_recalculation_trigger * (1 - alpha) < 1` in the code's
doubles. The defaults (`rate_limiter.hpp:61-64`: 1.1 and 0.1) satisfy it; with a larger
trigger a session can have to be silent for several sends.

**`AllocatorState_proofs`**: `LoansExact` (`LoansAreExact`), of which `TypeOK` and
`BlocksDisjoint` are conjuncts with theorems of their own.
`TypeOK` is not inductive: that `Accept` does not write past the stack follows
only from the count of blocks on loan (`StatisticsExact`), a block on loan being
one hole in the stack. The count is kept by `Loan` only because the popped offset
was not on loan already (`NoDoubleLoan`), and two cells hold different offsets
only because blocks have a positive size (`OffsetsApart`; arrays of 0 objects
never loan, `NothingToLoan`). Its contract, that callers return what they loaned,
once, is what `MemPoolIPC` is proved to keep.

**`MemPoolIPC_proofs`**: `Ownership` (`ElementsOwned`), `BuffersImplement`
(`BuffersContract`) and `PoolImplements` (`Implementation`). It instantiates
`AllocatorState_proofs` for each buffer, so that a step of the pool preserves the
buffers' `IInv` as soon as it is shown to be a step of theirs. The strengthening is
`Counted`: boost's use count is the number of handles, and its weak count is that
of weak handles plus one while there is a use or its last release is unfinished.
Hence only one process at a time can be releasing an element (`ReleasedOnce`), and it
returns the object and the control block once. `NullExplained` (part of `Ownership`) is by
counting: each object on loan is owned by one control block on loan, was leaked, or
is in the hands of a process under construction, so the control blocks run out first
only while one outlives its object.

The grower, in the same module: `NeverEmpty` (`OneGrowthIsEnough`) and
`GrowthFollowsDemand` (`GrowthBounded`). `Fresh`: releases may come at any moment of a
growth, but only its builder can take from the new pool. `Exhausted`: the pool it
replaces was all out at once, objects lost to a constructor included, so the demand reached
its size.

**`PipeIPC_proofs`**: `SlotsAccounted` (`EverySlotAccounted`), `SafeAfterShutdown`
(`ShutdownLosesNothing`) and `PipeImplements` (`Implementation`). Processes are counted
at each label, and lemmas about `CountAt` say what a step, a kill and a post change.
`RingExact` says where the full slots are, without which `size` cannot be related to
the ring. After `Shutdown` neither holds; `RoomLeft` is what remains: a sender past its
check still finds its slot empty. `Unsent` keeps messages of late senders out.

**`RouterIPC_proofs`**: `SameOrder` (`OneOrder`) and `EachPipeServed` (`PipesServed`).
`Walk` says that the pipes visited are the vector's first ones although pruning moves
its last pipe into the gap, and that none that anybody keeps is pruned; `Counted` what
the tally is meanwhile. `Current` is why the order is one: a message is the last of
every pipe it is in, and in none the loop has not reached, while its call lasts.

**`Lifetimes_proofs`**, named mappings and objects: `HandlesLive` (`CountersAndHandles`) and
`OneSegmentUnlessRaced` (`OneMeetingPlace`). `Meeting` extends the latter to processes that
have opened the segment and not yet counted themselves in.

`HeapPool`: `ObjectLifetimes` (`ObjectsLive`), and `HeapContract`: the pool, `Accept` in two
steps included, is a client that keeps `AllocatorState`'s contract, so that what is
proved there holds of it. `BlockOK` relates the two counts of a block to which of its
objects live: an object goes with the last `shared_ptr`, an array with the last pointer of
all. `ThreadOK` says where each thread can be with its block and `Alone` that no two
are busy with one; without them, the release of a weak pointer could return a block
that another thread is still disposing of. `Blame` traces undefined behaviour to its
causes, a constructor that threw in an array or arrays without memory. Blocks are
told apart by their offsets (`OffsetsDiffer`), which is arithmetic.

`RawMemory`: `ElementsPlaced` (`BuffersPlaced`) is inductive as it stands. The work is in the
lemmas: a quotient is within one of what it divides (`Quotient`), aligning moves an
address by less than the alignment (`AlignUpBounds`), so the slack covers it unless the type
is over-aligned (`Refused`), and in an aligned array of a type whose size is a multiple
of its alignment every element is aligned (`ArrayAligned`).

The composition: every step of `HeapPoolMemory` is one of the pool, of the memory or of
neither (`PoolParts`), hence all three invariants hold of the whole (`PoolSound`).

**`SharedState_proofs`**: `RegistryValid` (`RegistrySound`) and `ReachesItsSessions`
(`CallsReachTheirSessions`). `Dooms` says that one thread at most runs a session's
destructor, when nobody can reach it; `OwnWalk` what a walk has reached
so far, as long as the vectors are its own.

**`Clients_proofs`**, the TCP client: `ClientClosedOnce` (`ClosedOnce`), `OneWriteUnderWay`
(`WritesInTurn`), `ShutdownQuiesces` (`Quiesces`), in two invariants that the composed
steps preserve side by side. An attempt to connect is under way alone and never
beside a connection (`OneAttempt`), a connection always has its read (`Reading`), which
keeps the client alive; after its stop a `Shutdown` waits for whoever is in a
handler (`Quiet`), and the owner for every thread in `run()` (`OwnerWaits`).

`Discovery`: `OneSessionPerServer` (`OneSession`), `SendReachesAll` (`SendsReach`), and of
`HandlerCalledOnce` the half that is safety, at most once (`HandlerOnce`). `Places` says
that whoever created a session has `clientsMutex` until it is stored, and that the buffer of
the receiver is left alone meanwhile; `Known`, that a living session is in `clients` or in
the hands of that thread, which is why the broadcast and the request timer never both
make one. `HandlerOK` follows a handler through its places: not yet given, with
`SendAsync`, in one record of one inbox, or called. `Reachable`: while a `SendAsync` has the
mutex, each session it has yet to reach is for a name it has yet to visit.

**`Sessions_proofs`**, the send queue (`SendInv`): ids in the queue and in what is posted
ascend, the posted ones behind the queued ones, and no handler of theirs has been
called. That `on_send` drops exactly as many messages as it must is by the rank of each
droppable message among them: dropping down to a limit leaves forced messages only
(`DropsEnough`), and removing some keeps the order of the rest.

`WebSocketSession`: `QueueServed` (`ChainUnbroken`), `HandledWhenDestroyed`
(`DestructorHandles`) and `SentInOrder` (`OrderKept`). The strengthening is `Accounted`,
every message sent is posted, queued or handled, without which a destructor could
miss one, and `WireBehind`, the last message written comes before all that wait.

`HttpSession`: `OneReadUnlessFull` (`ReadsPaced`). `Pipeline` relates the reads and writes
under way to the queue of responses: reading ends only while the queue has room, which
stays, writing only with a response in it, which stays too, so that neither chain is
taken up again by the other; `Goodbyes`, that each starts at most one shutdown.

`RateLimiter`: `IdsValid` (`IdsInOrder`), `SharesWithinMax` (`SharesLimited`) and
`SilenceIsEnough` (`SilenceEnds`). `SumsToDate`: an enforcer whose update began after the
last change has summed a prefix of the rates, whoever stores the same again meanwhile.
`Sum` is a recursive function, and what it yields is proved by `Induction`, a form of
induction over a set that follows from the well-foundedness of the naturals
(`SumsIs`, `SumBounds`, `SumsScale`). Every place of the vector belongs to one
enforcer (`EveryPlaceTaken`: the ids are an injection into as many places), so each
share is at most its rate's proportion of `min(sum, max_byterate)`, and so is their sum.

**Only model-checked**: liveness, which needs fairness and `ENABLED`, beyond the prover:
`Reclaimed`, `Delivered`, `OneSenderReleased`, `MutexComesBack`, `NameReclaimed`,
`EventuallyHandled`, `EverythingAnswered`, `HandlerCalled`, `ShutdownReturns`, `Reconnects`
and the second half of `HandlerCalledOnce`, that a handler is called at all.

## 6. Not modelled

The components with status `not_modelled` in `PROJECT.json`, with the reason
there. Inside the modelled ones: the padding of blocks; the alignment of the raw buffers
in shared memory, which is the segment manager's (that of the heap's is in `RawMemory`);
the count of an array times the pool's size where that product wraps; the memory of
the throw-away object from which the heap pool learns the size of a block;
array elements' construction order; the sizing construction of the
control-block allocator (it works on an allocator of its own); exhaustion of the
segment while a pool or a pipe is constructed (an exception, and no pool comes
into being); what `operator bool` is used for; callbacks of `shared_state` that
call `sendAsync` again from within a destructor; handlers given to `SendAsync` that
send again; `RequestTopics` for a topic without callbacks; the bytes of messages,
files and responses. A `MultiClientReceiver`, a `Heartbeat` and the objects given to a
`GuardedContext` are assumed to live as long as their io_context. Processes killed while they hold
a mutex are modelled in `PipeIPC`, and between steps in `MemPoolIPC` and
`UtilsIPC`; a mutex held by a dead process stops everybody else, as in the
code.

## 7. Plan

Done: the interprocess library, the heap pools and their memory, the sessions and their
registry, rate limiting, discovery, the TCP client and its context; proofs of all their
safety properties.

What could follow: a segment that fills while a pool or a pipe is built in it
(`RawMemoryIPC`), the listener's accept loop together with the sessions it starts, and
`TcpClient` with the HTTP client's parser on top of it.

The abstract specifications `ElementPool` and `BoundedQueue` are what later
modules are built on (the grower and the router).
