# TLA+ models of stdnet

stdnet is a header-only C++ library that gives sender/receiver (`stdexec`) interfaces to
sockets and timers. This directory holds TLA+ modules of its asynchronous core, the TLC
configurations that check them, and TLAPS proofs about them. Paths below are relative to the
repository, `include/stdnet/` left out where it is clear.

## 1. Inventory

| component | state | operations | correct when |
|---|---|---|---|
| Asynchronous operations (`cpo.hpp`, `io_base.hpp`) | per operation: the counter `_D_outstanding`, the optional stop callback `_D_callback`, `_Extra` (the event) | `start`, `_Start`, `_Complete`, `_Error`, `_Cancel`, the callback, the upstream receiver | the receiver is completed once, with what happened; nothing touches the operation after that; stopping completes it |
| libevent context (`libevent_context.hpp`) | `_Container` of native handles, `event_base`, the events in it | `_Make_socket`, `_Release`, `_Accept`, `_Connect`, `_Receive`, `_Send`, `_Resume_after`, `_Resume_at`, `_Cancel`, `run_one` | an operation that was submitted is in libevent until it is completed or cancelled, unless adding its event failed; the outcome reported is that of the system call |
| poll context (`poll_context.hpp`) | `_Container`, the parallel vectors `_D_poll` and `_D_outstanding` | the same, with `_Add_Outstanding` and a scan in `run_one` | the vectors stay aligned; an operation completes after its readiness |
| Container (`container.hpp`) | `_Records`, `_Free` | `_Insert`, `_Erase`, `operator[]` | ids in use are distinct, freed ids are reused, none is lost |
| Socket objects (`socket.hpp`, `basic_socket.hpp`, `basic_stream_socket.hpp`) | `_D_context`, `_D_id` | construct, move, `open`, `close`, destroy | a native handle has one owner and is closed once |
| Timers (`timer.hpp`) | the duration or time point of the operation | `async_resume_after`, `async_resume_at` | the wait is as long as was asked for |
| `io_context`, scheduler | the context, owned or not | `run`, `run_one`, `get_scheduler` | `run()` goes on while there is work, and leaves none behind |
| Endpoints and addresses, buffers, options | values | conversions | (no behaviour in time) |
| Examples (`examples/*.cpp`) | coroutines, an `async_scope`, `keep_running` | accept loops, `when_any` with a timeout, shutdown | conversations end; shutting down ends the program; nothing needs a loop that is no longer run |

**How they interact.** A sender made by `_Cpo` is connected to a receiver: that makes a
`_Cpo_State`, which is at once the operation state and the `_Io_operation` the context knows.
`start()` starts the upstream sender; the upstream's `set_value` calls `_Start()`, which
registers a stop callback and submits the operation to the context by a virtual call that
arrives in `_Libevent_context::_Accept` and its like. The context makes an event with a C
callback. When the event fires, `event_base_loop` (in `run_one`) calls it, the callback calls
the operation's `_Work`, and `_Work` calls `_Complete` or `_Error` on the operation, which
completes the receiver. `request_stop()` on the receiver's stop source calls the stop callback,
which calls the context's `_Cancel`. Sockets are named by `_Socket_id`, an index into the
context's container, held by the socket objects.

**What is hard.** Three parties count an operation out: `_Start()`, `_Work` (or `_Submit`), and
the stop callback, and their order is not fixed. A receiver may destroy the operation state as
soon as it is completed. Ids are reused, and so are native handles: an event watches the handle it was made
for, and its callback looks the handle up again by id. One turn of the loop calls back for every
event that was ready when it began, with blocking system calls, so that one callback can take
what another was woken for. The errors of a submission are reported from inside
the submission. `PROJECT.json` lists the hazards one by one, each at its line.

## 2. Modules

| module | of | says |
|---|---|---|
| `AsyncOp` | the completion signatures of `_Cpo_Sender` (`cpo.hpp`) | the promise to a receiver: started, then completed at most once; stopped only if asked; completed if asked to stop |
| `CpoState` | `cpo.hpp`, and `libevent_context.hpp` per operation | the mechanism; implements `AsyncOp` |
| `MCCpoState` | - | its instances for TLC |
| `CpoStateProofs` | - | theorems about `CpoState` |
| `SocketTable` | what contexts use a container for | a table from ids to native handles |
| `Container` | `container.hpp`, `_Make_socket` and `_Release` of the contexts | vector and free list; implements `SocketTable` |
| `MCContainer`, `ContainerProofs` | - | instance, theorems |
| `SocketHandles` | `socket.hpp`, `basic_socket.hpp`, `basic_stream_socket.hpp`, on `Container` | who owns which `_Socket_id` |
| `MCSocketHandles`, `SocketHandlesProofs` | - | instances, theorems |
| `Timers` | `_Resume_after`, `_Resume_at` of the libevent context, `timer.hpp` | how long a timer waits |
| `MCTimers`, `TimersProofs` | - | instances, theorems |
| `PollContext` | `poll_context.hpp`, with `cpo.hpp` at the grain of whole calls | the parallel vectors and `run_one` |
| `MCPollContext`, `PollContextProofs` | - | instance, theorems |
| `KernelSockets` | what system calls can tell of a socket (external) | the kernel's sockets and the peers, shared by the next two |
| `AsyncSockets` | what `libevent_context.hpp` is for | the promise to a program with one operation per direction of a socket: each operation is as if its system call had a thread of its own |
| `LibeventContext` | `libevent_context.hpp`, `io_context.hpp`, on `SocketTable` | all operations, sockets and ids of one `event_base`, and the batches of `run_one`; implements `AsyncSockets` for such a program, and `SocketTable` for any |
| `MCLibeventContext`, `LibeventContextProofs` | - | instance, theorems |
| `RequestStream` | `examples/simple-http-server.cpp` | a conversation of the example server |
| `MCRequestStream`, `RequestStreamProofs` | - | instance, theorems |
| `Programs` | `examples/*.cpp`, with `when_any` and `async_scope` of `stdexec` | the tasks of the example programs, their timeouts and how they end |
| `MCPrograms`, `ProgramsProofs` | - | instance, theorems |

### CpoState

One operation has two call stacks. `frame[o]` says where the calls made on the loop's thread
are: the upstream, `emplace` of the callback, the test of `stop_requested()`, `_Submit`,
`_Complete`/`_Error`. `cancel[o]` says where `_Cancel_callback::operator()` is. Each access to
the atomic counter, each access to the optional callback and each call to libevent is a step;
`_Complete()` is two steps, `ResetCallback` (`_D_callback.reset()`) and one that decrements
(`Drop`). The places that complete an operation have frames of their own, because they differ in
what they signal and where they return to:

| frames | code |
|---|---|
| `stopReset`, `stopDrop` | `_Cancel()` from `_Start()` when stop is already requested (`cpo.hpp:137-141`) |
| `syncReset`, `syncDrop` | `_Complete`/`_Error` from inside `_Submit` |
| `startReset`, `startDrop` | `_Complete()` from `_Start()` because `_Submit` returned false (`cpo.hpp:143-146`) |
| `workReset`, `workDrop` | `_Complete`/`_Error` from `_Work` |

`event[o]` is the event in `_Extra`: made, added (`pending`), not added because `event_add` failed (`refused`:
what it returns is not looked at), ready with its callback due (`active`). `result[o]` is a history variable,
the outcome of the one attempt at the I/O call. `signals[o]` is the sequence of completions the receiver got;
the code has no such variable, and its length is the question.

What is abstracted, and why nothing is lost by it:

- *The receiver's continuation* does not run in the model. It may run inside the signal, and
  may destroy the operation. What the library does to an operation after its completion is
  visible in the model (`CompletionIsLastTouch`), and the steps left after a signal touch only
  that operation, so that they commute with whatever the continuation starts.
- *Two modes.* With `StopThread = "loop"`, `request_stop()` runs on the thread of the context,
  between its steps, and executes all callbacks before anything else happens (`LoopTurn`). With
  `"other"` it runs on any thread and every interleaving is allowed. The library says nothing
  about the second use, and its build links `event_core` only, without libevent's thread
  support, so that an application must hand in an `event_base` made for it (`_Libevent_context`
  has a constructor for one); the model presumes such a base: `event_del` then waits for the
  event's running callback.
- *The standard library and stdexec* are modelled from their use here: `stop_callback` runs in
  place when stop was requested before, and its destructor waits for a callback running on
  another thread. A sender upstream of the operation completes as `stopped` only if stop was
  requested.
- `EWOULDBLOCK` is an outcome of `_Work` only for operations on a socket that
  `_Libevent_context::_Connect` has set `O_NONBLOCK` (`Nonblocking`).
- One event per operation and no shared socket: descriptors, reuse of ids under an operation
  and blocking calls are the matter of `LibeventContext`.

### Container

`slots` is `_Records`: an alternative (the variant's index) and a value. `Grow` and `Reuse` are
the two branches of `_Insert`, `Erase` is `_Erase`. The guards `alt = 0` in `Reuse` and `alt = 1` in
`Release` are the `std::get`s, which throw otherwise. The only callers are `_Make_socket`
(`MakeSocket`: a new native handle, then `_Insert`) and `_Release` (look up, `_Erase`, `close`), and
the model has these, for arbitrary ids: who holds which id is not its question. Handles are never
reused while open, as the kernel guarantees.

### SocketHandles

An object has `id` (`_D_id`, with `Invalid` for both `_Invalid` and `_S_unused`, which are the same
number) and `life`. Its actions are the constructors, the move, the destructors, `open()` and
`close()`; those that make or release a socket are `MakeSocket` and `Release` of `Container`,
on the same variables (`C == INSTANCE Container`). `Born` is what the constructors and an
accepted connection share: the id that `_Insert` returns. A constructor that throws after
`open()` is `ConstructionFails`. What `std::get` throws in a destructor, which is `noexcept`, ends
the program (`terminated`). The history variable `called` says which of `open()` and `close()` the
program has called so far: the properties that do not survive these calls say until when they hold, and
with none the objects are used as in the examples.

Only streams are moved: the acceptor's move constructor does not initialise its reference
`_D_context` and cannot be instantiated. `basic_stream_socket` has no usable move assignment,
because `basic_socket` has none. Moving makes a new object, so `life[t] = "unborn"`.

### Timers

A submission is one step, `Submit`, with the time that was asked for (`asked`) and the time
libevent will fire the timer (`due`), both in microseconds. `Wait` is the code's `timeval`, with the
width of its arithmetic: `_F` is `unsigned long long`, so a negative count is taken modulo `Wrap`
before `/` and `%`. The clock moves to given instants and to the times timers are due, so that a timer
is fired on time or late. The system clock is read at submission and when libevent looks;
a clock that is set back is not modelled.

### PollContext

`fds` and `outstanding` are `_D_poll` and `_D_outstanding`. Starting an operation is a step from
`_Start()` to its end (`StartAccept`, `StartOther`, `StartStopped`), because all of it runs on one
thread without waiting; so is a `poll()` that finds something, with the removal, `_Work` and its
`_Complete()` (`Serve`). `count` is the operation's counter in `cpo.hpp`. The connections of a
listening socket are a number, `backlog`. `_Blocking` is never cleared in the poll context,
so the branch of `_Add_Outstanding` for sockets that do not block is dead and `_Work` never meets
`EWOULDBLOCK`: without a connection, `accept()` blocks the loop. Receivers keep the operation
alive after its completion in the model; otherwise the entry points to freed memory. A completed accept may be
queued again (`Renew`: the accept loop's next operation, in a new state).

### RequestStream

A client's bytes are a stream in which only the ends of the heads matter (`script`). `size`, `pos` and
`end` are `buffer.size()`, `pos` and `end` of `buffered_stream`; the buffer holds the `end` bytes of the
stream before `received`. `AskForMore` and `Receive` are a turn of the loop in `read_head()`,
split at `async_receive`; `Heads` is `find(sep)` with its search of the whole buffer. `Handle` is the rest of a turn
of `make_client`: `consume()`, then what the request's `method` calls for - a GET is answered (with 200 or 404), another
method is passed over without a word, one without a method is answered with 550, the end of the conversation - and the
decision to keep the connection. `handled` counts the turns, and in `answers` a 0 stands for the 550.
`Abandon` is the end of a client by the timer of `when_any`, which may win wherever the client awaits something, or
by an operation that fails and throws there. That each head parses is assumed, but for the empty method; how the
response is sent in pieces is left out. When `consume()` is called with `pos`
still `npos`, the program's behaviour is undefined, and the conversation is (`"undefined"`).

### LibeventContext

Everything that shares one `event_base`, on its one thread. `table` is the context's container as
`SocketTable` promises it (`_D_sockets`; `T!Insert`, `T!Erase`), `socket` the kernel's socket of each native
handle: its kind, what has arrived (`in`), the room for what is sent (`room`), and whether the peer is gone.
`target[o]` is what `_Accept` and its like set up: the kind, the `_Socket_id` of the operation's object,
and the handle `_Native_handle()` gave for `event_new`. That the last two can come apart is
the point of the module: an event watches `target[o].handle`, and `_Work` acts on `table[target[o].id]`.

| actions | code |
|---|---|
| `MakeSocket`, `Release` | `_Make_socket`, `_Release` (`bind` and `listen` of an acceptor's constructor included) |
| `Start`, `Connect`, `Resume` | `_Accept`, `_Receive`, `_Send`; `_Connect`; `_Resume_after`, `_Resume_at`, with their `event_add` (`AddEvent`), which may fail unnoticed for the operations in `Refusable` |
| `Cancel` | `_Cancel`, that is `event_del` |
| `RunOne`, `Wake`, `TurnEnds`, `RunEnds`, `RunFails` | `run_one()`: `event_base_loop(EVLOOP_ONCE)` waits, collects what is ready, and returns; `run()` ends, for want of events or because the loop failed |
| `AcceptWork`, `ReceiveWork`, `SendWork`, `ConnectWork`, `ResumeWork` | the `_Work` lambdas and their system calls |
| `Unblock` | a system call that blocked goes on |
| `Peer` | the other ends of the connections |

`Wake` collects all ready operations and any of the timers; `Work` serves the batch in any order, since
libevent promises none, and between two of its callbacks the program does what it likes (`Running`),
as completions resume coroutines there. Sockets are blocking ones but for those `_Connect` was called on.
A call that would block on a blocking socket stops the thread (`blocked`); on a
non-blocking one the operation's event is not added again, so that it is in flight but not in libevent
(`lost`).

*Discipline.* Properties of this component cannot hold for every caller: with two `async_receive`s on a
socket, one wakes up to nothing. The library demands nothing in writing; its example programs all keep
to one operation per direction of a socket, and to a socket that outlives its operations. `disciplined` is
a history variable that says whether the program has done so up to now. The step by which it lapses is in the
model, and so is the rest of the batch after it, the callback of an event whose id was released included
(`terminated`: `std::get` throws in `_Work`); then the behaviour is cut (`Starting`).

*What it is for.* `AsyncSockets` has no loop, no events and no batches: an operation that waits may at any
time do what its system call would do without blocking, on the socket with the id it was started for, or be
stopped. `Direct` maps the context to it: `Waiting` is the kind and the id an operation was started with,
until its call is done (`Nothing`) or it is cancelled (`Stopped`); `Left` is what a blocked send has still to
send. `Wake`, `RunOne`, `TurnEnds`, `RunEnds` and `RunFails` are stuttering steps; an operation whose event
was refused is one that its socket never gets to. `ActsDirectly` states the refinement step by step, for as
long as the program is disciplined.

### Programs

The coroutines in an `exec::async_scope`, with one operation each in flight: `at[t]` is that operation,
`event[t]` and `alarm[t]` say how far its event and that of the timeout around it (`when_any` with
`async_resume_after`) have come; for the tasks in `Refusable`, adding it may fail. `RunFails` is a loop that
failed: `run()` returns, `accu-2024` leaves its own loop, and only `overview`, which does not look, goes on.
`active` is the scope's count. `program` is chosen in `Init`:

| task | in | does |
|---|---|---|
| acceptors | `accu-2024` (one per address), `server`, `simple-http-server` | accept for ever, spawn a client for each connection |
| clients | the same | receive and send, under a timeout but in `server`; the last exchange may be the request to exit |
| `ticker` | `server`, `overview` | a timer, for a number of times or for ever |
| `reader` | `overview` | waits for input, then requests stop |
| `dialer` | `client`, `accu-client-2024` | connect, send and (the second one) receive |

`RequestStop` and `Stopped` are `request_stop()`, which calls the stop callbacks of all operations in flight one
after another before it returns, each of them completing its task. `caller` is who called it: a
client of `server.cpp` and the reader of `overview.cpp` do so from within the loop (`ExitWork`,
`ReadWork`); `main()` of `accu-2024.cpp` does after it left its loop (`LeaveLoop`). `Leave` is
`sync_wait(scope.on_empty())` or the scope's destructor, with nobody running the context any more; the destructor
does not wait, it asserts that the scope is empty (`LeaveFails`).

## 3. Runs

| run | instance | what it shows |
|---|---|---|
| `cpo_loop` | a connect and a receive under one stop source, a `resume_at` under another; stop on the loop's thread | completion is once, earned, the last touch of an operation that waited; no completed operation is called by libevent again; a stopped operation completes |
| `cpo_threads` | the connect and the receive, stop on another thread | completion is still once, no result is left unanswered, `request_stop()` leaves nothing in flight; a wedge is the only way not to complete |
| `container` | four slots, five handles | the free list is exactly the free slots, and the container is a table |
| `sockets` | two acceptors, three streams, three slots; `open()` and `close()` at will | until `close()` is called, an open object owns one socket alone; until either is, only failed constructions leak; whatever is called, the container stays sound |
| `sockets_open` | an acceptor, two streams | **violated**: `open()` on an open acceptor replaces its socket |
| `timers` | two timers, six durations, two time points, five instants | waits are wrong by less than a second, whole seconds are exact and in order |
| `timers_early` | a second from now, as in `examples/server.cpp` | **violated**: a timer fires before its time |
| `poll` | two acceptors with two operations each, one of another kind | the vectors stay aligned, no waiter is lost, `accept()` never blocks, awaited connections are taken unless another socket's operations are queued over and over; receivers are told when they start, or never |
| `requests` | scripts of two and three heads with any methods on a buffer of four bytes, a separator of two | the GETs are answered in order and once, no whole head waits in the buffer for more bytes; the GETs of a client that waits for answers are answered |
| `libevent` | two ids, handles and operations of any kind; the loop may fail, and `event_add` for one operation | no operation acts on another's socket, only sends block the thread, `run()` leaves behind only what those failures left, what is ready stays ready and is served; in all, operations act as `AsyncSockets` says |
| `programs` | all six programs, two acceptors, two clients at a time; the loop may fail, and `event_add` for three tasks | `main()` waits for nothing that needs the loop it has left, but for tasks whose event was refused; stop means no new client; exits and timeouts come to an end |
| `poll_value` | the same as `poll` | **violated**: an accept completes before there is a connection |

Type invariants that the proofs need and that say little else (all but those of the timers and of the libevent context)
are theorems and in no run.

**Bounds.** Operations interact only through a shared stop source (its callbacks run one at a
time) and through the one thread of the loop; so two operations under one source and one under
another show every kind of neighbour. The three kinds have between them every outcome of
`_Submit` (pending, error, immediate value) and of `_Work` (value, error, again); the other kinds
have subsets of these. Nothing is capped: the counter moves freely and an operation is
started once, as an operation state is. Four slots allow a free list of up to four links in any
order, which is more than the two `_Insert` and `_Erase` look at; `MaxSlots` bounds the growth
of a vector that in the code is bounded by memory, and a fifth handle lets one be refused.

In `sockets`, three slots are fewer than the five objects, so that slots are reused while other objects live,
and the vector is full at times; four handles allow as many as there can be sockets and one to spare. In
`timers`, `Wrap` is 1,600,000,000 instead of 2^64 (TLC's integers have 32 bits): only negative durations reach
it, and the theorems hold for the real one. `Horizon` keeps the clock from moving to a time that a
wrapped-around duration gives. The durations are below, at and above a second, whole and not. In `poll`, four
entries allow a removal from the front, the middle and the back with entries behind it; `MaxBacklog = 2` lets
both operations of a socket be ready at once, and the accepts are queued again without end, so that one socket
can starve the other in the instance.

In `libevent`, two of each are the least with which one operation can take what another waits for, an accepted
connection can get a handle or an id that was given up, and a program can lapse in every way `disciplined`
knows. `event_add` may fail for one of the two operations, so that one without an event meets one with. One
connection or message at a time (`MaxIn`), one unit of room (`MaxRoom`) and sends of two units (`Size`) make
every call meet too little. A behaviour is cut at the end of the batch in which the program has lapsed, as
what `epoll` says of a closed and reused handle is libevent's and the kernel's affair. `libevent` has 386,333
distinct states. In `programs`, two clients allow one to wait, send or time out while the other is told to
exit, and one connection to arrive while the stop request is processed; further connections wait in the kernel
(`BecomesReady`). Two `Ticks` are an inner and a last one. `Refusable` has one acceptor, one client and the
dialer: in every program but `overview` a task that may be left without an event and, in the servers, others
that may not.

In `requests`, every request may have any method, and the heads are shorter than the buffer, as long, longer,
and longer than twice its size, so that the buffer grows up to twice, shrinks, and is used up exactly; three
heads let a client have two waiting.

**Fairness.** `FairSpec` of `CpoState` assumes that a thread goes on with what it has begun (weak fairness per
operation on the upstream's completion, which for `just()` is inline, on the frames, on `_Work` of an active
event and on the callback), which the code's lack of any wait there justifies. Nothing is
assumed of `Launch`, `Activate` or `RequestStop`: nobody must start an operation, no peer must
answer, nobody must stop it. Under `"other"`, `ResetCallback` and `CancelDel` have the guards of
the waits they do, and the fairness of a disabled step asks for nothing. `FairSpec` of
`PollContext` assumes that `run_one()` serves when an entry is ready, as `run()` calls it again until
it returns 0; nothing is assumed of starts, arrivals or `run()` itself. `FairSpec` of `RequestStream` assumes that a
client with something to do is served (`Serve`), as the loop runs; clients need not send, and no timeout need happen.
`FairSpec` of `LibeventContext` assumes that the one thread goes on: the program runs its context, a wait
ends when something is ready, a batch is served; not that peers do anything, not `Unblock`, and no failure of the loop.
In `Programs` the thread goes on
with its one step (`ThreadStep`), and timeouts become due (`Due`), as time passes; no connection, data or room
need come.

**Results worth knowing.**

- With stop on the loop's thread everything holds. Operations that `_Submit` completes itself
  (an immediate `connect()`, a time point in the past, any error), and those started with stop
  requested, are touched after the completion (`cpo.hpp:143-146`, and the end of the callback), so
  `CompletionIsLastTouch` covers those that waited for an event.
- With stop on another thread, a result is always answered, if with `set_stopped` at times (`ResultOrStop`),
  and an operation that waits is in libevent (`NotForgotten`), with the two exceptions that come next.
  `NoDanglingEvent` and `ResultDelivered` do not hold and are not claimed: the callback may run between the
  test in `_Start()` and `event_add`, and an accepted connection may meet a stop request between `accept()`
  and the decrement. The two threads may also wait for each other (`Wedged`).
- A `receive` or `send` that meets `EWOULDBLOCK` is not added again, and what `event_add` and `evtimer_add`
  return is looked at nowhere (`libevent_context.hpp:262`, `326`, `383`, `438`, `467`, `504`): if they fail,
  the operation is in flight and in no event. `NotForgotten` says that these are the only two ways to be
  forgotten, and that what is forgotten can still be stopped (`StopCompletes`, `NoneOutlivesStop`). No
  document promises more, so no run shows this as a violation.
- `tv_usec` is `1000 * count % 1000000` of a count of microseconds (`libevent_context.hpp:466`, `503`;
  the remainder itself was meant). Whole seconds are right; 1.5 ms become 500 ms, 1.5 s become 1 s,
  and a `resume_at` of `now() + 1s` loses up to a second, because some microseconds have passed
  when it is submitted (`timers_early`).
- `open()` reports `already_open` and goes on (`sockets_open`): the old socket leaks. `close()`
  keeps the id, so that the destructor releases it again, by then perhaps another's; in the
  simplest case the slot is free and the destructor's `std::get` ends the program. No document
  says otherwise, so no run shows it as a violation; `MisuseIsContained` shows that the container
  survives it, and `OwnedOnce` is claimed until `close()`.
- The poll context's `_Add_Outstanding` returns false for "queued", which `_Start()` reads as "not submitted"
  (`poll_value`): every `async_accept` completes at once with no socket. Operations of other kinds do nothing
  and complete with a value. Its `_Cancel` is empty: an operation started after a stop request never
  completes. What `accept()` comes to reaches no receiver at all (`ToldAtStartOrNever`). The other properties
  of the `poll` run are about its queue.
- An entry of the poll context is passed over while later ones are ready. An accept loop on one socket that is always
  queued again therefore starves the other socket, in the bounds of the run: without its second alternative
  (`QueueElsewhere`) TLC finds `Served` violated. `Served` says that this is the only way to wait for ever.

- A disciplined program never blocks in `accept()` or `recvmsg()`, blocking sockets or not, because only its own
  operation takes what made the socket ready (Linux keeps a connection that was reset in the accept queue, so
  that `accept()` returns it; `io_context` ignores `SIGPIPE`, so that a send to a peer that has gone only fails).
  `sendmsg()` does block, whenever it is given more than fits, and then everything waits for that peer: timers
  and timeouts, the stop request and all other connections. `Exits` and `TimeoutEnds` hold under `NotBlockedForEver`
  only, and without it TLC finds them violated.
- An undisciplined program has none of these guarantees: of two receives that one message wakes, the second blocks
  the thread or, on a non-blocking socket, is lost; an event whose id was released is called back for whatever
  socket has the id by then, or ends the program (`std::get` throws). The properties claim nothing of it, and the
  model follows it only to the end of the batch in which it lapses.
- `run()` takes "libevent has no events" for the end of the work, and -1 from `event_base_loop` for the same
  (`libevent_context.hpp:203`). For a disciplined program nothing else leaves an operation in flight: either
  its event was refused, or the loop failed and the operation is still in libevent, for another `run()`
  (`OnlyFailuresRemain`).
- `accu-2024.cpp` answers only the first request head of a connection: what it leaves in the buffer begins with the
  separator, which it finds at once, for ever at 0, so that it goes on receiving until the timeout. `TimeoutEnds`
  is what ends such a client.
- Once `main()` of `accu-2024.cpp` has left its loop, nothing runs the context; that the scope still becomes
  empty (`LeavesEmpty`), tasks whose event was refused included, rests on `request_stop()` completing every
  operation in flight within the call, which is `NoneOutlivesStop` of `CpoState`. The other programs request
  no stop there: a task whose event was refused, or any task when the loop failed, is then waited for without
  end or fails the assertion of `~async_scope()` (`LeaveFails`). A timeout that could not be added times
  nobody out, which `TimeoutEnds` exempts.

- The example server sends nothing in answer to a request whose method is not GET
  (`simple-http-server.cpp:171`), and with keep-alive goes on to read the next one. `InOrder` is therefore
  about the GETs, and `Answered` leaves out what was passed over: a client that waits for that answer waits
  until the timeout.
- The example server calls `consume()` after a failed `read_head()` as well, where `pos` is `npos` if bytes of
  an unfinished head had come: a client that leaves in the middle of a head makes it erase a range that ends
  before it begins. And a buffer used up exactly stays empty for ever, because it grows by doubling: the
  next request is answered with 550. `UndefinedOnlyInHead` and `EndIsReal` say that nothing else goes wrong.
  A client that pipelines may wait for ever for its second answer; `Answered` is
  about clients that do not.

## 4. Proofs

`CpoStateProofs` proves, for any operations, sources, tokens and either mode, that `IInv` is invariant, and
from it `TypeOK`, `AtMostOnce`, `ValueIsEarned`, `NotForgotten`, `ResultOrStop`, `NoneOutlivesStop`, and that
`Spec` implements `AsyncOp` (`KeepsContract`). The only assumption on the constants is that every operation
has a token of a declared source (`TokenAssumption`).

`AtMostOnce` is not inductive: nothing in it says that a second decrement will not reach 0. `Accounting` does.
While the receiver is not completed, `_D_outstanding` is exactly the number of calls that have still to count
the operation out (one for the operation once it is begun, one more while the callback is between its
increment and its decrement), so that the call that reaches 0 is the last; after the completion the count is
not positive and no increment is left, because the callback is gone or spent (`Registration`, which also gives
`NoneOutlivesStop`: an executed callback has completed its operation). The count can then only fall, by at
most two more (`Floor`), which is also its type. `Attempt` ties results to frames for `ValueIsEarned` and
`ResultOrStop`, and says that an operation nobody works on is in libevent or one of the two exceptions of
`NotForgotten`, its callback still registered and its count 1, wherever stop is requested, because `event_del`
comes before the callback counts the operation out. `Asked` ties stopping to a request for the refinement.
There is one lemma per action; `OneMoves` reduces each to the operation that moves.

With stop on the loop's thread (`StopThread = "loop"`, an assumption of these theorems), `LoopInv` is
invariant as well, and gives `NoDanglingEvent`, `ResultDelivered` and `CompletionIsLastTouch`. `Turns` is what
that mode is good for: while a callback has to be executed or is, no other call is under way, but for the
constructor that executes its own in place (`Alone`). So nothing comes between the test of `stop_requested()`
and `event_add`, and an operation that is submitted still has its callback registered (`Submitted`); nor
between a result and its completion (`Delivered`).

`ContainerProofs` proves `TypeOK`, `FreeListSound`, `HandlesAccounted`, `GrowsOnlyWhenFull` and `IsTable`,
from `MaxSlots \in Nat`. `FreeListSound` says that some sequence of distinct slots is the list;
each action gives the new one from the old (a cell pushed or popped). That the list cannot be
longer than the vector, and that the vector grows only when it is empty, are the two lemmas
about it (`ChainFits`, `EmptyList`).

`SocketHandlesProofs` uses those as lemmas: `CP == INSTANCE ContainerProofs`, and each step of an object is a
step of the container or leaves it alone (`StepIsContainer`), so that `ContainerInv` holds here as well; this
alone gives `MisuseIsContained`, whatever is called, and `ObjectsShareTable`, that the container all objects
share is a `SocketTable`. `OwnedOnce`, which speaks of the behaviour before the first `close()`, is inductive
with the types alone, because the slot a new object gets is not in use (`Inserted`), and so nobody's: every
owned slot is. `LeaksAreFailures` is about the time before either call and compares cardinalities: every step
leaves `Leaked` and `Failed` as they are but `ConstructionFails`, which adds one element to each.
`OnlyOwnersClose`, which is proved and in no run, says what ownership is for: until the first `close()`, a
native handle is closed only by the destructor of its owner, and an object's id stands for the same open
handle, whatever the other objects do. A slot keeps what it holds unless it is that of the object that ends
(`InsertKeeps`, `StepKeepsHandles`).

`TimersProofs` characterises the conversion: `Wait(d) = d` exactly if `d` is a whole number of
seconds, and otherwise `Wait(d)` is between `d - F` and `d + F` (`ExactForSecondsOnly`). `Punctual` and
`WholeSecondsInOrder` follow by an invariant that says this of every timer that waits. `TimeAssumption` says
that `1000 * d` is less than `Wrap`; the model speaks of durations below 292 years, beyond which the
code's product overflows as a signed number.

`PollContextProofs` proves `InStep`, `NoneLost`, `NeverBlocks`, `ToldAtStartOrNever` and `TypeOK`, for any
operations and acceptors. `NeverBlocks` is not inductive: it needs that the entry found ready is that of the
operation called (`InStep`). `RemoveProperties` says what swap-with-back does to a vector, and `Counts` that a
queued operation's counter is 0, from which `_Work` takes it to -1, so that its `_Complete()` no longer finds
the counter at 1; that is why nothing but the start of an operation tells its receiver anything.

`LibeventContextProofs` proves `TypeOK`, `OwnSocket`, `OnlySendBlocks`, `OnlyFailuresRemain`, `StaysReady` and
`ActsDirectly`, for any numbers of ids, handles and operations and any sizes of the kernel's buffers. None of
the invariants is inductive but the types. `IInv` has two parts: `Shape`, which every program keeps (a handle
has at most one id, and is open exactly if it has one), and `Kept`, which a program keeps as long as it is
disciplined. Its core is `AllRipe`: the system call of every operation in the batch would still not block,
though the batch was collected before the other callbacks ran. `ReadyIsRipe` starts it, when the batch is
collected; peers only add (`PeerInv`); and a callback takes something only in its own direction of its own
socket, where `Apart` and `Watching` say that nobody else in the batch is (`Undisturbed`). So a read never
would-block; then no operation is lost, and one in flight without a pending event was refused, which is
`OnlyFailuresRemain`.

The same invariant carries the refinement. A callback's step is one of `AsyncSockets`'s only because its call
is ripe (`AsyncSockets` has no call that would block), because the handle is that of the id the operation was
started with (`Watching`), and because no other operation in flight competes for it (`Apart`), which
`AsyncSockets` demands of starts and `Release`. There is a lemma per action (`WorkDirect` and its like,
`LoopIsHidden` for the steps of the loop). `ContextActsDirectly` speaks of each step while the program is
disciplined, `DisciplinedIsDirect` is the plain refinement for programs that always are. `ContextUsesTable`
says of every program that the table is used as `SocketTable` allows, which `Container` implements: that is
what lets this module use the table in the container's place. `ReadyStaysReady` is an action property: between
the moment an operation is ready and its own call, no callback, start, stop, close or peer takes that away;
only a send of its own that blocks does. It needs, besides `IInv`, only that a socket's state is changed by
its own operations and its peer.

`ProgramsProofs` proves `TypeOK`, `LeavesEmpty` and `NoneSpawnedAfterStop`, for any finite number of acceptors
and clients and any number of ticks, assuming that tasks of different roles differ (`TasksAssumption`). Its
`IInv` says that `active` counts the tasks in flight (`Counted`), that each of those has an event, be it one
that was refused, but for the one that is calling `request_stop()` (`Watched`), and that after that call none
but overview's reader is left (`StopDone`). `Ending` and `Awaiting` say once what an end and a next operation
do to the scope; `Resuming` is the step most actions are.

`RequestStreamProofs` proves `TypeOK`, `HeadsAreFound`, `InOrder`, `EndIsReal` and `UndefinedOnlyInHead`, for
any scripts, any first size of the buffer and any length of the separator, assuming that every head has a
separator of its own (`ScriptsAssumption`) and that neither size is 0 (`SizesAssumption`). Its `IInv` says
that the buffer begins where the next request does (`Start`), that what was answered are the GETs among the
requests handled, in order (`Answers`), and, while data is awaited, that none of the buffered bytes ends a
head or none has been looked at since the last answer (`Reading`). `FirstHead` is the lemma it rests on: if
the buffer holds a head at all, the first is that of the request to be answered next, so that `read_head()`
finds it and `consume()` ends where the one after it begins. `HeadsAreFound`, the safety in `Answered`, needs
besides that a client that waits for its answers has not sent the request after the next (`Patience`).

*Only model-checked:* liveness (`StopCompletes`, `StopCompletesOrWedges`, `Served`, `Answered`,
`ReadyIsServed`, `Exits`, `TimeoutEnds`), which is out of the prover's reach. Every other property of a
passing run is a theorem.

## 5. Not modelled

Addresses, endpoints, buffers and socket options are values without state (`internet.hpp`, `endpoint.hpp`,
`buffer.hpp`, most of `socket_base.hpp`): conversions between representations of an address, and adaptors that
hand a range to a system call. Many of their members are declared only. The outcomes of `bind`, `listen` and
`setsockopt` go to the caller and leave nothing in the library. The receivers and senders of `stdexec` are
modelled as far as `cpo.hpp` and the examples use them. Declared but undefined members (`release`, `assign`,
`cancel` and others of the acceptor) have no code.

Of the examples, the text of requests and responses is left out, as is `accu-2024.cpp`'s buffer beyond its
first head, and `http-server-template.cpp`, which prints a page and has no sockets. What libevent does with
the events of a program that has lapsed, beyond the batch, is not known from this code.

## 6. Plan

The models of the plan are all there, and every safety property of a passing run is proved. What would say more of the
system: a proof that the tasks of `Programs` are disciplined in the sense of `LibeventContext`, whose theorems it
presumes; and a refinement from `LibeventContext` to `AsyncOp` for each operation of a disciplined program.
