# Verification of net-assistant-for-qml

net-assistant is a small Qt program that opens one TCP connection as a client,
or listens as a server, and shows what is sent and received. The windows are
QML, the application's own code is a few classes in `src/modules/netModule`,
and everything that is hard about it happens in the copy of the asio2 library
in `src/modules/netModule/include/asio2`, which the program uses from three
kinds of threads: the GUI thread, threads it detaches to start a connection,
and the library's io_context threads.

This directory holds TLA+ models of that code, the TLC configurations that
check them, and theorems checked by TLAPS. In what follows asio2 files are
named without their directory.

## 1. The system

### Components

What the program runs:

| Component | State | Operations | Models |
|---|---|---|---|
| Event queue (`event_queue_cp.hpp`) | `events_`; the guard the running event owns | `push_event`, `post_event`, `disp_event`, `next_event`, destroying a guard | `EventQueue`, `ComponentsProofs`, `Occurrences` |
| TCP client (`tcp_client.hpp`, `client.hpp`) | `state_`, `stopped_`, `life_id_`, the socket | `start`, `stop`, `_do_stop` | `TcpClient`, `TcpClientProofs`, `ClientService` |
| Connect (`connect_cp.hpp`, `connect_timeout_cp.hpp`) | resolver results, `connect_timeout_timer_` | resolve, connect each address, time out, `_done_connect` | `TcpClient` |
| Shutdown, close, disconnect (`shutdown_cp.hpp`, `close_cp.hpp`, `disconnect_cp.hpp`) | `shutdown_timer_`, `disconnecting_`, `reading_` | request a disconnect, `shutdown(send)`, wait for the peer, close, wait for the read | `TcpClient`, `TcpServer` |
| Reconnect (`reconnect_timer_cp.hpp`) | `reconnect_timer_` | make, wake, cancel the timer; push the reconnect event | `TcpClient` |
| TCP server (`tcp_server.hpp`, `server.hpp`) | acceptor, `counter_ptr_`, `state_` | start, accept loop, stop, `async_send` to all | `TcpServer`, `TcpServerProofs`, `ServerService` |
| Sessions and their manager (`tcp_session.hpp`, `session.hpp`, `session_mgr.hpp`) | the map of sessions, each session's queue and socket | accept, connect event, join, read, leave, the silence timer | `TcpServer`, `TcpServerProofs` |
| io_context pool (`iopool.hpp`) | `state_`, `objects_`, work guards | `start`, `stop`, `regobj`, `unregobj`, `cancel` | `TcpClient` (one io_context), `TcpServer` (one for each session), `Timers` |
| Sending (`send_cp.hpp`, `tcp_send_op.hpp`) | a send's `life_id`, its promise or callback | `async_send` in three forms, `send` | `SendPath`, `ComponentsProofs`, `Dgram`, `AlgorithmProofs` |
| Receiving (`tcp_recv_op.hpp`, `linear_buffer.hpp`, `match_condition.hpp`) | one outstanding read, the buffer | the read loop, framing | `TcpClient`, `Dgram`, `AlgorithmProofs` |
| `NetConn`, `NetConnItem` | `_state`, `_settings`, byte counters, `_type` | `run`, `stop`, `connectBtnClicked`, `sendMessage`, `setState` | `NetConn` (client protocol), `NetConnProofs` |
| Listeners (`tcpClientHandler.cpp`) | – | `on_connect`, `on_disconnect`, `on_recv` ... | `NetConn` (`clt_listener`) |
| Settings view (`SettingsView.qml`) | the connect button | `onStateChanged`, clicks | `NetConn` |
| Handler memory (`allocator.hpp`) | one block each for reads and writes, a flag | `allocate`, `deallocate` | `HandlerMemory`, `ServicesProofs` |
| Statistics | `_recvBytesCount`, `_sendBytesCount` | count, reset, signal | – |

What the library offers besides:

| Component | State | Operations | Models |
|---|---|---|---|
| Listener lists (`event_dispatcher.hpp`) | a linked list for each event, two maps | append, prepend, insert, remove, clear, dispatch | `CallbackList`, `EventDispatcher`, `ListenerProofs` |
| `asio2::timer` (`timer.hpp`, `user_timer_cp.hpp`, `post_cp.hpp`, `condition_event_cp.hpp`) | user timers, delayed tasks, events | start and stop a timer, post with a delay, notify, stop | `Timers`, `ServicesProofs` |
| Thread pool (`thread_pool.hpp`) | queues, one condition variable | two posts, the workers, the destructor | `ThreadPool`, `ServicesProofs` |
| SOCKS5 (`socks5_client.hpp`) | the coroutine's stage | the negotiation | `Socks5`, `ComponentsProofs` |
| Remote calls (`rdc_call_cp.hpp`) | the multimap of requests, their timers | call, answer, time out, stop | `Rdc`, `ComponentsProofs` |
| TLS (`ssl_stream_cp.hpp`) | the stream, timers, `SSL_clear_op` | handshake, shutdown | `Tls`, `ServicesProofs` |
| Logger (`logger.hpp`) | the level, the file, a flag | log, change the file, destroy | `Logger`, `ServicesProofs` |
| Character sets (`codecvt.hpp`) | the facet's state | three facets, two drivers, retrying functions | `Codecvt` |
| Strings, ini files (`string.hpp`, `ini.hpp`) | –, a file | helpers; `get`, `set` | `Strings`, `IniFile` |
| Digests, codes, ciphers (`md5.hpp`, `sha1.hpp`, `base64.hpp`, `utf8_validator.hpp`, `aes.hpp`, `des.hpp`) | context, `Iv_` | update, pad, encode, encipher | `Digest`, `AlgorithmProofs`, `Base64`, `Utf8Validator`, `Aes`, `AesModes`, `Des` |

### How they interact

- The GUI thread calls `NetConn::connectBtnClicked`. When disconnected,
  `run()` sets the state to Connecting and detaches a thread which calls
  `client.stop()`, `server.stop()` and one of the two `start()`. When connected,
  `stop()` blocks the GUI thread in the `stop()` of the client or the server.
- `start()` and `stop()` post an event to the client's io_context and wait for
  a promise the event carries. Everything that changes the client's life cycle
  (connect, stop, disconnect, reconnect, each send) is an event of the client's
  queue: its callback gets an `event_queue_guard`, hands it from handler to
  handler while asynchronous operations complete, and the destruction of the
  guard pops the event and begins the next one.
- What has to happen after a disconnect travels as a "defer chain" with the
  guard: `_do_stop` for a stop event, nothing (which means: wake the reconnect
  timer) for any other.
- A server's acceptor and session manager live on the first io_context, each
  session's queue on an io_context of its own. A session's connect event, its
  joining and its leaving run on the first; its guard goes there and back in
  posted handlers. Every session holds a copy of `counter_ptr_`, whose last
  copy, when it dies, posts the end of the server's stop.
- `stop()` afterwards stops the io_context pool, which waits until the
  io_context runs out of work. A registered client or server is itself such
  work, and so are its reads, its timers and its queue. The sessions'
  io_contexts are released only when the first one has stopped.
- Callbacks run on an io_context thread and call `NetConn::setState`, which
  changes the plain member `_state` and emits a signal. A signal of another
  thread is queued to the GUI, one of the GUI thread is delivered at once.

### What is hard

Two threads may be in `stop()` and `start()` at once. Events are admitted when
they are requested and act when they come to the front, by which time the
connection may be another one. A disconnect has up to three asynchronous
stages, each of which can be cut short by the next. The reconnect timer and
the connect timeout race the operations they belong to. An io_context may run
out of work under an event that was just posted. A session may join while the
server sweeps. Listeners come and go while they are called. A send, a remote
call, a handshake may be ended by an answer, a timer, a failure or a stop, and
must be ended by one of them. A text, a frame or a file is cut at any place.
`PROJECT.json` lists these hazards, each at its line with the properties that
would see it go wrong.

### What makes each part correct

- *Event queue*: one event at a time; a non-empty queue always has somebody
  who will run it on; one thread's calls keep their order; every event runs.
- *Client*: `start()` and `stop()` return, and `stop()` with the client
  completely stopped; "completely stopped" means no connection, no operation,
  no timer and no event that could bring it back; the callbacks tell the truth
  and are silent afterwards; until it is stopped, a client that lost its
  connection, or never got it, tries again; a disconnect reaches the close.
- *Application*: a start finds the previous connection closed; the button and
  the GUI thread always come back; at rest `_state`, the button and the client
  agree.
- *Server and sessions*: `stop()` returns when, and only when, the last session
  has ended; no session joins after the sweep; who was announced is told of its
  end; nothing is left in an io_context that stops.
- *Sends and calls*: sent in the life they were made in or not at all; answered
  once, whatever ends them.
- *Listeners*: a dispatch misses nobody and calls no newcomer.
- *Timers*: what goes on can be stopped by its id; what was stopped is not set
  again. *Pool*: a task runs once, on a worker it was meant for. *Logger*: no line
  below the level. *TLS*: one attempt's stream, timer and result do not meet the
  next one's. And in all of them whoever waits is released.
- *Algorithms*: what the standards or a plain reference definition say, and no
  text on which they do not end.

## 2. The models

### EventQueue

`event_queue_cp.hpp` by itself. `events` is `events_`, `running` the events
whose callback owns a valid guard, `inbox` what is posted to the io_context.
`PushHere` is `push_event` on the io thread (it runs the event at once if the
queue is empty), `PostFrom` the calls that post, `RunEnqueue` the posted
handler; `DestroyHere` and `DestroyElsewhere` are `next_event` on the io
thread and on another one, where it is posted (`RunNext`). `order` and
`started` are history variables the properties use.

### TcpClient

The client with its pool and the threads that call it, the event queue being
the sequence `queue` whose front owns the guard. `phase` says what the front
waits for: `run` (its callback is about to run, and no other handler can run
before it), `resolve`, `connect`, `write`, `shutdown` (the peer's end of
stream), `readend` (the outstanding read), or `idle` for an empty queue. The
other variables are the code's members. The promise of `start()` or `stop()`
is the event's field `by`; `live` is what the code compares when an event
runs (a send's `life_id`, the canceled flag of a reconnect's timer).

| Code | Action |
|---|---|
| `NetConnItem::run`, `stop` | `Call` (the early return of `stop()` included) |
| `tcp_client::stop` | `StopPost`, wait in `stop_wait`, `StopGiveUp` (its polling of the io_context) |
| `iopool::stop` | `StopIopool`, `PoolCancel`, `PoolStopped` |
| `tcp_client::start`, `iopool::start` | `StartIopool`, `StartCheck`, `StartPost` |
| `io_context::run` returns | `RunReturns` |
| a posted handler | `RunPosted` (`unregobj`, `cancel`, or an event to enqueue) |
| the events | `RunConnect`, `RunReconnect`, `RunStop`, `RunDisconnect`, `RunSend` |
| `_post_resolve`, `_post_connect`, `_done_connect` | `ResolveDone`, `ResolveFailed`, `NextEndpoint`, `NoEndpoint`, `Connected` |
| the timers | `ConnectTimeout`, `ShutdownTimer`, `ReconnectTimer` |
| reads and writes | `RecvData`, `RecvError`, `WriteDone` |
| the end of a disconnect | `Close`, `ReadEnd`, `FinishDisconnect`, `DoStop` |

Abstracted: addresses, data and error values; the nesting of handlers that
complete without waiting (they are one action); a cancelled timer disappears
at once (the code's late handler sees that it was cancelled and returns); the
one second a woken reconnect timer waits begins when it is woken. The
state `stopping` of the client is not visible: the code enters it and
leaves it within one handler.

### ClientService

What the client promises, in two variables: whether it is `active`, and
whether the `link` is down, being tried or up. `TcpClient` is shown to
implement it with `active <- ~stopped` and `link <- Link` (a function of
`state_`).

### NetConn

Extends `TcpClient` with the application. The callers are the GUI thread and
the detached threads. `setState` is three steps (`SetCheck`, `SetAssign`,
`SetEmit`), as `_state` is an unprotected member that other threads write in
between; `signals` are the `stateChanged` queued to the GUI, `view` is what the
button was last told. A callback occupies the io_context until its `setState`
has ended. The user works with the client protocol; the server is never
started, so its `stop()` returns at once and is not a step.

### TcpServer and ServerService

`srv` is what is posted to the server's io_context, `ses[s]` a session's state,
socket, queue and the handlers posted to its io_context, `cnt` who holds a copy
of the counter, `map` the session manager. Each handler is one action, in the
order of posting; accepts, reads, writes and timers complete when they like.

| Code | Action |
|---|---|
| `start`, `_do_start`, `_handle_start` | `StartPool`, `StartPost`, `RunStart` |
| `_post_accept`, `_handle_accept` and its retry timer | `Accept`, `RunAccept`, `RunAcceptAgain`, `AcceptorTimer` |
| `stop`, `_do_stop`, `_post_stop`, the last counter, `_exec_stop` | `StopPost`, `RunStop`, `PostStop`, `Die`, `RunExec` |
| `iopool::stop` with several io_contexts | `StopIopool`, `PoolCancel`, `PoolOthers`, `PoolStopped`, `SrvReturns`, `SesReturns` |
| a session's events and its way through both threads | `RunEvent`, `RunConnect`, `RunEmplace`, `RunDisconnect`, `RunErase`, `GuardBack` |
| `for_each` and `async_send` | `SendAll`, `SendTo` |
| reads, timers, the end of a session | `ReadDone`, `ConnectTimer`, `TimedOut`, `ShutdownTimer`, `ReadEndTimer`, `WriteDone`, `Die` |

`ServerService` promises that `on_start` and `on_stop` alternate, that sessions
come and go in between and none is inside when the server has stopped, and that
a server that is stopping stops.

### The other components

- `CallbackList` is the list of one event, step by step: a dispatch holds the
  lock for each step only, so listeners are added and removed in the middle of
  it, from the listener it is calling too. `Modulus` is where the counter that
  tells newcomers wraps round. `EventDispatcher` is the two maps above it, with
  the list as a sequence. `Careful` excludes what the code does not survive
  (section 5).
- `SendPath` reduces the client's life cycle to what a send sees of it, and has
  the three forms of `async_send` and `send` with their promise or callback.
  `life_id` is an address: a new life takes any that is free, with `Reuse`
  also the one it had two lives ago.
- `Rdc` has calls that are entered under an id, timed, sent as events and
  answered; the multimap `reqs` is kept in order of entry, since
  `execute_and_erase` takes the first with the id.
- `Socks5` is the coroutine between two streams of octets and a proxy that
  speaks the protocol but decides freely.
- `Timers` is `asio2::timer`: one object for each asio timer, in the code's
  three kinds, and `stop()` with its repeated cancelling.
- `ThreadPool`, `Logger`: threads, one mutex, one condition variable. A wait
  that is not told stays; a thread that was told runs its test again.
- `Tls`: attempt after attempt, each with its stream, its timer and its holders
  of `SSL_clear_op`; the peer answers or not.
- `HandlerMemory`: the test and the setting of a flag, in one step for the
  atomic one and in two for the plain one.
- `Dgram`: `_tcp_send_dgram`'s header in its three forms (scaled: `Short` for
  254, `Field` and `Field8` for the widths), the linear buffer with its moving
  and growing, `dgram_match_role`. The number that digits stand for is the one
  that has them.
- `Codecvt`: a job is a list of stages, a stage a driver with a facet; one step
  is one call of the facet, so its state between calls is seen.
- `IniFile`: the file as a sequence of symbols that `set` changes in place.
- `Strings`, `Base64`, `Des`: operators. `Digest`, `Utf8Validator`, `Aes`,
  `AesModes`: small machines. What md5 and sha1 do with a block is abstract, and
  so is the block cipher in `AesModes` (any permutation); `Aes` has the cipher.

`ClientLife`, `ServerRaces`, `Components`, `Services` and `Algorithms` only
compose these for TLC: a variable `part` or `mode` says which of them a behaviour
is of, all others stay in their initial state. Properties of several modules
are conjoined there under one name.

Operators named `<Action>_<Word>`, commented "Mutant", are forms of a
definition with a plausible mistake; each property is violated by one or more
of them, which shows that the runs reach what the property is about.

## 3. The runs

| Run | Question |
|---|---|
| `client_life` | One free thread, and the application with one detached thread at a time: the thread's calls return, a begun shutdown closes the socket if the peer does not send for ever, the client implements `ClientService` with its liveness, a start finds the previous connection closed, button and GUI come back. |
| `client_races` | Two threads in any interleaving with a peer that keeps sending: the safety of the client. |
| `app_races` | The application with two detached threads at a time: it settles correctly. |
| `server_races` | Two sessions and one thread; two threads and one session with a send: guards, joins, leaves and the order of the stop. |
| `services` | Server, timer, thread pool, logger, handler memory, TLS: what has to come to an end does (`CallsReturn`, `StopsEnd`, `WorkIsDone`, `TlsEnds`), under the fairness below; each part's safety (`PartsAreSound`, `StepsAreSound`); the server implements `ServerService`. |
| `components` | Event queue, listener list, dispatcher, sends, SOCKS5, remote calls: safety, that every event runs, and that client and proxy never wait for each other. |
| `algorithms` | Each algorithm against a reference definition on bounded inputs. |
| `stale_disconnect`, `lost_start`, `accept_loop`, `lost_task`, `lost_call` | One property each, said by a comment or an assertion of the code, that the code does not keep (section 5). |

### Bounds

- `Event` has three members: a front, one behind it and one on its way are the
  most that one step relates.
- `Caller`: one thread for liveness, two for safety, three (GUI and two
  detached threads) for the application's races. A third caller of `stop()`
  finds the pool in no state that the second does not find it in.
- `MaxSend` bounds the sends that are posted or queued (0 or 1): one is enough
  for a failing write between a stop and a start. It is 0 where the question
  is about threads alone.
- `MaxPosted` bounds the posted handlers at the time a *new* call begins (1 or
  2); a call that has begun is never held up. Two posted handlers are one
  whole `stop()`, so calls still overlap.
- `MaxSignals` bounds the signals queued to the GUI when a connection succeeds
  (0 or 1): a failing peer and a GUI blocked in `stop()` could queue any number.
- `Chatty` says whether the peer sends data after our shutdown. It is FALSE
  where `stop()` has to return (section 5).
- Server: `Session` has two members, or one with two threads: sessions meet only
  in the manager and the counter, where a third would do what the second does.
  `MaxSrv` (1) bounds what the server's io_context has to run when a peer
  connects or a call begins.
- Listeners: three nodes (a neighbour on each side of one that goes), one
  dispatch, a counter that wraps at 6. Dispatcher: two events, two names.
- Sends and calls: two of them in two lives; two addresses for `life_id`.
- Timers: two objects, so that one id is restarted while its first timer is
  ending; `LateCalls` is 0, as calls during `stop()` are section 5's.
- Pool: two workers and three tasks, one of them posted by a task. Logger: two
  users, two levels, two lines each, a file full after one. Memory: four
  handlers, one too large. TLS: three attempts.
- SOCKS5: names of length 0 to 2 (`Length`) with a length octet that counts to 3
  (`Octet`), one or two methods (`Offer`) of three (`Method`).
- Algorithms: strings of up to four of four letters with needles up to two;
  ini files with and without sections, comments and last line ends, three
  `set`s; messages of up to 23 octets in blocks of 5; every lead octet at each
  border of the UTF-8 table, in sequences of four; keys of all lengths' classes;
  six payloads at every boundary of the header and one beyond the buffer, three
  of them in a stream, in base 4 with lengths of one and of two digits;
  characters of one to four octets and of one and two units, in texts of three.

All runs set `CHECK_DEADLOCK FALSE`: the systems may come to rest, with an
empty queue and no user at the button. That nothing stops which should go on is
what the liveness properties say.

### Fairness

*Client.* Weak fairness of each thread in a call it has begun, and of an event
whose turn it is. For the handlers of the io_context strong fairness: between
two of them `phase = "run"` disables the others for one event, and an
io_context runs its ready handlers in turn. Resolving, connecting and writing
complete in some way and timers expire, because the operating system's calls
do; a read on a socket that was closed ends. Nothing is assumed of the peer (it
may never send, never close) nor of the user. That a *write* completes is an
assumption the code does not secure: there is no timeout, and a peer that does
not read can hold the queue, and so `stop()`, for as long as it likes.

*Server.* Threads go on, each io_context runs what is ready, the read of a
closed socket ends. `SrvReturns` has strong fairness because the cancel that
`iopool::stop` posts again and again gives the io_context work for a moment.

*The rest.* Ready handlers run, timers expire, workers and tasks go on, and a
mutex that is free again and again is got in the end (strong fairness of the
logger's callers). Nothing is assumed of peers, proxies and callers. Where
several parts share a run, the fairness of a part that could move in its initial
state (the workers of the pool, the logger's thread) is asked of its own
behaviours only: asked of all, it would have no behaviour of another part left.

## 4. The theorems

TLAPS proves, for any finite sets of threads, sessions, events and calls and for
any bounds:

| Theorem | Statement |
|---|---|
| `ComponentsProofs!TypeCorrect`, `Serial`, `Driven`, `InOrder` | the event queue's types, `OneAtATime`, `QueueIsDriven`, `CallOrder` |
| `TcpClientProofs!TypeCorrect` | the client's types |
| `GuardOwned` | `DisconnectOwnsGuard`: a disconnect in progress owns the queue's guard |
| `Complete` | `StoppedIsComplete`: what "completely stopped" excludes |
| `Truth`, `Silent` | `ToldTheTruth`, `QuietWhenStopped`: what the callbacks say, and when |
| `StopReturnsStopped` | `StopStops`: a thread's wait in `stop()` ends with the client completely stopped |
| `PromisesKept` | `PromiseIsKept`: a thread waits exactly as long as its event is pending, once |
| `Implements` | every step of the client is a step of `ClientService` or none |
| `NetConnProofs!SettlesRight` | `Settled`: at rest `_state`, the button and the client agree |
| `StartsClosed` | `PreviousIsClosed`: with one detached thread, a start finds the last connection closed |
| `TcpServerProofs!TypeCorrect` | the server's types |
| `GuardsAreKept` | `GuardIsUnique`: a guard that changes threads is neither doubled nor lost |
| `SweepIsComplete` | `SessionsAreCaught`: no session slips through the stop, none reads that has not joined |
| `DisconnectIsTold` | `LeavingIsTold`: who has joined is told of its end |
| `StopComesLast` | `StopIsLast`: the server's own stop comes once, after the last session, and loses nothing |
| `Implements` | every step of the server is a step of `ServerService` or none |
| `ComponentsProofs!SendsSettle` | `SendsAreTold`: sent in its own life or not at all, told once |
| `CallsSettle` | `CallsAreAnswered`: a remote call is answered once, in its own life |
| `NegotiationIsRight` | `TunnelIsReal`: one call of the handler, success only with the tunnel that was asked for, and its octets left whole |
| `AlgorithmProofs!MessagesAreWhole` | `StreamIsFramed`: messages arrive whole and in order, none that has arrived waits, and no peer that keeps to the format is disconnected |
| `DigestIsRight` | `DigestsAgree`: what is hashed does not depend on the pieces a message came in, and its padding is the standard's |
| `ListenerProofs!DispatchStaysRight` | `DispatchIsRight`: the links stay whole, and a dispatch misses nobody, calls no newcomer and keeps to the order |
| `MapsStayTrue` | `MapsAgree`: the dispatcher's two maps tell the same listeners, each once |
| `ServicesProofs!BlocksAreNotShared` | no block of handler memory is lent twice, no flag is left set (of the memory by itself) |
| `PartsSound` | `PartsAreSound`: the same within `Services`; a timer that goes on is the one its id names, one that was stopped is not set again; no task of the pool runs twice or elsewhere, and its destructor leaves none |
| `StepsSound` | `StepsAreSound`: no line is logged below the level; an `SSL_clear` meets its own stream; nothing is reported as connected whose socket is closed |

### Assumptions

`EventAssumption`, `ClientAssumption`, `AppAssumption`, `ServerAssumption`,
`ListAssumption`: the sets are finite, the names of threads, sessions and "nobody"
differ, the GUI thread is a caller and the io_context's is not, bounds are natural
numbers, and the counter of the listeners counts to one at least.
`SocksAssumption`: a name is no longer than an octet can tell, which the code
asserts of the host and RFC 1929 asks of user name and password; where it fails the
tunnel may lead to another host (section 5). `SizeAssumption`, `PayloadAssumption`:
the sizes are natural numbers, and a payload's length has no more digits than the
longest header – a `size_t` has eight octets at most. `BlockAssumption`: the length
of two words at least leaves room in a block for the marker, and what the low word of
the count can hold is a multiple of the block, as 2^29 is of 64; the high word is a
natural number, so a message of 2^61 octets and more is outside. `WorkAssumption`: the thread
pool has a worker (its constructor makes at least one), levels are numbers, bounds
natural numbers; of the ids of timers, of tasks and of handlers nothing is assumed.
Five theorems have a hypothesis, and each is where the code makes a
promise that it keeps only so far (section 5):

- `StartsClosed`: `Worker` has one member. With two the second `stop()` returns
  while the first is still at it, and `PreviousIsClosed` is false.
- `SendsSettle`: `MaxLife <= 2 \/ ~Reuse`. An allocator that gives an address back
  can give the third life the `life_id` of the first. With two lives, or with
  any number and addresses that do not come back while a send holds one, the
  theorem holds.
- `CallsSettle`: `Careful /\ ~KeyMoved`. Two calls under way with one id may end
  each other, and an id that moving empties is looked up in vain.
- `DispatchStaysRight`: `Careful`. Inserting before a node that was removed, or
  removing it again, while a dispatch keeps it alive, links or unlinks at a place
  that is not in the list any more.
- `MapsStayTrue`: `Careful`. A handle that is removed a second time, while a
  dispatch keeps its node alive, is taken off the size of a list it is not in.

### The arguments

**Event queue.** `OneAtATime` and `QueueIsDriven` are not inductive: a posted
`next_event` might pop an event whose guard is still alive. The invariant adds
`TravellingGuard`: a guard that travels in a posted handler is the only one
there is, and belongs to the front. For `CallOrder` the events are put into one
line, those that have begun and those behind the front: emplacing appends to
`Lined`, popping the front leaves it alone. `OInv` says that an event that was
submitted is once in the line or once in the inbox, and that of two calls of one
thread the first is ahead of the second, wherever each of them is. What the io
thread pushes itself is never in the inbox (`PushedIsInLine`): a later push,
which may run at once, would be ahead of it.

**Client.** `IInv` adds to the four safety properties ten small facts. The
queue is empty exactly when the client waits for nothing (`Guarded`), so every
handler finds the event it belongs to at the front. An attempt to connect is
exactly the state `starting`, its event is a connect or a reconnect, and only
in it is the connect timeout set. A socket, a read and a timer tie `state_` to
`phase`. The two that carry the weight are `TimerIsThere` – a client that is
not stopped has its reconnect timer, unless a stop event has already closed it
and is on its way to `_do_stop` – and `NoContext`: the io_context does not run
out under a client that is not stopped. The first makes `RunReturns`
impossible for a live client, hence the second; the second makes it right for
`stop()` to stop waiting when the io_context is gone. The handlers are then
proved one by one, the three ways a disconnect ends sharing the lemmas
`FinishFacts`, `CloseStep` and `PostShutdownStep`. For the properties of steps,
`Move` lists the five things a step can do to `state_`, `stopped_` and the
callbacks, and `StepMove` shows that there are no others; `Silent`,
`StopReturnsStopped` and `Implements` follow from it.

`PromiseIsKept` counts: the event with a thread's promise is in the line of
posted, queued and executing events once, or never (module `Occurrences`;
`OccurrenceProofs` says what appending, taking the head and concatenating change
of that). `PInv` adds that no other event carries a promise (`Anonymous`), and
what event is at the front in each phase (`FrontOfPhase`), since a connect's
promise is answered by handlers that only know the phase.

**Application.** `Settled` speaks of the state at rest only; what leads there is
`CallbackIsTrue` (what a callback is about to set is what the client is, until
the GUI thread overwrites it with Connecting), `ButtonIsTold` (the last signal
that is under way, or else the button, says what `_state` is), and
`ConnectingEnds`: while `_state` is Connecting and no callback is about to change
it, the GUI thread is still in `setState` or some detached thread is bound to
cause a callback – it is before its stop, or between its stop and its start with
no connection there for which the start would be refused. A second thread may
take away the attempt that the first one has made, but then owes one itself.
`StartsClosed` needs `Alone`: the GUI thread starts nothing, and from the stop to
the start of the only detached thread the client stays completely stopped.

**Server.** `IInv` has one conjunct for each session and three for the whole.
Of a session: its record is consistent in itself (`Consistent`); its guard is
where `phase` says, once, in its queue, in the server's inbox or on the way back,
and the handler that carries it finds the session as it was sent from
(`Carried`). Of the whole: the counter is held by exactly the sessions there are
(`Held`), `_exec_stop`'s handler is posted by the death of the last of them and by
nothing else, and the pool's threads return in order, the acceptor's first
(`PoolInv`). That nobody slips through the sweep is the case of a session whose
`emplace` runs behind it: it finds the server not started, and its join fails.

**Sends.** `Places`: a send is in the inbox, in the queue, or its callback is
posted, one of them and once, and until then its caller has been told nothing.
`IdsTell`: a send under way has the client's `life_id` just when it is of this
life. `StopInLine` and `Drained` say what is left when a pool stops: no call
under way is of an earlier life than the one that is being stopped.

**Remote calls.** A call may be answered from four sides, three of which look it
up by its id. `Waits`: who is in the multimap is there once, was entered in this
life, has its timer and no answer. `OnePerId`: of two calls with one id at most one
is under way, so what is found under an id is the call that is meant, or, when
that has been answered, another one that still waits. That a timer which fired
late can only find somebody who waits is what makes "once" true; that whoever
waits has a timer is what makes "forgotten" impossible.

**SOCKS5.** The client's steps and the proxy's are tied by what is under way between
them. `Sent`: the octets on their way to the proxy are a message of the kind it
waits for, or none. `Asked`: wherever the coroutine stands, either its message is
still to be read and nothing comes back, or the answer to that message comes back
and nothing else is under way. `Taken`: a read asks for as many octets as the answer
has up to there, and has them when it has ended. `Succeeded`: after a success the
tunnel is there, and of the answer nothing is left. Of a message only its length
and the octets that are looked at matter, so no proof looks into a name. The
connect timeout closes the socket and nothing else; the operation that fails then
calls the handler with an error.

**Messages on a stream.** What is in the buffer and what is still on its way are one
sequence (`Pending`), which reading does not change. The invariant has an
invisible index of it: `at[i]` is the place behind the i-th frame (`Marks`); between
two of them the octets are those of the frame (`Holds`); behind the last there is
nothing, or the beginning of a frame whose write failed (`Remains`). That the match
condition finds the end of the first frame, and never one where there is none
(`MatchedNow`), rests on the arithmetic below it: n digits determine a number
below `Base` to the n (`DigitsTell`), so a length is read as it was written
(`ValueIs`). These lemmas need induction over the number of digits. It is drawn from
the least member of a set of natural numbers (`LeastNatural`, `Induction`), which
is a constant and no operator; the power is a recursive function, whose existence is
shown in the same way (`PowerIs`).

**Digests.** The context holds a message (`HoldsMessage`) when it has counted it, low
and high word, has hashed its whole blocks, and has what is left of it at the front of
the buffer; behind that the buffer is whatever an earlier block left. Each update
keeps this: it fills up the block that was begun or not (`FillsUp`), hashes whole
blocks out of the data, and copies the rest. For the end, one number of zeros and only
one fills up the last block, and whether there are one or two last blocks is the
question that `MD5_Final` asks of the room behind the marker and `calc` of the
length of the rest. The low word of the count alone tells how full the buffer is,
because a block divides what the word can hold.

**Callback list.** What is reached along the links is the least set that is closed
under them (`From`), not a walk of so many steps: least sets can be compared
without induction. `MeetsSkipped`, `MeetsJoined`, `MeetsFronted` and `MeetsLess` say
once what becomes of them when one node is passed over, linked in, put in front,
or links are cut; `RemoveNode`, `Link` and `Clear` are each an instance. `ListInv`
has the shape of the list (`Whole`, `Ends`, `Apart`, `Adder`) and three facts of
each dispatch. `DueAreMet`: who is still to be called is ahead of it, whether or
not the node it stands on has been removed, which is why a removed node must keep
its links. `LateAreTold`: whoever is ahead and came after it began has a counter
beyond its own, and as long as somebody of the list is ahead, so will whoever is
being linked. `KeepsOrder`: all that is ahead is behind all it has called.
`DispatchesHold` proves the three for every step that changes links, from what
such a step does to the sets.

**Event dispatcher.** `Added`: a listener is only ever in the list of the event it
was added for, so that removing by name or by handle from one list is right for
the others. Of a filtered list (`Left`) the proof says what is in it, that nobody
is in it twice and how long it is: the k-th of those that stay is the one of rank
k, and rank is a bijection (`RankIsBijective`).

**Timers.** That a stopped timer stays stopped depends on who holds what is left of
it. `OneHandler`: a wait that has ended has one handler in the io_context, any other
has none; so the handler that sets a timer again, or lets go of it, is the only one,
and a wait cancelled twice posts one handler. `NamesAgree`: a timer that goes on is
the one that `user_timers_` has under its id, and every name there is such a timer's:
a new one with the same id marks the old one in the same handler, a marked one leaves
the name alone when it ends. `OneBeginning` is the like for the posted wait of an
event. `RoomLeft` belongs to the model's bound: a timer or task that was posted finds
an object that is free.

**Thread pool.** `TasksPlaced`: a task that was posted is in the queue it was posted
to or among those that were taken, one of them and once. `GoneIsEmpty`: a worker goes
only when both its queue and the shared one are empty, and from then on nothing is
posted; with one worker at least, that is what makes the destructor leave none.

**Logger.** A line is written under the mutex, after another look at the level, and
the level is set under the same mutex; the step itself shows it.

**TLS.** `TlsInv` says for each phase what may be left of an attempt. In a shutdown
its guard is with the timer, in the timer's handler, in the close or in the next
event, once (`GuardOfStop`); the next event comes behind every other handler
(`NextIsLast`), so the next attempt, which makes another stream, meets no holder of
`SSL_clear_op` and no timer of the last. In a handshake either the socket is open or
the timer's flag is set, which the handler asks.

**Handler memory.** Between the test of the plain flag and its setting another
allocation could take the same block. `MemoryInv` adds that only the io thread
is ever in between, that the block it is about to take is free, and that the
handler it allocates for has no memory yet.

### Only model-checked

- All liveness: fairness and ENABLED are out of the prover's reach. So are both
  halves of `WaitsEnd`, the second of which says that one of the two sides is
  enabled, and the liveness half of both refinements.
- What the other algorithms compute (`StringsAgree`, which has Base64's too,
  `SettingsAreKept`, `CiphersAgree`, `TextsAgree`). `Strings`, `Base64`, `Codecvt`
  and `Utf8Validator` are written with recursive operators, and `Aes` with bitwise
  ones, of which the prover knows nothing; `Des` is folds over the data; of
  `IniFile` and `AesModes` no proof was attempted.

## 5. Where code and comments differ

With a run:

- `stale_disconnect` (`shutdown_cp.hpp:121-130`): the test that keeps a second
  disconnect out is made when the disconnect is requested. A write that fails
  while a stop and a start are queued behind it still queues a disconnect, and
  that one ends the new connection – which the comment means to exclude. The
  reconnect timer repairs it one second later.
- `lost_start` (`tcp_client.hpp:332-350`): the pool may be stopped between
  `start()`'s test of it and the post, and the promise that "must be seted" is
  not; the detached thread waits for ever.
- `accept_loop` (`tcp_server.hpp:674`, `:735`): an accept that completed before
  the acceptor was closed, and whose handler runs after another thread has
  started the server again, posts a second accept beside the new one, which
  `_post_accept` asserts against.
- `lost_task` (`thread_pool.hpp:197`): a task posted to one worker is announced
  with `notify_one`, which may wake another; the task waits for the next
  notification.
- `lost_call` (`rdc_option.hpp:120`): `emplace_request` moves the id out of the
  `any` that the timer and the failed send then look it up with. With an id
  that moving empties (a string) their lookup fails and a call that is not
  answered is never told of its timeout.

Found while modelling; no run checks these, and where a constant excludes them
it is named:

- `shutdown_cp.hpp:229`, `:346` (`Chatty`): the timer that is there "to ensure
  the closesocket can be called" is prolonged whenever data arrived, so a peer
  that keeps sending keeps `stop()` waiting.
- `netConnItem.cpp:32`: with two detached threads the second `stop()` returns at
  once, and its start does not find the previous connection closed as the
  comment says. (The application settles anyway: `app_races`, and
  `SettlesRight` for any number of threads.)
- `event_dispatcher.hpp:1991` (`Careful`): removing an event's last listener
  from within a dispatch erases the list being walked.
- `condition_event_cp.hpp:122`: a `notify` that overtakes the wait is lost
  (`NotifyIsKept`), as the comment there warns; `user_timer_cp.hpp` and
  `timer.hpp:142` (`LateCalls`): a timer started by another thread while
  `stop()` runs may never be cancelled.
- `send_cp.hpp:98` (`MaxLife`, `Reuse`): with three lives the address that is
  `life_id` may come back, and a send of the first is sent in the third.
  `send()` on a client whose pool has stopped never returns.
- `rdc_call_cp.hpp` (`Careful` of `Rdc`): two calls under one id at the same
  time may end each other, and a timer that has expired ends a later call with
  the same id; a call entered between a stop and a start is still there when
  `_rdc_start` asserts that none is (`NoneLeftAtStart`); the options may be gone
  when a late handler uses them (`OptionExists`).
- `socks5_client.hpp:273`: names longer than 255 octets are sent with a truncated
  length, which only an assertion forbids; the method the proxy chose is not
  compared with those offered.
- `codecvt.hpp`: a text of a byte order mark alone throws; `do_out` forgets the
  header when there is no room for it (`:228`, `:398`); `utf8_utf16` with
  `consume_header` does not end on a text cut off behind the mark (`:588`,
  `:636`), nor gives more than one half of a pair for a character cut off in its
  last octet; an exception drops what had been converted in the same call.
- `string.hpp`: `iequals`'s loop reads one position past the end, `split` with an
  empty delimiter does not end, `regex_split_map` with a blank as delimiter
  dereferences the end.
- `ini.hpp:774`: `get` moves the position of the stream under a lock that is
  shared; a shorter value leaves blanks until the file is closed.
- `md5.hpp:385`: the digest's words are written in the wrong order on a big-endian
  host, and a second `str()` gives another digest. `sha1.hpp` counts 32 bits of
  length.
- `aes.hpp:59-80`: copying and moving forget `mode_` and `Iv_`; one object cannot
  decipher in CBC or CTR what it has enciphered itself; zeros at the end of a text
  are stripped. `des.hpp:140`: a last block that deciphers to zeros is shifted
  for ever, and a zero in front of the last partial block is lost.
- `logger.hpp:490`: "create a new file" opens the same path again; `mkflag_` is a
  plain `bool` shared between two threads.
- `ssl_stream_cp.hpp`: a late handshake timer may close the socket of a handshake
  that was reported as successful; its read then fails and it is disconnected
  (`TlsEnds`).
- `allocator.hpp`: "must not be used in multithreading", but callers' threads
  allocate from `wallocator()`; its atomic flag makes that safe, which is proved.
- Of the settings, `receiveEnabled` is set and shown but not consulted when data
  arrives; `reconnectMaxTimes`, `reconnectEnabled` and the two waiting times are
  never read (retries are unlimited, one second apart); `_countEnabled` holds for
  received bytes only (`netConn.cpp:80`, `:86`).

## 6. Not modelled

- The application with both protocols: the detached thread that captures by
  reference and reads type, address and port late (`netConn.cpp:122`), `_type`
  before the first run (`netConnItem.cpp:44`), `svr_listener`'s `setState`. The
  product of client, server and application is beyond the checker at any bound
  at which the races happen; each of them is modelled without the others.
- The byte counters (`netConn.cpp:86`), plain integers incremented by several
  threads: only a displayed figure depends on them.
- Closing the window while a detached thread still uses the `NetConn`
  (`netConn.cpp:125`), and the depth of the C++ stack when `next_event` runs one
  event after another (`event_queue_cp.hpp:610`).
- `basic_stream.hpp`, which forwards each call to the stream it wraps; `uuid.hpp`;
  the conversions of values in `ini.hpp` and of numbers in `string.hpp`;
  `regex_split` (std::regex); the filters and argument policies of
  `event_dispatcher.hpp`; file names and the console of the logger.
- asio, OpenSSL, Qt and the JSON parser: external. asio appears by how the code
  uses it: an io_context runs its handlers one at a time, in the order in which
  they were posted; an operation on a closed socket ends with an error.
- The SOCKS5 server's operation, which nothing instantiates; the GUI's layout.
