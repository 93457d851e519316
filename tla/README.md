# sockep: a verification project in TLA+

sockep is a small C++ library of socket endpoints: four servers (TCP, UDP, Unix
stream, Unix datagram) and four clients, each with a thread that polls a socket
and a pipe and hands what it receives to a callback. This directory holds the
TLA+ modules that model it, the TLC configurations that check them, and the
proofs TLAPS checks. `PROJECT.json` lists the runs, the mutants (one plausible
bug per property that the run must catch), the source lines every definition
models, the findings, the hazards and the theorems.

## 1. The system

| Component | State | Operations | Talks to |
|---|---|---|---|
| `ServerSockEP` (base of the servers) | `isValid_`, `sock_`, `serverRunning_` (atomic), `serverThread_`, `pipeFd_`, `clients_` under `clientsMutex_`, `msg_` | `startServer`, `stopServer`, destructor (`closeSocket`, twice), `getClientIds`, `addClient`; the thread's `runServer` | the concrete server (virtual `handlePfdUpdates`), the application's callback |
| `TcpServerSockEP`, `UnixStreamServerSockEP` | the poll set `pfds` and its changes `newPfds`, `removePfds` | accept, read, hang-up, end of file (TCP only), `sendMessageToClient` | kernel, `clients_`, callback |
| `UdpServerSockEP`, `UnixDgramServerSockEP` | `clients_` as an address book | receive, `addClient`, `sendMessageToClient` | kernel, callback |
| server-side clients (`ISSClientSockEP`) | descriptor or address | `getMessage`, `operator==`, `clearSaddr`, destructor | their server |
| `ClientSockEP` (base of the clients) | `isValid_`, `threadRunning_` (atomic), `recvThread_`, `pipeFd_`, `msg_` | `startRecvThread`, `stopRecvThread`, destructor; the thread's `runThread` | the concrete client (`handleIncomingMessage`, `handleError`), callback |
| the four clients | `sock_`, `serverSaddr_` | `sendMessage`, two `getMessage`, UDP reconnection | kernel |
| constructors and destructors of all eight, `SockEPFactory` | `sock_`, `isValid_`; in the kernel descriptor numbers, socket files, ports | `socket`, `setsockopt`, `unlink`, `bind`, `listen`, `connect`, `close` | other endpoints of the host, other files of the process |
| `examples/tcp_server.cpp`, `tcp_client.cpp` | the global `running`, the line typed | `main`, `messageHandler` | a server, a client |
| `simpleLogger` | one lazily created logger | output | everybody |
| `ISockEP.h`, python wrapper | none in use | | |

What is hard here: two threads of one object (the owner and the server thread)
that share `clients_`, `serverRunning_` and the pipe; a mutex that is released
before what it protects is used; ids that are descriptor numbers; a poll set that
is changed one round after the table it mirrors; peers that half-close, close and
reset at any time; callbacks that call back into the object that called them,
even to stop it; threads that end by themselves; numbers that are closed twice
while others get them; paths and ports left behind by a crash. `hazards` in
`PROJECT.json` lists each of them with its line and the properties that watch it.

## 2. The modules

```
ServerSockEP            the life of the server thread
  +- StreamServer       TCP and Unix stream servers      --implements--> ConnectionService
  |    +- MCStreamServer      (TLC)
  |    +- StreamServerProofs  (TLAPS)
  |    +- TcpExamples         the example programs: StreamServer with a ClientSockEP as its peer
  |         |                 --implements--> ConnectionService
  |         +- TcpExamplesProofs  (TLAPS)
  +- DgramServer        UDP and Unix datagram servers    --implements--> AddressBook
       +- DgramServerProofs   (TLAPS)
ClientSockEP            the receive thread and the four clients  --implements--> Mailbox
  +- ClientSockEPProofs  (TLAPS)
Endpoints               construction and destruction of all eight, in several processes
  +- MCEndpoints         (TLC)
  +- EndpointsProofs     (TLAPS)
```

**ServerSockEP** is the base class. `apc` is the program counter of the
application thread (idle, or inside `stopServer`'s join, the destructor's join,
or the destructor's `close`), `spc` that of the server thread. `StartServer` has
no guard on `running`, as in the code: it creates a second pipe and, when
`serverThread_` is still joinable, ends in `std::terminate` (`fault`). The join is
a step of its own (`StopJoin`, `DtorJoin`) that waits for the thread.
`StopInCallback` is `stopServer` called on the server thread itself: the write end
is closed, `join` throws, and the process ends with `serverRunning_` still true.
`PollError` is `poll() == -1`, which a handled signal is enough for.
`sendMessageToClient` and the constructor's failures (`valid`, `sockOpen` in
`Init`) are in the extending modules.

**StreamServer** splits one round of `runServer` into the steps another thread can
observe: `Poll` takes a snapshot of the events; `Accept`/`NoAccept` is the
listening entry (`accept` may fail at any time, not only for want of a descriptor); `Lock`, `Insert`, `Hup`, `Read` are the three critical sections
of `clientsMutex_`; `Pipe` is the second entry, whose hang-up ends the round
(`break`); `Scan` takes the next client entry; `Callback`, then `ReplyFind`,
`ReplySend` (a `sendMessageToClient`), `NoReply` or `CallbackStops`, are the
callback; `Merge` is the end of the round, where `newPfds` and `removePfds` are
applied. `sendMessageToClient` on the application thread is two steps, `SendFind`
(under the lock) and `SendThrough` (after it): between them the server thread may
erase the node, and then `SendDangling` is every outcome of using freed memory that
the build can produce: a crash, nothing, or a byte to some connected descriptor.
Bytes are counted, not stored: `sent`, `taken` (by `recv`) and `given` (to the
callback) of each peer. A client id is the descriptor (`Fds`); since the code
never closes one, `conn` never goes back to `NoPeer`, and `Accept` may only take a
descriptor that is free.

The kernel is external: `HungUp` (POLLHUP: both directions down, that is after a
reset for TCP and after a close for a Unix socket), `Readable`, `CanSend`,
`SendByte`, `RecvFails` (a Unix peer that closed with bytes unread), and the peers'
`connect`, `send`, `recv`, `shutdown`, `close` and resets.

**ConnectionService** is what a stream server promises, without poll sets, locks
or threads: clients join under an id while the service is up, members are
delivered to and leave, an id that named a peer never names another. `StreamServer`
refines it with `up` = the thread lives, `owner` = `conn` once the client is in
`clients_`.

**DgramServer** has one socket for everybody. `Receive` is `recvfrom` into `msg_`
(cut at `BufLen`), `AddClient` the lookup and insertion of `addClient`
(`Match`, `NextId`, `Emplace`), then the callback, which may answer or stop the
server, and the pipe entry. `clients` is a function from ids to addresses.
`ReceiveFails` is a `recvfrom` that returns -1: the code goes on as with a datagram,
so the cleared address (`Unnamed`, also that of a sender without a name) gets an id
and the callback a length of -1, and `msg_[-1] = 0` falls on `isValid_`, the byte in
front of `msg_`; as it is outside the array, `valid` is cleared or not (`bound` is
what the constructor did). An arrival is a datagram queued at the socket, whatever became of others on the way,
so loss, duplication and reordering need no action of their own.

**AddressBook** is what a datagram server promises: a book in which an address has
one id and an id one address, and a tray of datagrams from which each is handed to
the program once, when its sender is in the book. Only the address of no socket may
enter the book without a datagram. `DgramServer` refines it with the
queue and the datagram in hand as the tray.

**ClientSockEP** is the base class of the clients and the four concrete ones,
told apart by `Transport`: they differ in the `recv` they call, in what a `-1`
does to `isValid_` (`AfterError`), in the test of `threadRunning_` that one
overload of the Unix datagram client lacks (`Refuses`), and in the UDP client's
`handleError` (`Reconnect`). The receive thread (`tpc`) polls, dispatches on a
snapshot of the events in the order of the code (`PipeHup`, `SockHup`,
`HandleIncoming`, `Failing`, the last else) and calls back, and the callback may
call `stopRecvThread`; the owner (`apc`) starts, stops and joins it, receives with
`getMessage`, sends, and destroys the client. The destructor is several steps: from
the first on the object has no concrete handlers (`ConcreteGone`), the thread is
only then stopped. After `Reconnect` the number the thread polls may not be that of
`sock_` any more (`stale`): it is closed or another file's, so anything may be
reported (`Strange`), and a `recvfrom` with nothing to receive blocks. `msg` is the
thread whose message is in `msg_`, which `getMessage()` and the thread both fill.
The server sends, half-closes, closes, resets and, for datagrams, comes back; it may
send also to a UDP socket just reconnected, whose new address it could know only
from a message.

**Mailbox** is what a client promises: what arrives waits until the program has it,
once, from the callback, which is called only while the box is listened to, or by
asking, which answers only while it is not. Only the UDP client may empty the box
unread (`Lossy`, a reconnection), and only the Unix datagram client answers while it
listens (`Shared`). `ClientSockEP` refines it with the life of the receive thread as
`listening` and, as `waiting`, what the socket queues together with what the thread
has in `msg_`.

**Endpoints** makes and destroys endpoints of all eight classes, in processes of
one host. `Constructor(k)` and `Destructor(k)` are the system calls of class `k` in
their order, `todo` what remains of them, and every call is an action (`Socket`,
`SetOption`, `Unlink`, `Bind`, `Listen`, `Connect`, `CloseSocket`, `DropPeers`) that
may fail at any time; `Fail` is the early return of the
constructors, some of which close the socket first (`ClosesOnFailure`) and one of
which forgets its number (`Forgets`). `HandleError` is the UDP client's
reconnection. What the calls share is the state: `table` (descriptor numbers of a
process, the lowest free one is given), `file` (whose socket a path is), ports with
`lingering` connections, `SO_REUSEADDR` (`reuse`). Other parts of the process open
and close files at any time, the threads' `accept` and `pipe` among them
(`OtherOpens`, `OtherCloses`); `Crash` ends a process without destructors and leaves
its socket files. A process whose file was closed by mistake is `spoiled` and, since
anything may follow, not followed further.

**TcpExamples** composes the components: the `main` of the two example programs,
`StreamServer` as the server and `ClientSockEP` (by `INSTANCE`) as its only peer.
What the component modules leave open is closed here: the peer of the server reads
when the client's code does, `send` waits at either end while the buffer at the other
is full (`OutCap` for answers; `InCap` lines fit for sure, more of them may), the
connection ends when a process ends, and the callback answers every message but `quit`. The client's `main` is
`Type` (`getline`), `Say` (`sendMessage`, which may block) and `Obey` (what the line
asks for). `ClientKilled` is a signal: two programs that wait for each other in
`send`, or a `read` that nothing answers, have no other way out when no receive
thread runs.

Abstractions: message contents, logging, `errno` texts and the two overloads that
only forward are left out; one `send` is one byte; a peer connects once (a second
connection of the same program is another peer); the callback makes at most one
call; there is one application thread.

## 3. What is checked

| Run | Instance | Checks |
|---|---|---|
| `TcpServer` | 2 peers, 2 descriptors, 1 byte each, 2 starts | `PolledAreListed`, `NothingDropped`, `RecvNeverWaits`, `QuietWhenStopped`, `PipeClosedOnce`, `TerminatesUnstoppedOnly`, `CallbackHasData`, `ListedArePolled`, `ForgottenWhenDrained`, `StopComesNearer`, `ImplementsService` |
| `UnixStreamServer` | 2 peers, 1 descriptor (`accept` fails), 2 bytes each, 1 start, fairness | `TypeOK`, `ClosedIsForgotten`, `StopReturns` |
| `UnixDgramServer` | 2 addresses, one of them that of unnamed sockets, 2 datagrams each, empty or longer than the buffer of 2, 2 starts, fairness | `CallbackNamesSender`, `IteratorStaysValid`, `StopComesNearer`, `ImplementsBook`, `StopReturns`, `DatagramsAreGiven` |
| `TcpExamples` | 1 client that types 4 lines, the last `quit`, buffers that hold 1 line and 1 answer for sure, 2 receive threads, fairness | `AnswersFollowLines`, `SendReturns`, `ConversationGoesOn`, `QuitObeyed`, `EofHandled` |
| `Endpoints` | 2 endpoints of any class, 2 processes with 2 descriptor numbers, 2 names | `BindFailsOnlyToARival`, `ReachableWhenAlone`, `HoldsItsOwn`, `ServersCloseTheirSocket`, `SpoiledOnlyTwice` |
| `UdpClient` | 3 datagrams, 2 starts | `DeliveredOnce`, `BufferKept`, `QuietWhenStopped`, `RecvNeverWaits`, `TerminatesUnjoinedOnly`, `StopComesNearer`, `ImplementsMailbox` |
| `UnixStreamClientLive` | 3 bytes, buffer of 2, 2 starts, fairness | `StopReturns`, `ClosedEndsThread` |

The runs have the properties that say most. Type correctness of three of the four
components, and what a stronger property includes (`IdsKeepTheirPeer` is part of
`ImplementsService`, `OneIdPerAddress`, `IdsArePermanent` and `EachGivenOnce` of
`ImplementsBook`, and `ConversationGoesOn` fails when `CallbackMayCallBack` does), are
not repeated there: they are stated in the modules and proved for all sizes, as is, for
the Unix stream server, the safety that the `TcpServer` run checks of both.

Bounds. Two peers are enough for one to be handled while the other hangs up,
connects or is written to, and for a descriptor to be offered twice; two bytes
with a one-byte buffer make a message that is read in two rounds; two starts
give every order of stop, self-exit and restart; one descriptor for two peers
makes `accept` fail; a send buffer of one byte makes `send` block. Two addresses
interleave in `addClient` with an id already given, and the second datagram of each
finds its address listed; one of the two is that of unnamed sockets, so the failed
`recvfrom` comes before, between and after real datagrams of the same entry. Four
lines with buffers of one are enough for one line to be answered, one to be in the
callback, blocked over a full buffer, one to be queued and one to be blocked in the
client's `send`; as a second line may fit nevertheless, `quit` is read together with
the line before it, or alone.
Two endpoints with two numbers make `socket()` fail, let a number closed once be
given to the other endpoint or to another file before it is closed again, and let
both bind one path, together or after a crash. Three datagrams are enough for one to
be received by the thread, one by the owner and one to be lost with a socket that is
closed. The bounds that stand in guards are `MaxStarts`, `MaxBytes`, `MaxArrivals`,
`MaxSent`, `MaxThreads`, and the buffers `OutCap` and `InCap`; the sizes of `Fds` and `Ids` bound descriptors and
endpoints. The proofs hold for all values of them. Symmetry is used in runs without
liveness only. `Endpoints` runs without the deadlock check, because each endpoint is
constructed once and then nothing may be left to do.

Fairness. Weak fairness of the server thread and of the application's blocked
calls is the scheduler; a blocked `poll`, lock, join or `send` is a disabled step.
The callback returns because its steps are steps of the server thread. In the
component runs a peer that keeps its end open reads what it is sent, otherwise a
callback blocked in `send` would hold the server for ever: `StopReturns` depends on
it. `TcpExamples` does without that assumption: there the peer is the client's own
code, and the reads of its thread are what makes the server's `send` return; the
properties of a conversation are about the time while that thread runs.
`ReplySend` is strongly fair: two threads blocked in `send` on the same full buffer
are both woken when there is room. So are `Accept`, and `Receive` of the datagram
servers: the calls may fail again and again, but not for ever. A process that has ended is cleared away by the
system. Nothing makes the application call, the user type or kill the client, or the
peers connect, send or close.

### Findings

Runs that TLC must find violated; each disagrees with a comment or message of the
code (quoted in `PROJECT.json`).

- `TcpServerIterator`: the iterator of `sendMessageToClient` outlives the lock; a
  client that goes away meanwhile leaves it dangling. The datagram servers have
  the same code and are safe, since they never erase (`IteratorStaysValid`).
- `UnixStreamUnread`: a Unix stream client that sends and closes loses its
  message: POLLHUP and POLLIN come together and the hang-up wins. The TCP server
  is safe (`ForgottenWhenDrained` holds there), because TCP reports POLLHUP only
  when both directions are down.
- `DgramTerminator`: the terminator is written behind a full `msg_`.
- `TcpClientClosed`: a TCP server that closes does not end the client's receive
  thread, which calls back with length 0 for ever. A Unix stream client's ends
  (`UnixStreamClientLive`).
- `ClientPureCall`: destroying a client whose thread runs may call the pure
  virtual `handleIncomingMessage`.

The models show more that no document of the repository speaks of, so that no run
is stated against it: the Unix stream server calls back with the 0 of a
half-closed connection and the -1 of a reset one (`CallbackHasData` fails there); a
server or receive thread that ended by itself, by a failing `poll`, is never
joined, and the next start or the destructor calls `std::terminate` (`fault`), as
does a stop from inside the callback (by the exception of `join`)
(`TerminatesUnjoinedOnly` and `TerminatesUnstoppedOnly` say that nothing else does); clients of a
first run stay listed and are never read after a restart (`ListedArePolled` is about
the first run); the Unix datagram client's `getMessage()` fights with its receive
thread for datagrams and for `msg_` (`BufferKept` and `StopReturns` fail there);
after a reconnection under another number a UDP client's stop may not return; a
datagram server whose `recvfrom` failed once calls back with a length of -1, lists a
client without an address and may find itself invalid; the example programs, without
the client's receive thread, may wait for each other in `send` until one is killed; a
server's destructor closes its number twice, and a TCP or UDP server whose
constructor failed a third time, so that it may close a file that another part of
the process has opened in between (`SpoiledOnlyTwice` says that these are the only
places).

## 4. What is proved

`StreamServerProofs`, `DgramServerProofs`, `ClientSockEPProofs`, `EndpointsProofs`
and `TcpExamplesProofs` hold for every value of the constants that satisfies the named
assumptions (`MaxStartsAssumption`, `StreamAssumption`, `DgramAssumption`,
`ClientAssumption`, `EndpointAssumption`, `ExampleAssumption`: the buffer and the
queues are not empty, a process has finitely many descriptor numbers, the
distinguished values are none of the set they stand outside of, the example programs
speak TCP and have one client).

Stream servers. `PolledAreListed` is not inductive: it needs to know that what
the round has still to handle has not been removed in the same round
(`PollInv`: `todo \subseteq pfds \ removePfds`), that the lists of changes are empty
between two rounds, and that the entry in hand is one of the poll set
(`CurInv`). `IdsKeepTheirPeer` needs that no id is known before its descriptor is
connected, and that a descriptor being accepted is not known yet (`ConnInv`,
`CurInv`). `QuietWhenStopped` and `PipeClosedOnce` rest on `LifeInv` of the base: a
running server has a live thread, a live thread is joinable, the pipe is closed
only while its owner waits or after a stop from the callback. `NothingDropped`
needs that what `recv` returned is within what was sent (`ByteInv`), and the TCP
half of `ForgottenWhenDrained` that a reported hang-up is a reset and stays one.
`IInv` is their conjunction; `Invariance` proves it inductive (one lemma for the
server thread, one for the application, one for the network, a step per action),
and the theorems `Types`, `Polled`, `CallbackUnlocked`, `Delivery`, `StableIds`,
`Quiet`, `PipeOnce`, `TcpForgetsDrained` follow. `Listed` adds that what is in
`clients_` is in the poll set or still in `newPfds`, or is the one being inserted
(`ListedInv`); `HasData` that a TCP server enters the callback only with a positive
result of `recv`. `Refinement` proves `Spec => ImplementsService`, with
`ServiceStep` mapping each step under `IInv` to a step of `ConnectionService` or a
stutter.

Datagram servers. The key is `DenseIds`: the ids are `0 .. n - 1`, so the last one
plus one is new (`NewId`) and `emplace` never finds its key taken (`Added`). With it
`Invariance` gives `Types`, `OneId`, `CallbackIds`, `Iterators` and `Permanent`.
`GivenOnce` says that each datagram that arrived is still queued, in hand or given,
never two of these; it needs how often an address occurs in the queue after its
head is taken away and after an arrival is appended, and that a failed `recvfrom`
leaves nothing in hand. On it rests `BookRefinement`, `Spec => ImplementsBook`.

Clients. Everything rests on `LifeInv`: as long as the process goes on,
`threadRunning_` is true exactly while the thread lives, and a thread that lives can
be joined. So the owner that reads false, in `getMessage` or `startRecvThread`, acts
without a thread beside it (`ReaderInv`, for the three clients whose overloads both
test it), a stop that returns has seen the thread exit, and a stop that closes the
pipe finds it open. `CountInv` says that nothing is read that was not sent, and that
a length is in hand only between `recv` and the callback. `ResultBounds` bounds what
`recv` returns. `Invariance` gives `Types`, `Delivery`, `OneReader` (for every
transport but the Unix datagram one, of which TLC shows it false), `Quiet` and
`PipeOnce`. The constant `Transport` is free: what TLC checks for UDP is proved for
all four.

`MailboxRefinement` proves `Spec => ImplementsMailbox`: `WaitingIs` splits what waits
in the box into the queue and `msg_`, and `LifeInv` makes a `getMessage` that answers
one beside which no thread listens.

Stops. That a stop returns is liveness and stays with TLC; what can be proved is what
the fairness is then applied to, and it is proved for all sizes. `StopInv` adds to the
life of the thread that the pipe is closed as long as somebody waits in `stopServer`,
`stopRecvThread` or a destructor, and open while a thread is there that nobody told
to end. So a `poll` that begins during a stop reports the pipe, and the round that sees it
is the last (`LastRoundInv`: the report of the pipe and the entries still to be
handled never come together past the `Pipe` step; it is where the order of the two
entries in `handlePfdUpdates` is used). `StepsLeft` counts what the thread may still
do, and `StopNears` says that each of its steps during a stop lowers the count,
whatever peers, network and owner do in between. The count is bounded
(`StepsLeftBound`): 4 for a receive thread, 13 for a datagram server, and
`6 * Cardinality(Fds) + 12` for a stream server, where the round in hand has yet to
visit every client. What is left for TLC is that each of these steps is taken: that
the callback's `send` is not blocked for ever. From `StopInv` also follow `Unstopped`
and `Unjoined`: the process ends in `std::terminate` only over a thread nobody
stopped, never over one that was told to end.

Blocking calls. `NoWait` says of the stream servers and of the clients that `accept`
and `recv`, on sockets that block, are called only when they return at once. It needs
`ReadyInv`: between the `poll` that reported a socket and the step that reads it,
nobody else reads it (for the clients by `ReaderInv`), a connection that is readable
stays so whatever the peer does (`ReadableStays`), and nobody else accepts. The Unix
datagram client and a UDP client that polls an old number are excepted: there TLC
shows it false.

The composition. `ServerWithin` shows every step of the two example programs to be a
step of `StreamServer` for the server's variables. From it `ExampleServer` carries the
inductive invariants of the stream servers over, and `ExampleService` the refinement of
`ConnectionService`; they are needed again because the program starts connected, and
because its peer reads, blocks and ends as the client's code does. `Answers` needs
`QuitInv`: `quit` is typed once, as the last line; before the handler has met it there
is a given line for every answer, the one in preparation included; after it there are
fewer answers than lines up to it.

Construction and destruction. None of the properties of `Endpoints` is inductive.
The invariant says in `PhaseInv` what an endpoint has still to call: a part of its
class's constructor in the order of `Rank`, so that `socket` is behind it when it
binds and `unlink` before it binds, or an end of its destructor (`EndOf`). `TableInv`
says that an open socket has one number, which is the `sock_` of its endpoint, and
that a server has none after the first call of its destructor (`Whole`); `OwnInv`
that `sock_` is the endpoint's own until then, unless a constructor closed the socket
and kept the number; `SockInv` that `sock_` is `-1` exactly until `socket()`; `AloneInv`
and `FileInv` that the path of an endpoint without a rival is free between `unlink` and
`bind`, and its own afterwards. A call that is done (`DoneStep`), one that fails
(`FailStep`) and one that closes (`CloseFacts`) are lemmas that the actions cite;
`Bystander` is for the endpoints that do not move. From `Invariance` follow `Types`,
`Rival`, `Reachable`, `Own` and `ServersClose`. For `Twice` a step that closes another
file is traced to a `close` of a destructor, and `Closings` says that such a call is
the destructor's first, where `OwnInv` leaves only the failed TCP and UDP servers, or
its last but one.

Only model-checked: liveness (`StopReturns`, `EofHandled`, `ClosedIsForgotten`,
`ClosedEndsThread`, `DatagramsAreGiven`, `QuitObeyed`, `ConversationGoesOn`,
`SendReturns`), which
depends on fairness and is out of the prover's reach. All invariants and action
properties of the runs that pass, and all refinements, are proved.

## 5. What is not modelled

- `serverSaddr_` of a Unix datagram client, which every `recvfrom` overwrites with
  the sender: the server of `ClientSockEP` is the only sender, and nothing in the
  repository says who else may write to the client's path.
- Several application threads on one object: the interfaces are not meant for it
  (only `clients_` is locked), and the tests have one.
- Descriptors that are never closed, those of the clients of a server and the read
  ends of the pipes: that they are not closed is in `StreamServer` (`Forget`), that
  they add up is arithmetic. In `Endpoints` they are files of others.
- The contents of messages, and with them the NUL-terminated copies that
  `getMessage` of the Unix datagram client makes of them; who wrote `msg_` is modelled.
- The other example programs, which have the loops of the TCP ones over the other
  transports, and the tests, which show how callbacks and clients behave.
- The logger, a vendored library that only writes, the legacy interface, which
  nothing implements, and the python wrapper, which is commented out but for two test
  functions.

## 6. How the project was built

In this order: `ServerSockEP`, `StreamServer`, `ConnectionService` and their proofs;
`DgramServer` and its proofs; `ClientSockEP` and its proofs; `AddressBook`, with the
refinement and the proof that each datagram is given once; the stop from inside the
callback and `ListedArePolled`; `Endpoints`, for descriptors, socket files, ports and
crashes, and its proofs; `TcpExamples`, the composition; `Mailbox`, the bounds on a
stop and the calls that never wait; the proofs of the composition. A next step would be the
sender's address in `ClientSockEP`, with a third program that writes to the client.
