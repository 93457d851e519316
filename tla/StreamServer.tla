---------------------------- MODULE StreamServer ----------------------------
(***************************************************************************)
(* TcpServerSockEP and UnixStreamServerSockEP over the base class: the     *)
(* accept/read/hang-up loop of the server thread, the table clients_ under *)
(* clientsMutex_, and sendMessageToClient called from the application      *)
(* thread and from the callback.                                           *)
(*                                                                         *)
(* A client id IS the descriptor accept() returned.  A server-side client  *)
(* object is identified with its descriptor, so clients_ is the set of its *)
(* keys; bytes are identified with their positions in the stream, so a     *)
(* socket buffer is the distance between two counters.                     *)
(***************************************************************************)
EXTENDS ServerSockEP, Integers, FiniteSets

CONSTANTS
    Transport,   \* "tcp" or "unixStream"
    Peers,       \* remote programs; each connects at most once
    Fds,         \* descriptors the process may still open (its limit)
    NoPeer,
    NoFd,
    BufLen,      \* sizeof(msg_)
    MaxBytes,    \* bound: bytes a peer sends
    OutCap       \* bytes a send buffer holds before send() blocks

ASSUME StreamAssumption ==
    /\ Transport \in {"tcp", "unixStream"}
    /\ NoPeer \notin Peers
    /\ NoFd \notin Fds
    /\ IsFiniteSet(Fds)
    /\ BufLen \in Nat \ {0}
    /\ MaxBytes \in Nat
    /\ OutCap \in Nat \ {0}

VARIABLES
    \* the server object
    clients,     \* keys of clients_
    mutex,       \* whether clientsMutex_ is locked
    \* locals of the server thread
    pfds,        \* client descriptors in pfds (sock_ and the pipe are always there)
    newPfds,
    removePfds,
    revents,     \* what the last poll() reported
    todo,        \* reported client entries the loop has not reached yet
    cur,         \* the descriptor in hand
    got,         \* bytesReceived: bytes of msg_ not yet given to the callback
    \* the application thread
    iter,        \* key of the iterator sendMessageToClient holds
    known,       \* the <<id, peer>> pairs the application was told of
    \* the kernel and the peers
    conn,        \* the peer a descriptor is connected to
    peer,        \* state of a peer's end of the connection
    backlog,     \* peers connected and not yet accepted
    sent,        \* bytes sent by a peer
    taken,       \* bytes of them read by the server
    given,       \* bytes of them given to the callback
    outq         \* bytes sent to a peer that it has not read

objVars == <<clients, mutex>>
loopVars == <<pfds, newPfds, removePfds, revents, todo, cur, got>>
appVars == <<iter, known>>
netVars == <<conn, peer, backlog, sent, taken, given, outq>>
vars == <<lifeVars, objVars, loopVars, appVars, netVars>>

NoEvents == [listen |-> FALSE, pipe |-> FALSE, hup |-> {}, in |-> {}]

Init ==
    /\ LifeInit
    /\ clients = {}
    /\ mutex = FALSE
    /\ pfds = {}
    /\ newPfds = {}
    /\ removePfds = {}
    /\ revents = NoEvents
    /\ todo = {}
    /\ cur = NoFd
    /\ got = 0
    /\ iter = NoFd
    /\ known = {}
    /\ conn = [f \in Fds |-> NoPeer]
    /\ peer = [p \in Peers |-> "off"]
    /\ backlog = {}
    /\ sent = [p \in Peers |-> 0]
    /\ taken = [p \in Peers |-> 0]
    /\ given = [p \in Peers |-> 0]
    /\ outq = [p \in Peers |-> 0]

Min2(a, b) == IF a <= b THEN a ELSE b

-----------------------------------------------------------------------------
(* The kernel, as the code sees it through poll, accept, recv and send.    *)

Unread(p) == sent[p] - taken[p]

\* POLLHUP: both directions of the connection are down.
HungUp(p) == peer[p] = (IF Transport = "tcp" THEN "reset" ELSE "closed")

\* POLLIN: there are bytes to read, or recv() would report the end at once.
Readable(p) == Unread(p) > 0 \/ peer[p] \in {"finished", "closed", "reset"}

\* send() blocks while the buffer of a peer that is still there is full.
CanSend(p) == peer[p] \in {"open", "finished"} => outq[p] < OutCap

(***************************************************************************)
(* send(..., MSG_NOSIGNAL) of one byte: queued; or answered with a reset   *)
(* by a TCP peer that has closed; or an error, which only the return value *)
(* shows.                                                                  *)
(***************************************************************************)
SendByte(p) ==
    /\ CanSend(p)
    /\ outq' = IF peer[p] \in {"open", "finished"}
               THEN [outq EXCEPT ![p] = @ + 1] ELSE outq
    /\ peer' = IF peer[p] = "closed" /\ Transport = "tcp"
               THEN [peer EXCEPT ![p] = "reset"] ELSE peer
    /\ UNCHANGED <<conn, backlog, sent, taken, given>>

PeerConnect(p) ==
    /\ valid
    /\ sockOpen
    /\ peer[p] = "off"
    /\ peer' = [peer EXCEPT ![p] = "open"]
    /\ backlog' = backlog \cup {p}
    /\ UNCHANGED <<conn, sent, taken, given, outq>>

PeerSend(p) ==
    /\ peer[p] = "open"
    /\ sent[p] < MaxBytes
    /\ sent' = [sent EXCEPT ![p] = @ + 1]
    /\ UNCHANGED <<conn, peer, backlog, taken, given, outq>>

PeerRead(p) ==
    /\ peer[p] \in {"open", "finished"}
    /\ outq[p] > 0
    /\ outq' = [outq EXCEPT ![p] = @ - 1]
    /\ UNCHANGED <<conn, peer, backlog, sent, taken, given>>

\* shutdown(SHUT_WR): the peer still reads.
PeerFinish(p) ==
    /\ peer[p] = "open"
    /\ peer' = [peer EXCEPT ![p] = "finished"]
    /\ UNCHANGED <<conn, backlog, sent, taken, given, outq>>

\* close(): orderly, except that TCP resets when the peer left bytes unread.
PeerClose(p) ==
    /\ peer[p] \in {"open", "finished"}
    /\ peer' = [peer EXCEPT ![p] =
                  IF Transport = "tcp" /\ outq[p] > 0 THEN "reset" ELSE "closed"]
    /\ UNCHANGED <<conn, backlog, sent, taken, given, outq>>

\* A TCP connection that breaks.
PeerReset(p) ==
    /\ Transport = "tcp"
    /\ peer[p] \in {"open", "finished"}
    /\ peer' = [peer EXCEPT ![p] = "reset"]
    /\ UNCHANGED <<conn, backlog, sent, taken, given, outq>>

Network(p) ==
    /\ \/ PeerConnect(p)
       \/ PeerSend(p)
       \/ PeerRead(p)
       \/ PeerFinish(p)
       \/ PeerClose(p)
       \/ PeerReset(p)
    /\ UNCHANGED <<lifeVars, objVars, loopVars, appVars>>

-----------------------------------------------------------------------------
(* The server thread: one round of runServer's loop.                       *)

Entry ==
    /\ RunServerEntry
    /\ pfds' = {}
    /\ UNCHANGED <<objVars, newPfds, removePfds, revents, todo, cur, got, appVars, netVars>>

PollFails ==
    /\ PollError
    /\ UNCHANGED <<objVars, loopVars, appVars, netVars>>

\* With POLLRDHUP asked for, and taken for a hang-up.
Reported_RdHup ==
    [listen |-> backlog # {},
     pipe   |-> ~pipeOpen,
     hup    |-> {f \in pfds : peer[conn[f]] \in {"finished", "closed", "reset"}},
     in     |-> {f \in pfds : Readable(conn[f])}]
Reported ==
    [listen |-> backlog # {},
     pipe   |-> ~pipeOpen,
     hup    |-> {f \in pfds : HungUp(conn[f])},
     in     |-> {f \in pfds : Readable(conn[f])}]

Poll ==
    /\ spc = "poll"
    /\ Reported # NoEvents
    /\ revents' = Reported
    /\ spc' = "listen"
    /\ UNCHANGED <<valid, sockOpen, running, joinable, pipeOpen, apc, starts, fault>>
    /\ UNCHANGED <<objVars, pfds, newPfds, removePfds, todo, cur, got, appVars, netVars>>

\* The control part of a step of the server thread that only moves on.
Goto(from, to) ==
    /\ spc = from
    /\ spc' = to
    /\ UNCHANGED <<valid, sockOpen, running, joinable, pipeOpen, apc, starts, fault>>

\* Descriptors accept() may return: those not open on a connection.
FreeFds == {f \in Fds : conn[f] = NoPeer}

(***************************************************************************)
(* createNewClient: accept() on the listening socket.  The new entry goes  *)
(* to newPfds before clients_ is locked.                                   *)
(***************************************************************************)
Accept ==
    /\ Goto("listen", "insertLock")
    /\ revents.listen
    /\ \E p \in backlog, f \in FreeFds :
          /\ backlog' = backlog \ {p}
          /\ conn' = [conn EXCEPT ![f] = p]
          /\ cur' = f
          /\ newPfds' = newPfds \cup {f}
    /\ UNCHANGED <<objVars, pfds, removePfds, revents, todo, got, appVars>>
    /\ UNCHANGED <<peer, sent, taken, given, outq>>

\* No connection to accept; or accept() fails, for want of a descriptor or for a
\* reason that passes, and leaves it in the backlog: "continue".
NoAccept ==
    /\ Goto("listen", "pipe")
    /\ UNCHANGED <<objVars, loopVars, appVars, netVars>>

LockedStates == [insertLock |-> "insert", hupLock |-> "hup", readLock |-> "read"]

Lock ==
    /\ spc \in DOMAIN LockedStates
    /\ ~mutex
    /\ mutex' = TRUE
    /\ Goto(spc, LockedStates[spc])
    /\ UNCHANGED <<clients, loopVars, appVars, netVars>>

Insert ==
    /\ Goto("insert", "pipe")
    /\ clients' = clients \cup {cur}
    /\ mutex' = FALSE
    /\ cur' = NoFd
    /\ UNCHANGED <<pfds, newPfds, removePfds, revents, todo, got, appVars, netVars>>

\* The pipe entry comes second; on a hang-up the rest of the round is skipped.
Pipe_KeepsRunning ==
    /\ Goto("pipe", "scan")
    /\ todo' = IF revents.pipe THEN {} ELSE revents.hup \cup revents.in
    /\ UNCHANGED <<objVars, pfds, newPfds, removePfds, revents, cur, got, appVars, netVars>>
Pipe_TestsNoEvent ==
    /\ spc = "pipe"
    /\ spc' = "scan"
    /\ running' = (running /\ ~revents.pipe)
    /\ todo' = IF revents.pipe THEN {} ELSE pfds
    /\ UNCHANGED <<valid, sockOpen, joinable, pipeOpen, apc, starts, fault>>
    /\ UNCHANGED <<objVars, pfds, newPfds, removePfds, revents, cur, got, appVars, netVars>>
Pipe ==
    /\ spc = "pipe"
    /\ spc' = "scan"
    /\ running' = (running /\ ~revents.pipe)
    /\ todo' = IF revents.pipe THEN {} ELSE revents.hup \cup revents.in
    /\ UNCHANGED <<valid, sockOpen, joinable, pipeOpen, apc, starts, fault>>
    /\ UNCHANGED <<objVars, pfds, newPfds, removePfds, revents, cur, got, appVars, netVars>>

\* The next client entry with an event; a hang-up is tested before POLLIN.
Scan_NoHup(f) ==
    /\ f \in todo
    /\ todo' = todo \ {f}
    /\ cur' = f
    /\ Goto("scan", "readLock")
    /\ UNCHANGED <<objVars, pfds, newPfds, removePfds, revents, got, appVars, netVars>>
Scan(f) ==
    /\ f \in todo
    /\ todo' = todo \ {f}
    /\ cur' = f
    /\ Goto("scan", IF f \in revents.hup THEN "hupLock" ELSE "readLock")
    /\ UNCHANGED <<objVars, pfds, newPfds, removePfds, revents, got, appVars, netVars>>

\* What forgetting a client removes: the entry of the poll set and of clients_.
Forget_KeepPfd(f) ==
    /\ clients' = clients \ {f}
    /\ UNCHANGED <<removePfds, conn>>
Forget_KeepClient(f) ==
    /\ removePfds' = removePfds \cup {f}
    /\ UNCHANGED <<clients, conn>>
Forget_CloseFd(f) ==
    /\ removePfds' = removePfds \cup {f}
    /\ clients' = clients \ {f}
    /\ conn' = [conn EXCEPT ![f] = NoPeer]
Forget(f) ==
    /\ removePfds' = removePfds \cup {f}
    /\ clients' = clients \ {f}
    /\ UNCHANGED conn

Hup ==
    /\ Goto("hup", "scan")
    /\ Forget(cur)
    /\ mutex' = FALSE
    /\ cur' = NoFd
    /\ UNCHANGED <<pfds, newPfds, revents, todo, got, appVars>>
    /\ UNCHANGED <<peer, backlog, sent, taken, given, outq>>

\* A Unix peer that closes with bytes unread resets: recv() says so once drained.
RecvFails(p) ==
    Transport = "unixStream" /\ peer[p] = "closed" /\ outq[p] > 0 /\ Unread(p) = 0

\* The size passed to getMessage is not that of msg_.
Received_Unbounded(p) == Unread(p)
\* getMessage is recv(): what has arrived, at most one buffer of it, 0 at the end.
Received(p) == IF RecvFails(p) THEN -1 ELSE Min2(Unread(p), BufLen)

\* The bytes of msg_ a result of recv() stands for.
Bytes(n) == IF n > 0 THEN n ELSE 0

\* The bytes go to msg_, the lock is released, and the callback is next.
TakeMessage_Locked(p) ==
    /\ Goto("read", "callback")
    /\ taken' = [taken EXCEPT ![p] = @ + Bytes(Received(p))]
    /\ got' = Received(p)
    /\ UNCHANGED <<clients, mutex, removePfds, conn, cur>>
TakeMessage(p) ==
    /\ Goto("read", "callback")
    /\ taken' = [taken EXCEPT ![p] = @ + Bytes(Received(p))]
    /\ got' = Received(p)
    /\ mutex' = FALSE
    /\ UNCHANGED <<clients, removePfds, conn, cur>>

\* TcpServerSockEP: recv() = 0 is the end of the connection.
TcpReadable_NoEof(p) == TakeMessage(p)
TcpReadable(p) ==
    \/ /\ Received(p) # 0
       /\ TakeMessage(p)
    \/ /\ Received(p) = 0
       /\ Goto("read", "scan")
       /\ Forget(cur)
       /\ mutex' = FALSE
       /\ cur' = NoFd
       /\ UNCHANGED <<got, taken>>

\* UnixStreamServerSockEP: no test, the callback may be given 0 or -1 as a length.
UnixStreamReadable(p) == TakeMessage(p)

Read ==
    /\ spc = "read"
    /\ \/ Transport = "tcp" /\ TcpReadable(conn[cur])
       \/ Transport = "unixStream" /\ UnixStreamReadable(conn[cur])
    /\ UNCHANGED <<pfds, newPfds, revents, todo, appVars>>
    /\ UNCHANGED <<peer, backlog, sent, given, outq>>

\* callback_(pfd.fd, msg_, bytesReceived), outside the lock.
Callback_Skipped ==
    /\ Goto("callback", "reply")
    /\ known' = known \cup {<<cur, conn[cur]>>}
    /\ got' = 0
    /\ UNCHANGED <<objVars, pfds, newPfds, removePfds, revents, todo, cur, iter, netVars>>
Callback ==
    /\ Goto("callback", "reply")
    /\ given' = [given EXCEPT ![conn[cur]] = @ + Bytes(got)]
    /\ known' = known \cup {<<cur, conn[cur]>>}
    /\ got' = 0
    /\ UNCHANGED <<objVars, pfds, newPfds, removePfds, revents, todo, cur, iter>>
    /\ UNCHANGED <<conn, peer, backlog, sent, taken, outq>>

KnownIds == {k[1] : k \in known}

\* The callback calls sendMessageToClient(i): find under the lock, then send.
ReplyFind(i) ==
    /\ ~mutex
    /\ Goto("reply", IF i \in clients THEN "replySend" ELSE "scan")
    /\ cur' = IF i \in clients THEN i ELSE NoFd
    /\ UNCHANGED <<objVars, pfds, newPfds, removePfds, revents, todo, got, appVars, netVars>>

ReplySend ==
    /\ Goto("replySend", "scan")
    /\ SendByte(conn[cur])
    /\ cur' = NoFd
    /\ UNCHANGED <<objVars, pfds, newPfds, removePfds, revents, todo, got, appVars>>

\* The callback returns without calling the server.
NoReply ==
    /\ Goto("reply", "scan")
    /\ cur' = NoFd
    /\ UNCHANGED <<objVars, pfds, newPfds, removePfds, revents, todo, got, appVars, netVars>>

\* Or it calls stopServer.
CallbackStops ==
    /\ spc = "reply"
    /\ StopInCallback
    /\ UNCHANGED <<objVars, loopVars, appVars, netVars>>

\* The end of the round: runServer adds the new entries and erases the removed.
Merge_LosesNew ==
    /\ todo = {}
    /\ Goto("scan", LoopHead(running))
    /\ pfds' = IF removePfds = {} THEN pfds \cup newPfds ELSE pfds \ removePfds
    /\ newPfds' = {}
    /\ removePfds' = {}
    /\ revents' = NoEvents
    /\ UNCHANGED <<objVars, todo, cur, got, appVars, netVars>>
Merge ==
    /\ todo = {}
    /\ Goto("scan", LoopHead(running))
    /\ pfds' = (pfds \cup newPfds) \ removePfds
    /\ newPfds' = {}
    /\ removePfds' = {}
    /\ revents' = NoEvents
    /\ UNCHANGED <<objVars, todo, cur, got, appVars, netVars>>

ServerStep ==
    \/ Entry
    \/ Poll
    \/ Accept
    \/ NoAccept
    \/ Lock
    \/ Insert
    \/ Pipe
    \/ \E f \in Fds : Scan(f)
    \/ Hup
    \/ Read
    \/ Callback
    \/ \E i \in KnownIds : ReplyFind(i)
    \/ ReplySend
    \/ NoReply
    \/ Merge

-----------------------------------------------------------------------------
(* The application thread.                                                 *)

\* The life-cycle calls leave the rest of the server alone ...
Manage ==
    /\ \/ StartServer
       \/ StopServer
       \/ DtorStop
    /\ UNCHANGED <<objVars, loopVars, appVars, netVars>>

Joins ==
    /\ \/ StopJoin
       \/ DtorJoin
    /\ UNCHANGED <<objVars, loopVars, appVars, netVars>>

\* ... except that the last of them destroys clients_, after serverThread_ (members
\* go in reverse order of declaration); no descriptor of a client is closed.
Destroy ==
    /\ DtorClose
    /\ clients' = IF joinable THEN clients ELSE {}
    /\ UNCHANGED <<mutex, loopVars, appVars, netVars>>

GetClientIds ==
    /\ apc = "idle"
    /\ ~mutex
    /\ known' = known \cup {<<f, conn[f]>> : f \in clients}
    /\ UNCHANGED <<lifeVars, objVars, loopVars, iter, netVars>>

(***************************************************************************)
(* sendMessageToClient on the application thread: find() under the lock;   *)
(* the iterator is dereferenced after unlock().  An invalid server or an   *)
(* id that is not found returns -1 and changes nothing.                    *)
(***************************************************************************)
SendFind(i) ==
    /\ apc = "idle"
    /\ valid
    /\ ~mutex
    /\ i \in clients
    /\ iter' = i
    /\ apc' = "send"
    /\ UNCHANGED <<valid, sockOpen, running, joinable, pipeOpen, spc, starts, fault>>
    /\ UNCHANGED <<objVars, loopVars, known, netVars>>

SendReturn ==
    /\ apc = "send"
    /\ apc' = "idle"
    /\ iter' = NoFd
    /\ UNCHANGED <<valid, sockOpen, running, joinable, pipeOpen, spc, starts>>
    /\ UNCHANGED <<objVars, loopVars, known>>

SendThrough ==
    /\ SendReturn
    /\ iter \in clients
    /\ SendByte(conn[iter])
    /\ UNCHANGED fault

(***************************************************************************)
(* The node was erased meanwhile: undefined.  The process crashes, or the  *)
(* freed memory still yields some descriptor, connected or not.            *)
(***************************************************************************)
SendDangling ==
    /\ SendReturn
    /\ iter \notin clients
    /\ \/ fault' = "crash" /\ UNCHANGED netVars
       \/ fault' = fault /\ UNCHANGED netVars
       \/ fault' = fault /\ \E f \in Fds \ FreeFds : SendByte(conn[f])

AppStep == Joins \/ Destroy \/ SendThrough \/ SendDangling

\* A process that has ended: destroyed normally and its thread gone, or aborted.
Ended ==
    /\ fault # "none" \/ apc = "destroyed"
    /\ UNCHANGED vars

Next ==
    \/ /\ fault = "none"
       /\ \/ ServerStep
          \/ PollFails
          \/ CallbackStops
          \/ Manage
          \/ AppStep
          \/ GetClientIds
          \/ \E i \in KnownIds : SendFind(i)
          \/ \E p \in Peers : Network(p)
    \/ Ended

Spec == Init /\ [][Next]_vars

(***************************************************************************)
(* Fairness: the scheduler runs both threads (a blocked poll, lock, join   *)
(* or send is a disabled step), the callback returns, and a peer that      *)
(* keeps its connection open reads what it is sent.  Two threads may wait  *)
(* in send() for the same full buffer; the kernel wakes both whenever room *)
(* appears, so neither loses the race for ever (strong fairness); nor does *)
(* accept() fail for ever while there is a descriptor for it.  Nothing     *)
(* makes the application call or the peers connect, send or close.         *)
(***************************************************************************)
Fairness ==
    /\ WF_vars(fault = "none" /\ ServerStep)
    /\ SF_vars(fault = "none" /\ ReplySend)
    /\ SF_vars(fault = "none" /\ Accept)
    /\ WF_vars(fault = "none" /\ AppStep)
    /\ \A p \in Peers : WF_vars(fault = "none" /\ PeerRead(p) /\ Network(p))

FairSpec == Spec /\ Fairness

-----------------------------------------------------------------------------
(* Properties.                                                             *)

ServerStates ==
    {"listen", "insertLock", "insert", "pipe", "scan", "hupLock", "hup",
     "readLock", "read", "callback", "reply", "replySend"}

PeerStates == {"off", "open", "finished", "closed", "reset"}

TableTypeOK ==
    /\ clients \subseteq Fds
    /\ mutex \in BOOLEAN
    /\ pfds \subseteq Fds
    /\ newPfds \subseteq Fds
    /\ removePfds \subseteq Fds
    /\ revents \in [listen : BOOLEAN, pipe : BOOLEAN, hup : SUBSET Fds, in : SUBSET Fds]
    /\ todo \subseteq Fds
    /\ cur \in Fds \cup {NoFd}
    /\ got \in -1 .. BufLen
    /\ iter \in Fds \cup {NoFd}
    /\ known \subseteq Fds \X Peers

NetTypeOK ==
    /\ conn \in [Fds -> Peers \cup {NoPeer}]
    /\ peer \in [Peers -> PeerStates]
    /\ backlog \subseteq Peers
    /\ sent \in [Peers -> Nat]
    /\ taken \in [Peers -> Nat]
    /\ given \in [Peers -> Nat]
    /\ outq \in [Peers -> Nat]

(***************************************************************************)
(* Every variable has its type; in particular a result of recv() never     *)
(* exceeds the buffer msg_ it was told the size of.                        *)
(***************************************************************************)
TypeOK == LifeTypeOK(ServerStates, {"send"}) /\ TableTypeOK /\ NetTypeOK

(***************************************************************************)
(* Every client entry the loop polls has an object in clients_, so that    *)
(* clients_[pfd.fd]->getMessage never reaches the null pointer operator[]  *)
(* would insert, and the callback's own sendMessageToClient never holds an *)
(* iterator to an erased node.                                             *)
(***************************************************************************)
PolledAreListed ==
    /\ ~ThreadGone /\ spc # "entry" => pfds \ removePfds \subseteq clients
    /\ spc \in {"hupLock", "hup", "readLock", "read", "callback", "reply", "replySend"}
          => cur \in clients

(***************************************************************************)
(* The other half: in its first run the server is deaf to no client it     *)
(* lists, one it has just accepted or the neighbour of one it has just     *)
(* removed.  A client of an earlier run stays in clients_ after a restart, *)
(* but not in the new poll set.                                            *)
(***************************************************************************)
ListedArePolled == starts = 1 => clients \subseteq (pfds \cup newPfds) \ removePfds

(***************************************************************************)
(* clientsMutex_ is free for the whole of the callback, which may call     *)
(* sendMessageToClient and getClientIds: the mutex is not recursive.       *)
(***************************************************************************)
CallbackMayCallBack == spc \in {"callback", "reply", "replySend"} => ~mutex

(***************************************************************************)
(* Every byte the server thread takes off a socket reaches the callback    *)
(* exactly once: nothing but the message in msg_ lies between the bytes    *)
(* read and the bytes given.                                               *)
(***************************************************************************)
NothingDropped ==
    \A p \in Peers :
        taken[p] = given[p] + (IF spc = "callback" /\ conn[cur] = p THEN Bytes(got) ELSE 0)

(***************************************************************************)
(* An id the program was told of, by the callback or by getClientIds, goes *)
(* on naming the same peer for as long as the program may use it: a late   *)
(* reply is never sent to somebody else.                                   *)
(***************************************************************************)
IdsKeepTheirPeer == \A k \in known : conn[k[1]] = k[2]

(***************************************************************************)
(* The server forgets a client only when it has read everything the client *)
(* sent, unless the connection broke: an orderly close loses no message.   *)
(***************************************************************************)
ForgottenWhenDrained ==
    [][\A f \in Fds : f \in clients \ clients' /\ apc' # "destroyed"
          => Unread(conn[f])' = 0 \/ peer[conn[f]] = "reset"]_vars

(***************************************************************************)
(* sendMessageToClient on the application thread never holds an iterator   *)
(* to a node the server thread has erased.                                 *)
(***************************************************************************)
NoDanglingIterator == apc = "send" => iter \in clients

(***************************************************************************)
(* The callback is called for data: its length is what msg_ holds, never   *)
(* the 0 of an ended connection nor the -1 of a failed recv(), which the   *)
(* callback would see as the largest size_t.                               *)
(***************************************************************************)
CallbackHasData == spc = "callback" => got \in 1 .. BufLen

(***************************************************************************)
(* accept() and recv(), on sockets that block, are called only when they   *)
(* return at once: what poll() reported is still so when the loop gets     *)
(* there, so a recv() of 0 bytes is the end of the connection.             *)
(***************************************************************************)
RecvNeverWaits ==
    /\ spc = "listen" /\ revents.listen => backlog # {}
    /\ spc = "read" => Readable(conn[cur])

\* The steps to the end of a round, but for those that handle the entry in hand:
\* at most 6 for each entry still to come, and those of the round that sees the stop.
RestOfRound(entries) == IF revents.pipe THEN 1 ELSE 6 * Cardinality(entries) + 7

\* How many steps the thread that is told to end may still make.
StepsLeft ==
    CASE spc = "entry"      -> 7
      [] spc = "poll"       -> 6
      [] spc = "listen"     -> 4 + RestOfRound(revents.hup \cup revents.in)
      [] spc = "insertLock" -> 3 + RestOfRound(revents.hup \cup revents.in)
      [] spc = "insert"     -> 2 + RestOfRound(revents.hup \cup revents.in)
      [] spc = "pipe"       -> 1 + RestOfRound(revents.hup \cup revents.in)
      [] spc = "scan"       -> RestOfRound(todo)
      [] spc = "readLock"   -> 5 + RestOfRound(todo)
      [] spc = "read"       -> 4 + RestOfRound(todo)
      [] spc = "callback"   -> 3 + RestOfRound(todo)
      [] spc \in {"reply", "hupLock"} -> 2 + RestOfRound(todo)
      [] spc \in {"replySend", "hup"} -> 1 + RestOfRound(todo)
      [] OTHER              -> 0

(***************************************************************************)
(* A stop cannot be held up by traffic: while the application waits in     *)
(* stopServer or the destructor, every step of the thread is one of a      *)
(* number fixed by the events of the round it is in, however many clients  *)
(* connect and send meanwhile.                                             *)
(***************************************************************************)
StopComesNearer == [][Stopping /\ spc' # spc => StepsLeft' < StepsLeft]_vars

\* stopServer and the destructor return, unless the callback ends the process.
StopReturns == Stopping ~> fault # "none" \/ ~Stopping

(***************************************************************************)
(* While the server runs, a client that ends its side of the connection    *)
(* has all it sent delivered and then disappears from clients_.            *)
(***************************************************************************)
EofHandled ==
    \A p \in Peers :
        running /\ peer[p] \in {"finished", "closed"} ~>
            \/ /\ given[p] = sent[p]
               /\ p \notin backlog
               /\ \A f \in clients : conn[f] # p
            \/ peer[p] = "reset" \/ ~running \/ fault # "none"

\* While the server runs, a client that has closed disappears from clients_.
ClosedIsForgotten ==
    \A p \in Peers :
        running /\ peer[p] = "closed" ~>
            (\A f \in clients : conn[f] # p) \/ ~running \/ fault # "none"

(***************************************************************************)
(* The service this server implements: up while the thread lives, an id    *)
(* names its peer from the moment it is in clients_.                       *)
(***************************************************************************)
Entering == IF spc \in {"insertLock", "insert"} THEN {cur} ELSE {}

Service == INSTANCE ConnectionService
    WITH Ids <- Fds,
         up <- ~ThreadGone,
         members <- clients,
         owner <- [f \in Fds |-> IF f \in Entering THEN NoPeer ELSE conn[f]],
         delivered <- given

\* The server implements the service.
ImplementsService == Service!Spec

-----------------------------------------------------------------------------
(* The inductive invariant: what the properties above rest on.             *)

\* States in which it handles one entry of the poll set, cur.
Handling == {"hupLock", "hup", "readLock", "read", "callback", "reply"}

(***************************************************************************)
(* The mutex is held by the server thread only, in the three steps that    *)
(* use clients_.                                                           *)
(***************************************************************************)
MutexInv == mutex => spc \in {"insert", "hup", "read"}

(***************************************************************************)
(* The connections: one descriptor a peer, none before it is accepted, and *)
(* never another peer for an id the application knows.                     *)
(***************************************************************************)
ConnInv ==
    /\ \A f, g \in Fds : conn[f] = conn[g] /\ conn[f] # NoPeer => f = g
    /\ \A p \in backlog : peer[p] # "off" /\ \A f \in Fds : conn[f] # p
    /\ \A p \in Peers : peer[p] = "off" => \A f \in Fds : conn[f] # p
    /\ \A f \in clients : conn[f] \in Peers
    /\ IdsKeepTheirPeer

(***************************************************************************)
(* The poll set of a round: what stays polled has an object in clients_,   *)
(* the entry being accepted excepted; what is still to be handled has not  *)
(* been removed; and the lists of changes are empty between two rounds.    *)
(***************************************************************************)
PollInv ==
    /\ spc \in ServerStates \cup {"poll"} =>
          /\ pfds \ removePfds \subseteq clients
          /\ newPfds \ removePfds \subseteq clients \cup Entering
    /\ spc \notin ServerStates \/ spc = "listen" => newPfds = {} /\ removePfds = {}
    /\ spc \in {"insertLock", "insert", "pipe"} => removePfds = {}
    /\ spc \in {"listen", "insertLock", "insert", "pipe"} =>
          revents.hup \cup revents.in \subseteq pfds
    /\ spc \in Handling \cup {"scan", "replySend"} => todo \subseteq pfds \ removePfds

\* The entry in hand.
CurInv ==
    /\ spc \in {"insertLock", "insert"} =>
          /\ cur \in Fds /\ conn[cur] \in Peers
          /\ cur \notin clients
          /\ \A k \in known : k[1] # cur
    /\ spc \in Handling => cur \in (pfds \ removePfds) \ todo
    /\ spc = "replySend" => cur \in clients

(***************************************************************************)
(* The bytes: none is read that was not sent, none is read that is not     *)
(* given but those in msg_, and a TCP hang-up that was reported is final.  *)
(***************************************************************************)
ByteInv ==
    /\ \A p \in Peers : taken[p] <= sent[p]
    /\ NothingDropped
    /\ Transport = "tcp" =>
          /\ \A f \in revents.hup : conn[f] \in Peers /\ peer[conn[f]] = "reset"
          /\ spc \in {"hupLock", "hup"} => cur \in revents.hup

\* In the first run clients_ and the poll set start empty, and grow together.
ListedInv ==
    /\ starts = 0 => ThreadGone
    /\ starts = 0 \/ (starts = 1 /\ spc = "entry") => clients = {}
    /\ spc \in {"insertLock", "insert"} => cur \in newPfds
    /\ ListedArePolled

\* All of it but ListedInv, which rests on it.
IInv ==
    /\ TypeOK
    /\ LifeInv
    /\ MutexInv
    /\ ConnInv
    /\ PollInv
    /\ CurInv
    /\ ByteInv

(***************************************************************************)
(* What poll() reported stays true until the loop gets to it: a connection *)
(* is taken from the backlog, and bytes from a socket, by this thread      *)
(* only, and the end of a stream is final.                                 *)
(***************************************************************************)
ReadyInv ==
    /\ spc \in {"listen", "insertLock", "insert", "pipe"} =>
          \A f \in revents.hup \cup revents.in : conn[f] \in Peers /\ Readable(conn[f])
    /\ spc \in Handling \cup {"scan", "replySend"} =>
          \A f \in todo : conn[f] \in Peers /\ Readable(conn[f])
    /\ spc = "readLock" => Readable(conn[cur])
    /\ RecvNeverWaits

\* A round that has seen the pipe closed handles no client and is the last.
LastRoundInv ==
    /\ revents.pipe => ~pipeOpen
    /\ spc \notin ServerStates => ~revents.pipe
    /\ revents.pipe /\ spc \in Handling \cup {"scan", "replySend"} =>
          spc = "scan" /\ todo = {} /\ ~running
=============================================================================
