---------------------------- MODULE DgramServer -----------------------------
(***************************************************************************)
(* UdpServerSockEP and UnixDgramServerSockEP over the base class: one      *)
(* socket for every client.  The server thread takes a datagram, looks its *)
(* sender's address up in clients_ (addClient), which gives it an id or a  *)
(* new one, and calls back with that id.  Clients are never erased.        *)
(*                                                                         *)
(* An object of clients_ is its address.  Loss, duplication and reordering *)
(* happen before a datagram is queued at the socket: an arrival is one     *)
(* datagram queued, whatever was sent.                                     *)
(***************************************************************************)
EXTENDS ServerSockEP, Sequences, FiniteSetsExt

CONSTANTS
    Transport,   \* "udp" or "unixDgram"
    Addrs,       \* addresses
    Unnamed,     \* of them, the one clearSaddr() leaves: that of every unnamed socket
    NoAddr,
    Lengths,     \* lengths of the datagrams that arrive
    BufLen,      \* sizeof(msg_), MESSAGE_MAX_LEN
    MaxArrivals, \* bound: datagrams that arrive from an address
    InCap,       \* datagrams the socket queues
    OutCap       \* datagrams the socket of a peer queues

ASSUME DgramAssumption ==
    /\ Transport \in {"udp", "unixDgram"}
    /\ Unnamed \in Addrs
    /\ NoAddr \notin Addrs
    /\ Lengths \subseteq Nat
    /\ BufLen \in Nat \ {0}
    /\ MaxArrivals \in Nat
    /\ InCap \in Nat \ {0}
    /\ OutCap \in Nat \ {0}

VARIABLES
    clients,     \* clients_: a function from ids to addresses
    revents,     \* what the last poll() reported of sock_ and of the pipe
    from,        \* the address recvfrom() stored in newClient
    got,         \* bytesReceived, -1 when recvfrom() failed
    clientId,    \* what addClient returned
    to,          \* the address the callback's sendMessageToClient found
    iter,        \* key of the iterator the application's sendMessageToClient holds
    known,       \* ids the application was told of
    bound,       \* sock_ is bound: the constructor succeeded
    inbox,       \* the datagrams queued at sock_
    arrived,     \* datagrams queued so far, by address
    given,       \* datagrams given to the callback, by address
    reachable,   \* addresses with a socket to receive
    outq         \* datagrams queued at the socket of an address

loopVars == <<revents, from, got, clientId, to>>
appVars == <<iter, known>>
netVars == <<bound, inbox, arrived, given, reachable, outq>>
vars == <<lifeVars, clients, loopVars, appVars, netVars>>

NoEvents == [listen |-> FALSE, pipe |-> FALSE]
NoId == -1

Init ==
    /\ LifeInit
    /\ clients = <<>>
    /\ revents = NoEvents
    /\ from = NoAddr
    /\ got = 0
    /\ clientId = NoId
    /\ to = NoAddr
    /\ iter = NoId
    /\ known = {}
    /\ bound = valid
    /\ inbox = <<>>
    /\ arrived = [a \in Addrs |-> 0]
    /\ given = [a \in Addrs |-> 0]
    /\ reachable = Addrs \ {Unnamed}
    /\ outq = [a \in Addrs |-> 0]

-----------------------------------------------------------------------------
(* The kernel and the peers.                                               *)

(***************************************************************************)
(* A Unix sender waits while the queue is full; a UDP datagram is dropped, *)
(* which is no arrival.                                                    *)
(***************************************************************************)
Arrive(a, n) ==
    /\ bound
    /\ sockOpen
    /\ arrived[a] < MaxArrivals
    /\ Len(inbox) < InCap
    /\ inbox' = Append(inbox, [from |-> a, len |-> n])
    /\ arrived' = [arrived EXCEPT ![a] = @ + 1]
    /\ UNCHANGED <<bound, given, reachable, outq>>

PeerRead(a) ==
    /\ outq[a] > 0
    /\ outq' = [outq EXCEPT ![a] = @ - 1]
    /\ UNCHANGED <<bound, inbox, arrived, given, reachable>>

\* The socket bound to an address is closed, with what it queued; or bound again.
PeerLeave(a) ==
    /\ a \in reachable
    /\ reachable' = reachable \ {a}
    /\ outq' = [outq EXCEPT ![a] = 0]
    /\ UNCHANGED <<bound, inbox, arrived, given>>

PeerBind(a) ==
    /\ a \notin reachable \cup {Unnamed}
    /\ reachable' = reachable \cup {a}
    /\ UNCHANGED <<bound, inbox, arrived, given, outq>>

Network(a) ==
    /\ \/ \E n \in Lengths : Arrive(a, n)
       \/ PeerRead(a)
       \/ PeerLeave(a)
       \/ PeerBind(a)
    /\ UNCHANGED <<lifeVars, clients, loopVars, appVars>>

(***************************************************************************)
(* sendto(): queued; or dropped, by UDP; or an error, when nobody is       *)
(* there.  Only a Unix socket that is full makes it wait.                  *)
(***************************************************************************)
SendTo(a) ==
    /\ Transport = "unixDgram" /\ a \in reachable => outq[a] < OutCap
    /\ outq' = IF a \in reachable /\ outq[a] < OutCap
               THEN [outq EXCEPT ![a] = @ + 1] ELSE outq
    /\ UNCHANGED <<bound, inbox, arrived, given, reachable>>

-----------------------------------------------------------------------------
(* The server thread.                                                      *)

Goto(a, b) ==
    /\ spc = a
    /\ spc' = b
    /\ UNCHANGED <<valid, sockOpen, running, joinable, pipeOpen, apc, starts, fault>>

Entry_ClearsClients ==
    /\ RunServerEntry
    /\ clients' = <<>>
    /\ UNCHANGED <<loopVars, appVars, netVars>>
Entry ==
    /\ RunServerEntry
    /\ UNCHANGED <<clients, loopVars, appVars, netVars>>

PollFails ==
    /\ PollError
    /\ UNCHANGED <<clients, loopVars, appVars, netVars>>

Reported == [listen |-> inbox # <<>>, pipe |-> ~pipeOpen]

Poll ==
    /\ Reported # NoEvents
    /\ Goto("poll", "listen")
    /\ revents' = Reported
    /\ UNCHANGED <<clients, from, got, clientId, to, appVars, netVars>>

\* recvfrom() into msg_: a longer datagram is cut.
Receive ==
    /\ Goto("listen", "add")
    /\ revents.listen
    /\ from' = Head(inbox).from
    /\ got' = Min({Head(inbox).len, BufLen})
    /\ inbox' = Tail(inbox)
    /\ UNCHANGED <<clients, revents, clientId, to, appVars>>
    /\ UNCHANGED <<bound, arrived, given, reachable, outq>>

(***************************************************************************)
(* Or recvfrom() returns -1, for want of memory, say; the datagram stays   *)
(* queued, newClient has the address clearSaddr() left, and the thread     *)
(* goes on.  msg_[-1] = 0 is outside msg_: isValid_ is the byte before it  *)
(* (ServerSockEP.h), and may be cleared under the running server.          *)
(***************************************************************************)
ReceiveFails ==
    /\ spc = "listen"
    /\ spc' = "add"
    /\ revents.listen
    /\ from' = Unnamed
    /\ got' = -1
    /\ valid' \in {valid, FALSE}
    /\ UNCHANGED <<sockOpen, running, joinable, pipeOpen, apc, starts, fault>>
    /\ UNCHANGED <<clients, revents, clientId, to, appVars, netVars>>

NoDatagram ==
    /\ Goto("listen", "pipe")
    /\ ~revents.listen
    /\ UNCHANGED <<clients, loopVars, appVars, netVars>>

\* The entries addClient finds equal to the new client (operator==, the address).
Match_None(a) == {}
Match(a) == {i \in DOMAIN clients : clients[i] = a}

\* The id of a client that is not listed: that of the last one plus one.
NextAfter_SameAsLast(ids) == IF ids = {} THEN 0 ELSE Max(ids)
NextAfter(ids) == IF ids = {} THEN 0 ELSE Max(ids) + 1
NextId == NextAfter(DOMAIN clients)

\* emplace() changes nothing when the key is there.
Emplace(i, a) ==
    clients' = [j \in DOMAIN clients \cup {i} |->
                  IF j \in DOMAIN clients THEN clients[j] ELSE a]

AddClient ==
    /\ Goto("add", "callback")
    /\ \/ /\ Match(from) # {}
          /\ clientId' = Min(Match(from))
          /\ UNCHANGED clients
       \/ /\ Match(from) = {}
          /\ clientId' = NextId
          /\ Emplace(NextId, from)
    /\ UNCHANGED <<revents, from, got, to, appVars, netVars>>

\* callback_(clientId, msg_, bytesReceived): with a length of -1 no datagram is given.
Callback_NotWhenEmpty ==
    /\ Goto("callback", "reply")
    /\ given' = IF got > 0 THEN [given EXCEPT ![from] = @ + 1] ELSE given
    /\ known' = known \cup {clientId}
    /\ UNCHANGED <<clients, loopVars, iter, bound, inbox, arrived, reachable, outq>>
Callback ==
    /\ Goto("callback", "reply")
    /\ given' = IF got >= 0 THEN [given EXCEPT ![from] = @ + 1] ELSE given
    /\ known' = known \cup {clientId}
    /\ UNCHANGED <<clients, loopVars, iter, bound, inbox, arrived, reachable, outq>>

\* The callback calls sendMessageToClient: find under the lock, then sendto().
ReplyFind(i) ==
    /\ Goto("reply", "replySend")
    /\ valid
    /\ i \in DOMAIN clients
    /\ to' = clients[i]
    /\ UNCHANGED <<clients, revents, from, got, clientId, appVars, netVars>>

\* newClient, bytesReceived and clientId end with the block that declares them.
LeaveBlock ==
    /\ from' = NoAddr
    /\ got' = 0
    /\ clientId' = NoId
    /\ to' = NoAddr
    /\ UNCHANGED revents

ReplySend ==
    /\ Goto("replySend", "pipe")
    /\ SendTo(to)
    /\ LeaveBlock
    /\ UNCHANGED <<clients, appVars>>

\* The callback returns without a call, or its call finds the server not valid or
\* no such client.
NoReply ==
    /\ Goto("reply", "pipe")
    /\ LeaveBlock
    /\ UNCHANGED <<clients, appVars, netVars>>

\* Or it calls stopServer.
CallbackStops ==
    /\ spc = "reply"
    /\ StopInCallback
    /\ UNCHANGED <<clients, loopVars, appVars, netVars>>

\* The pipe entry comes second, and ends the round.
Pipe_Ignored ==
    /\ Goto("pipe", LoopHead(running))
    /\ UNCHANGED <<clients, loopVars, appVars, netVars>>
Pipe ==
    /\ spc = "pipe"
    /\ running' = (running /\ ~revents.pipe)
    /\ spc' = LoopHead(running')
    /\ revents' = NoEvents
    /\ UNCHANGED <<valid, sockOpen, joinable, pipeOpen, apc, starts, fault>>
    /\ UNCHANGED <<clients, from, got, clientId, to, appVars, netVars>>

ServerStep ==
    \/ Entry
    \/ Poll
    \/ Receive
    \/ ReceiveFails
    \/ NoDatagram
    \/ AddClient
    \/ Callback
    \/ \E i \in known : ReplyFind(i)
    \/ ReplySend
    \/ NoReply
    \/ Pipe

-----------------------------------------------------------------------------
(* The application thread.                                                 *)

Manage ==
    /\ \/ StartServer
       \/ StopServer
       \/ DtorStop
    /\ UNCHANGED <<clients, loopVars, appVars, netVars>>

Joins ==
    /\ \/ StopJoin
       \/ DtorJoin
    /\ UNCHANGED <<clients, loopVars, appVars, netVars>>

\* clients_ goes after serverThread_; closing sock_ drops what it queued.
Destroy ==
    /\ DtorClose
    /\ clients' = IF joinable THEN clients ELSE <<>>
    /\ inbox' = <<>>
    /\ UNCHANGED <<loopVars, appVars, bound, arrived, given, reachable, outq>>

GetClientIds ==
    /\ apc = "idle"
    /\ known' = known \cup DOMAIN clients
    /\ UNCHANGED <<lifeVars, clients, loopVars, iter, netVars>>

\* sendMessageToClient: find() under the lock, the iterator is used after it.
SendFind(i) ==
    /\ apc = "idle"
    /\ valid
    /\ i \in DOMAIN clients
    /\ iter' = i
    /\ apc' = "send"
    /\ UNCHANGED <<valid, sockOpen, running, joinable, pipeOpen, spc, starts, fault>>
    /\ UNCHANGED <<clients, loopVars, known, netVars>>

SendThrough ==
    /\ apc = "send"
    /\ apc' = "idle"
    /\ SendTo(clients[iter])
    /\ iter' = NoId
    /\ UNCHANGED <<valid, sockOpen, running, joinable, pipeOpen, spc, starts, fault>>
    /\ UNCHANGED <<clients, loopVars, known>>

AppStep == Joins \/ Destroy \/ SendThrough

Ended ==
    /\ fault # "none" \/ apc = "destroyed"
    /\ UNCHANGED vars

Next ==
    \/ /\ fault = "none"
       /\ \/ ServerStep
          \/ PollFails
          \/ CallbackStops
          \/ Manage
          \/ AppStep
          \/ GetClientIds
          \/ \E i \in known : SendFind(i)
          \/ \E a \in Addrs : Network(a)
    \/ Ended

Spec == Init /\ [][Next]_vars

(***************************************************************************)
(* Fairness: both threads are scheduled and the callback returns; a peer   *)
(* reads what is queued for it; of two threads waiting in sendto() for the *)
(* same full queue neither loses the race for ever; and recvfrom() does    *)
(* not fail for ever.                                                      *)
(***************************************************************************)
Fairness ==
    /\ WF_vars(fault = "none" /\ ServerStep)
    /\ SF_vars(fault = "none" /\ ReplySend)
    /\ SF_vars(fault = "none" /\ Receive)
    /\ WF_vars(fault = "none" /\ AppStep)
    /\ \A a \in Addrs : WF_vars(fault = "none" /\ PeerRead(a) /\ Network(a))

FairSpec == Spec /\ Fairness

-----------------------------------------------------------------------------
(* Properties.                                                             *)

ServerStates == {"listen", "add", "callback", "reply", "replySend", "pipe"}

Datagrams == [from : Addrs, len : Lengths]

\* Every variable has its type; in particular clients_ maps ids to addresses.
TypeOK ==
    /\ LifeTypeOK(ServerStates, {"send"})
    /\ DOMAIN clients \subseteq Nat
    /\ \A i \in DOMAIN clients : clients[i] \in Addrs
    /\ revents \in [listen : BOOLEAN, pipe : BOOLEAN]
    /\ from \in Addrs \cup {NoAddr}
    /\ got \in -1 .. BufLen
    /\ clientId \in Nat \cup {NoId}
    /\ to \in Addrs \cup {NoAddr}
    /\ iter \in Nat \cup {NoId}
    /\ known \subseteq Nat
    /\ bound \in BOOLEAN
    /\ inbox \in Seq(Datagrams)
    /\ arrived \in [Addrs -> Nat]
    /\ given \in [Addrs -> Nat]
    /\ reachable \subseteq Addrs
    /\ outq \in [Addrs -> Nat]

(***************************************************************************)
(* An address has one id for ever: addClient never lists the same sender   *)
(* twice, however its datagrams interleave with those of others.           *)
(***************************************************************************)
OneIdPerAddress ==
    \A i, j \in DOMAIN clients : clients[i] = clients[j] => i = j

(***************************************************************************)
(* The id the callback is given names the sender of the message in msg_,   *)
(* so that a reply to it reaches that sender.                              *)
(***************************************************************************)
CallbackNamesSender ==
    spc \in {"callback", "reply"} =>
        clientId \in DOMAIN clients /\ clients[clientId] = from

(***************************************************************************)
(* An id the program was told of keeps its address, over stops and         *)
(* restarts, until the server is destroyed.                                *)
(***************************************************************************)
IdsArePermanent ==
    [][\A i \in DOMAIN clients :
          \/ i \in DOMAIN clients' /\ clients'[i] = clients[i]
          \/ apc' = "destroyed"]_vars

(***************************************************************************)
(* The unlocked use of the iterator in sendMessageToClient is safe here:   *)
(* what it points at is never erased, and insertions do not move it.       *)
(***************************************************************************)
IteratorStaysValid == apc = "send" => iter \in DOMAIN clients

Queued(a) == Cardinality({i \in 1 .. Len(inbox) : inbox[i].from = a})
InHand(a) == IF spc \in {"add", "callback"} /\ from = a /\ got >= 0 THEN 1 ELSE 0

(***************************************************************************)
(* Every datagram the socket accepted is given to the callback exactly     *)
(* once: none is dropped by a stop, a restart or a hang-up of the pipe     *)
(* reported together with it.                                              *)
(***************************************************************************)
EachGivenOnce ==
    \A a \in Addrs : apc # "destroyed" => arrived[a] = given[a] + InHand(a) + Queued(a)

(***************************************************************************)
(* The abstract server: its book is clients_, its tray what the socket     *)
(* queues and the datagram the server thread holds.                        *)
(***************************************************************************)
Pending == [a \in Addrs |-> IF apc = "destroyed" THEN 0 ELSE InHand(a) + Queued(a)]

Book == INSTANCE AddressBook
    WITH book <- clients, pending <- Pending, open <- apc # "destroyed"

\* The server implements the book: every step of its threads is one of it, or none.
ImplementsBook == Book!Spec

(***************************************************************************)
(* msg_[bytesReceived] = 0 writes inside msg_ for every length the library *)
(* lets a datagram have.                                                   *)
(***************************************************************************)
TerminatorInside == spc = "add" => got < BufLen

\* While the server runs, a datagram that has arrived is given to the callback.
DatagramsAreGiven ==
    \A a \in Addrs : \A n \in 1 .. MaxArrivals :
        running /\ arrived[a] = n ~> given[a] >= n \/ ~running \/ fault # "none"

\* From the end of a round on: the last one, or another that sees the stop.
RestOfRound == IF revents.pipe THEN 1 ELSE 8

\* How many steps the thread that is told to end may still make.
StepsLeft ==
    CASE spc = "entry"     -> 8
      [] spc = "poll"      -> 7
      [] spc = "listen"    -> 5 + RestOfRound
      [] spc = "add"       -> 4 + RestOfRound
      [] spc = "callback"  -> 3 + RestOfRound
      [] spc = "reply"     -> 2 + RestOfRound
      [] spc = "replySend" -> 1 + RestOfRound
      [] spc = "pipe"      -> RestOfRound
      [] OTHER             -> 0

(***************************************************************************)
(* A stop cannot be held up by traffic: while the application waits in     *)
(* stopServer or the destructor, every step of the thread is one of at     *)
(* most 13, however many datagrams are queued.                             *)
(***************************************************************************)
StopComesNearer == [][Stopping /\ spc' # spc => StepsLeft' < StepsLeft]_vars

\* stopServer and the destructor return, unless the callback ends the process.
StopReturns == Stopping ~> fault # "none" \/ ~Stopping

-----------------------------------------------------------------------------
(* The inductive invariant.                                                *)

\* The ids are the first naturals: the last one plus one is always new.
DenseIds == NextId \in Nat /\ clients \in [0 .. NextId - 1 -> Addrs]

(***************************************************************************)
(* The server thread never takes a datagram that is not there, and what it *)
(* holds names an address: the cleared one when recvfrom() failed.         *)
(***************************************************************************)
RoundInv ==
    /\ fault = "none" /\ spc = "listen" /\ revents.listen => inbox # <<>>
    /\ spc \in {"add", "callback", "reply"} => from \in Addrs
    /\ spc = "add" /\ got < 0 => from = Unnamed
    /\ spc = "replySend" => to \in Addrs
    /\ CallbackNamesSender

\* All of it.
IInv ==
    /\ TypeOK
    /\ LifeInv
    /\ DenseIds
    /\ RoundInv
    /\ OneIdPerAddress
    /\ IteratorStaysValid
=============================================================================
