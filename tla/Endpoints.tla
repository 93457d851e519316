------------------------------ MODULE Endpoints ------------------------------
(***************************************************************************)
(* Construction and destruction of the endpoints that SockEPFactory makes, *)
(* several in one process and in several processes of one host: the system *)
(* calls of the eight constructors and destructors one by one, with what   *)
(* these calls share, the processes' descriptor numbers, the socket files  *)
(* and the ports.  The threads are in StreamServer, DgramServer and        *)
(* ClientSockEP; here they only open files (accept, pipe) at any time.     *)
(***************************************************************************)
EXTENDS Integers, Sequences, Functions

CONSTANTS
    Ids,         \* the endpoints: each is constructed once
    Procs,       \* the processes
    Kinds,       \* the kinds of endpoint that they make
    Names,       \* socket files, and ports
    Fds,         \* bound: the descriptor numbers of a process
    NoId,        \* no endpoint: a path without a file
    NoProc,      \* the process of an endpoint that is not there yet
    NoName       \* no path or port

Servers == {"tcpServer", "udpServer", "unixStreamServer", "unixDgramServer"}
Clients == {"tcpClient", "udpClient", "unixStreamClient", "unixDgramClient"}
UnixKinds == {"unixStreamServer", "unixDgramServer", "unixStreamClient", "unixDgramClient"}
InetServers == {"tcpServer", "udpServer"}

\* A number that is not in use, and one of a file that is no endpoint's.
Free == "free"
Other == "other"

ASSUME EndpointAssumption ==
    /\ Kinds \subseteq Servers \cup Clients
    /\ Fds \subseteq Nat
    /\ Free \notin Ids /\ Other \notin Ids
    /\ NoId \notin Ids
    /\ NoProc \notin Procs
    /\ NoName \notin Names

VARIABLES
    kind,        \* the class of the endpoint
    proc,        \* the process that it is in
    name,        \* the path or port that it binds
    target,      \* the path or port of a client's server
    phase,       \* what the endpoint is in the middle of
    todo,        \* the calls that its constructor or destructor still has to make
    failed,      \* the call that failed last, which left isValid_ false
    sock,        \* sock_
    socket,      \* what became of the socket in the kernel
    reuse,       \* SO_REUSEADDR is set on the socket
    table,       \* whose socket a descriptor number of a process is
    file,        \* the endpoint whose socket the file at a path was made by
    lingering,   \* ports with a connection in TIME_WAIT
    alone,       \* no other endpoint had this one's name since it was created
    spoiled      \* processes that closed a file that was not the endpoint's own

shape == <<kind, proc, name, target>>
kernel == <<socket, reuse, table, file, lingering>>
vars == <<shape, phase, todo, failed, sock, kernel, alone, spoiled>>

Init ==
    /\ kind = [e \in Ids |-> "none"]
    /\ proc = [e \in Ids |-> NoProc]
    /\ name = [e \in Ids |-> NoName]
    /\ target = [e \in Ids |-> NoName]
    /\ phase = [e \in Ids |-> "new"]
    /\ todo = [e \in Ids |-> <<>>]
    /\ failed = [e \in Ids |-> "none"]
    /\ sock = [e \in Ids |-> -1]
    /\ socket = [e \in Ids |-> "none"]
    /\ reuse = [e \in Ids |-> FALSE]
    /\ table = [p \in Procs |-> [fd \in Fds |-> Free]]
    /\ file = [n \in Names |-> NoId]
    /\ lingering = {}
    /\ alone = [e \in Ids |-> TRUE]
    /\ spoiled = {}

-----------------------------------------------------------------------------
(* The calls that the classes make.                                        *)

\* The constructors, with the unlink() of the Unix classes and SO_REUSEADDR.
Constructor_NoUnlink(k) ==
    CASE k = "tcpServer" -> <<"socket", "option", "bind", "listen">>
      [] k = "udpServer" -> <<"socket", "option", "bind">>
      [] k = "unixStreamServer" -> <<"socket", "bind", "listen">>
      [] k = "unixDgramServer" -> <<"socket", "bind">>
      [] k \in {"tcpClient", "udpClient"} -> <<"socket", "connect">>
      [] k = "unixStreamClient" -> <<"socket", "unlink", "bind", "connect">>
      [] k = "unixDgramClient" -> <<"socket", "unlink", "bind">>
Constructor(k) ==
    CASE k = "tcpServer" -> <<"socket", "option", "bind", "listen">>
      [] k = "udpServer" -> <<"socket", "option", "bind">>
      [] k = "unixStreamServer" -> <<"socket", "unlink", "bind", "listen">>
      [] k = "unixDgramServer" -> <<"socket", "unlink", "bind">>
      [] k \in {"tcpClient", "udpClient"} -> <<"socket", "connect">>
      [] k = "unixStreamClient" -> <<"socket", "unlink", "bind", "connect">>
      [] k = "unixDgramClient" -> <<"socket", "unlink", "bind">>

\* The concrete class's destructor, the base's closeSocket, the members' ones.
Destructor(k) ==
    CASE k \in {"tcpServer", "udpServer"} -> <<"close", "close", "peers">>
      [] k \in {"unixStreamServer", "unixDgramServer"} -> <<"close", "unlink", "close", "peers">>
      [] k \in {"unixStreamClient", "unixDgramClient"} -> <<"unlink">>
      [] k \in {"tcpClient", "udpClient"} -> <<>>

\* The constructors that close a socket that they cannot use.
ClosesOnFailure_UnixToo(k, call) ==
    call = "connect" \/ (k \in Servers /\ call \in {"bind", "denied", "listen"})
ClosesOnFailure(k, call) ==
    call = "connect" \/ (k \in InetServers /\ call \in {"bind", "denied", "listen"})

\* UdpClientSockEP alone forgets the number of a socket that it has closed.
Forgets_Never(k) == FALSE
Forgets(k) == k = "udpClient"

-----------------------------------------------------------------------------
(* The kernel.                                                             *)

Lives(e) == phase[e] \notin {"new", "dead"}

Unix(e) == kind[e] \in UnixKinds

\* open(2) and its like give the lowest number that is free.
FreeFds(p) == {fd \in Fds : table[p][fd] = Free}
Lowest(p) == CHOOSE fd \in FreeFds(p) : \A g \in FreeFds(p) : fd <= g

\* A TCP server that is closed leaves its connections to TIME_WAIT.
Linger(e) ==
    IF e \in Ids /\ kind[e] = "tcpServer" /\ socket[e] = "listening"
    THEN lingering' \in {lingering, lingering \cup {name[e]}}
    ELSE UNCHANGED lingering

\* close(fd) in the process p, for the endpoint e.
Close(e, p, fd) ==
    LET owner == IF fd \in Fds THEN table[p][fd] ELSE Free
    IN  /\ table' = IF fd \in Fds THEN [table EXCEPT ![p][fd] = Free] ELSE table
        /\ socket' = IF owner \in Ids THEN [socket EXCEPT ![owner] = "closed"] ELSE socket
        /\ spoiled' = IF owner \in {e, Free} THEN spoiled ELSE spoiled \cup {p}
        /\ Linger(owner)

Listening(k, n) ==
    \E r \in Ids : kind[r] = k /\ name[r] = n /\ socket[r] = "listening"

\* With SO_REUSEADDR a port is refused for a listening TCP socket only.
Bindable(e) ==
    /\ Unix(e) => file[name[e]] = NoId
    /\ kind[e] = "tcpServer" =>
          ~Listening("tcpServer", name[e]) /\ (reuse[e] \/ name[e] \notin lingering)

Listenable(e) == kind[e] = "tcpServer" => ~Listening("tcpServer", name[e])

\* connect() of a datagram socket only stores the address.
Connectable(e) ==
    CASE kind[e] = "tcpClient" -> Listening("tcpServer", target[e])
      [] kind[e] = "unixStreamClient" ->
            \E r \in Ids : /\ file[target[e]] = r
                           /\ kind[r] = "unixStreamServer"
                           /\ socket[r] = "listening"
      [] OTHER -> TRUE

-----------------------------------------------------------------------------
(* Steps of a constructor or destructor.                                   *)

\* Endpoints of one family that bind the same name.
Rivals(k, n) ==
    {r \in Ids : Lives(r) /\ n # NoName /\ name[r] = n
                 /\ (kind[r] = k \/ {kind[r], k} \subseteq UnixKinds)}

(***************************************************************************)
(* SockEPFactory::create...: a client of TCP or UDP gives up at once when  *)
(* the address of its server is no address.  The server of a UDP client    *)
(* plays no part here.                                                     *)
(***************************************************************************)
Create(e) ==
    /\ phase[e] = "new"
    /\ \E p \in Procs \ spoiled, k \in Kinds, n \in Names \cup {NoName}, t \in Names \cup {NoName} :
          /\ n = NoName <=> k \in {"tcpClient", "udpClient"}
          /\ t = NoName <=> k \in Servers \cup {"udpClient"}
          /\ kind' = [kind EXCEPT ![e] = k]
          /\ proc' = [proc EXCEPT ![e] = p]
          /\ name' = [name EXCEPT ![e] = n]
          /\ target' = [target EXCEPT ![e] = t]
          /\ \/ /\ phase' = [phase EXCEPT ![e] = "constructing"]
                /\ todo' = [todo EXCEPT ![e] = Constructor(k)]
                /\ UNCHANGED failed
             \/ /\ k \in {"tcpClient", "udpClient"}
                /\ phase' = [phase EXCEPT ![e] = "live"]
                /\ failed' = [failed EXCEPT ![e] = "address"]
                /\ UNCHANGED todo
          /\ alone' = [r \in Ids |-> IF r = e THEN Rivals(k, n) = {}
                                     ELSE alone[r] /\ r \notin Rivals(k, n)]
    /\ UNCHANGED <<sock, kernel, spoiled>>

Calls(e, call) == proc[e] \notin spoiled /\ todo[e] # <<>> /\ Head(todo[e]) = call

\* The call is done; after the last one the object is complete, or gone.
Done(e) ==
    /\ todo' = [todo EXCEPT ![e] = Tail(todo[e])]
    /\ phase' = [phase EXCEPT ![e] =
                    IF Len(todo[e]) > 1 THEN phase[e]
                    ELSE IF phase[e] = "destructing" THEN "dead" ELSE "live"]
    /\ UNCHANGED <<shape, alone>>

\* The call fails, and the constructor or handleError returns.
Fail(e, call) ==
    /\ todo' = [todo EXCEPT ![e] = <<>>]
    /\ phase' = [phase EXCEPT ![e] = "live"]
    /\ failed' = [failed EXCEPT ![e] = call]
    /\ IF ClosesOnFailure(kind[e], call)
       THEN Close(e, proc[e], sock[e])
       ELSE UNCHANGED <<table, socket, spoiled, lingering>>
    /\ sock' = IF ClosesOnFailure(kind[e], call) /\ Forgets(kind[e])
               THEN [sock EXCEPT ![e] = -1] ELSE sock
    /\ UNCHANGED <<shape, alone, reuse, file>>

\* socket() fails when the process has no number left, and for other reasons.
Socket(e) ==
    /\ Calls(e, "socket")
    /\ \/ /\ FreeFds(proc[e]) # {}
          /\ Done(e)
          /\ sock' = [sock EXCEPT ![e] = Lowest(proc[e])]
          /\ table' = [table EXCEPT ![proc[e]][Lowest(proc[e])] = e]
          /\ socket' = [socket EXCEPT ![e] = "open"]
          /\ UNCHANGED <<failed, reuse, file, lingering, spoiled>>
       \/ Fail(e, "socket")

SetOption(e) ==
    /\ Calls(e, "option")
    /\ \/ /\ Done(e)
          /\ reuse' = [reuse EXCEPT ![e] = TRUE]
          /\ UNCHANGED <<failed, sock, socket, table, file, lingering, spoiled>>
       \/ Fail(e, "option")

\* unlink() takes the file away, whoever made it, and never reports an error.
Unlink(e) ==
    /\ Calls(e, "unlink")
    /\ Done(e)
    /\ file' = [file EXCEPT ![name[e]] = NoId]
    /\ UNCHANGED <<failed, sock, socket, reuse, table, lingering, spoiled>>

\* "bind" and "listen" are EADDRINUSE, "denied" every other reason (EACCES, ENOENT).
Bind(e) ==
    /\ Calls(e, "bind")
    /\ \/ /\ Bindable(e)
          /\ Done(e)
          /\ file' = IF Unix(e) THEN [file EXCEPT ![name[e]] = e] ELSE file
          /\ UNCHANGED <<failed, sock, socket, reuse, table, lingering, spoiled>>
       \/ ~Bindable(e) /\ Fail(e, "bind")
       \/ Fail(e, "denied")

Listen(e) ==
    /\ Calls(e, "listen")
    /\ \/ /\ Listenable(e)
          /\ Done(e)
          /\ socket' = [socket EXCEPT ![e] = "listening"]
          /\ UNCHANGED <<failed, sock, reuse, table, file, lingering, spoiled>>
       \/ ~Listenable(e) /\ Fail(e, "listen")
       \/ Fail(e, "denied")

\* connect() may fail though somebody listens (a full backlog, a signal, no route).
Connect(e) ==
    /\ Calls(e, "connect")
    /\ \/ /\ Connectable(e)
          /\ Done(e)
          /\ UNCHANGED <<failed, sock, kernel, spoiled>>
       \/ Fail(e, "connect")

(***************************************************************************)
(* closeSocket of a server, once its thread is stopped, or                 *)
(* disconnectSocket of a UDP client.                                       *)
(***************************************************************************)
CloseSocket_IfValid(e) ==
    /\ Calls(e, "close")
    /\ Done(e)
    /\ IF failed[e] = "none" THEN Close(e, proc[e], sock[e])
       ELSE UNCHANGED <<table, socket, spoiled, lingering>>
    /\ sock' = IF Forgets(kind[e]) THEN [sock EXCEPT ![e] = -1] ELSE sock
    /\ UNCHANGED <<failed, reuse, file>>
CloseSocket(e) ==
    /\ Calls(e, "close")
    /\ Done(e)
    /\ Close(e, proc[e], sock[e])
    /\ sock' = IF Forgets(kind[e]) THEN [sock EXCEPT ![e] = -1] ELSE sock
    /\ UNCHANGED <<failed, reuse, file>>

\* Whether the destructor of a Unix client unlinks its path.
OwnsSocketFile_Always(serverSide) == TRUE
OwnsSocketFile(serverSide) == ~serverSide

\* The clients that a Unix server may have in clients_, with their paths.
Peers(e) ==
    {c \in Ids : kind[c] \in Clients \cap UnixKinds /\ target[c] = name[e] /\ Unix(e)}

\* The server-side clients are destroyed with the server that holds them.
DropPeers(e) ==
    /\ Calls(e, "peers")
    /\ Done(e)
    /\ file' = [n \in Names |-> IF OwnsSocketFile(TRUE) /\ n \in {name[c] : c \in Peers(e)}
                                THEN NoId ELSE file[n]]
    /\ UNCHANGED <<failed, sock, socket, reuse, table, lingering, spoiled>>

Destroy(e) ==
    /\ phase[e] = "live"
    /\ proc[e] \notin spoiled
    /\ todo' = [todo EXCEPT ![e] = Destructor(kind[e])]
    /\ phase' = [phase EXCEPT ![e] = IF Destructor(kind[e]) = <<>> THEN "dead" ELSE "destructing"]
    /\ UNCHANGED <<shape, failed, sock, kernel, alone, spoiled>>

\* The receive thread of a valid UDP client met an error.
HandleError(e) ==
    /\ phase[e] = "live"
    /\ proc[e] \notin spoiled
    /\ kind[e] = "udpClient"
    /\ failed[e] = "none"
    /\ todo' = [todo EXCEPT ![e] = <<"close", "socket", "connect">>]
    /\ phase' = [phase EXCEPT ![e] = "reconnecting"]
    /\ UNCHANGED <<shape, failed, sock, kernel, alone, spoiled>>

-----------------------------------------------------------------------------
(* The processes.                                                          *)

In(p) == {e \in Ids : proc[e] = p}

\* Another part of the process opens a file: accept() and pipe() of a thread too.
\* Bound: only while the process has an endpoint.
OtherOpens(p) ==
    /\ p \notin spoiled
    /\ \E e \in In(p) : Lives(e)
    /\ FreeFds(p) # {}
    /\ table' = [table EXCEPT ![p][Lowest(p)] = Other]
    /\ UNCHANGED <<shape, phase, todo, failed, sock, socket, reuse, file, lingering, alone, spoiled>>

OtherCloses(p) ==
    /\ p \notin spoiled
    /\ \E fd \in Fds : table[p][fd] = Other /\ table' = [table EXCEPT ![p][fd] = Free]
    /\ UNCHANGED <<shape, phase, todo, failed, sock, socket, reuse, file, lingering, alone, spoiled>>

(***************************************************************************)
(* A process ends without destructors, by a signal or std::terminate, and  *)
(* starts again: its sockets are closed, the socket files stay.            *)
(***************************************************************************)
Crash(p) ==
    /\ \E e \in In(p) : Lives(e)
    /\ phase' = [e \in Ids |-> IF e \in In(p) THEN "dead" ELSE phase[e]]
    /\ todo' = [e \in Ids |-> IF e \in In(p) THEN <<>> ELSE todo[e]]
    /\ socket' = [e \in Ids |-> IF e \in In(p) /\ socket[e] # "none" THEN "closed" ELSE socket[e]]
    /\ table' = [table EXCEPT ![p] = [fd \in Fds |-> Free]]
    /\ lingering' \in {lingering,
                       lingering \cup {name[e] : e \in {r \in In(p) : kind[r] = "tcpServer"
                                                           /\ socket[r] = "listening"}}}
    /\ spoiled' = spoiled \ {p}
    /\ UNCHANGED <<shape, failed, sock, reuse, file, alone>>

\* TIME_WAIT ends.
LingerEnds ==
    /\ \E n \in lingering : lingering' = lingering \ {n}
    /\ UNCHANGED <<shape, phase, todo, failed, sock, socket, reuse, table, file, alone, spoiled>>

Step(e) ==
    \/ Create(e)
    \/ Socket(e)
    \/ SetOption(e)
    \/ Unlink(e)
    \/ Bind(e)
    \/ Listen(e)
    \/ Connect(e)
    \/ CloseSocket(e)
    \/ DropPeers(e)
    \/ Destroy(e)
    \/ HandleError(e)

Next ==
    \/ \E e \in Ids : Step(e)
    \/ \E p \in Procs : OtherOpens(p) \/ OtherCloses(p) \/ Crash(p)
    \/ LingerEnds

Spec == Init /\ [][Next]_vars

-----------------------------------------------------------------------------
(* Properties.                                                             *)

Call == {"socket", "option", "unlink", "bind", "listen", "connect", "close", "peers"}

\* The variables keep their types, and calls remain to be made exactly while a
\* constructor, handleError or a destructor runs: after a failure none is made.
TypeOK ==
    /\ kind \in [Ids -> Kinds \cup {"none"}]
    /\ proc \in [Ids -> Procs \cup {NoProc}]
    /\ name \in [Ids -> Names \cup {NoName}]
    /\ target \in [Ids -> Names \cup {NoName}]
    /\ phase \in [Ids -> {"new", "constructing", "live", "reconnecting", "destructing", "dead"}]
    /\ todo \in [Ids -> Seq(Call)]
    /\ \A e \in Ids :
          todo[e] # <<>> <=> phase[e] \in {"constructing", "reconnecting", "destructing"}
    /\ failed \in [Ids -> {"none", "address", "socket", "option", "bind", "denied",
                        "listen", "connect"}]
    /\ sock \in [Ids -> Fds \cup {-1}]
    /\ socket \in [Ids -> {"none", "open", "listening", "closed"}]
    /\ reuse \in [Ids -> BOOLEAN]
    /\ table \in [Procs -> [Fds -> Ids \cup {Free, Other}]]
    /\ file \in [Names -> Ids \cup {NoId}]
    /\ lingering \subseteq Names
    /\ alone \in [Ids -> BOOLEAN]
    /\ spoiled \subseteq Procs

\* What an earlier server left behind, a socket file or connections in TIME_WAIT,
\* does not keep an endpoint from its name: bind() and listen() find it in use only
\* when another endpoint had it at the same time.
BindFailsOnlyToARival ==
    \A e \in Ids : failed[e] \in {"bind", "listen"} => ~alone[e]

\* A valid Unix endpoint is what its path leads to, until another endpoint takes the
\* same path; the destruction of a server does not take its clients' paths away.
ReachableWhenAlone ==
    \A e \in Ids :
        /\ phase[e] = "live" /\ failed[e] = "none" /\ proc[e] \notin spoiled
        /\ Unix(e) /\ alone[e]
        => file[name[e]] = e /\ socket[e] # "closed"

\* sock_ is a number of the endpoint's own from socket() to the destructor, except
\* in an object whose constructor closed the socket and kept the number.
HoldsItsOwn ==
    \A e \in Ids :
        /\ phase[e] \in {"constructing", "reconnecting", "live"} /\ proc[e] \notin spoiled
        /\ sock[e] # -1
        => \/ table[proc[e]][sock[e]] = e
           \/ /\ kind[e] \in InetServers \cup {"tcpClient", "unixStreamClient"}
              /\ failed[e] \in {"bind", "denied", "listen", "connect"}

\* Only clients leave their socket open: a server that is gone has closed it,
\* wherever its constructor stopped.
ServersCloseTheirSocket ==
    \A p \in Procs, fd \in Fds, e \in Ids :
        table[p][fd] = e /\ phase[e] = "dead" => kind[e] \in Clients

\* A server closes another file than its own socket only where it closes one number
\* twice: in closeSocket of the base destructor, or in any after the constructor of a
\* TCP or UDP server closed the socket.
SpoiledOnlyTwice ==
    [][\A p \in Procs : p \in spoiled' \ spoiled =>
          \E e \in Ids :
             /\ proc[e] = p
             /\ Calls(e, "close")
             /\ \/ Tail(todo[e]) = <<"peers">>
                \/ kind[e] \in InetServers /\ failed[e] \in {"bind", "denied", "listen"}]_vars

-----------------------------------------------------------------------------
(* The inductive invariant.                                                *)

\* The calls that an endpoint has still to make, and the order that they come in.
Ahead(e) == Range(todo[e])

Rank == [close |-> 0, socket |-> 1, option |-> 2, unlink |-> 2, bind |-> 3,
         listen |-> 4, connect |-> 4, peers |-> 5]

InOrder(s) == \A i, j \in DOMAIN s : i < j => Rank[s[i]] < Rank[s[j]]

\* s is the end of t.
EndOf(s, t) ==
    /\ Len(s) <= Len(t)
    /\ \A i \in 1 .. Len(s) : s[i] = t[i + Len(t) - Len(s)]

Making(e) == phase[e] \in {"constructing", "reconnecting"}

\* Where an endpoint is, and what it has still to do there.
PhaseInv(e) ==
    /\ phase[e] = "new" =>
          kind[e] = "none" /\ proc[e] = NoProc /\ sock[e] = -1 /\ failed[e] = "none"
    /\ phase[e] # "new" =>
          /\ kind[e] \in Kinds
          /\ proc[e] \in Procs
          /\ name[e] = NoName <=> kind[e] \in {"tcpClient", "udpClient"}
    /\ phase[e] = "constructing" =>
          /\ Ahead(e) \subseteq Range(Constructor(kind[e]))
          /\ "unlink" \in Ahead(e) => "bind" \in Ahead(e)
    /\ phase[e] = "reconnecting" =>
          /\ kind[e] = "udpClient"
          /\ Ahead(e) \subseteq {"close", "socket", "connect"}
          /\ "close" \in Ahead(e) => "socket" \in Ahead(e)
    /\ Making(e) => InOrder(todo[e]) /\ failed[e] = "none"
    /\ phase[e] = "destructing" => EndOf(todo[e], Destructor(kind[e]))
    /\ failed[e] = "connect" => kind[e] \in Clients

\* sock_ is -1 until socket(), and not afterwards.
SockInv(e) ==
    /\ Making(e) /\ "close" \notin Ahead(e) => (sock[e] = -1 <=> "socket" \in Ahead(e))
    /\ phase[e] = "live" /\ failed[e] = "none" => sock[e] # -1
    /\ Making(e) => socket[e] # "listening"
    /\ socket[e] = "listening" => kind[e] \in Servers
    /\ kind[e] = "tcpServer" /\ Making(e) => reuse[e] \/ "option" \in Ahead(e)

\* The destructor has not begun to close, or there is none.
Whole(e) ==
    \/ phase[e] \in {"constructing", "reconnecting", "live"}
    \/ phase[e] = "destructing" /\ todo[e] = Destructor(kind[e])

\* An open socket has one number, which its endpoint knows; a server's is open
\* no longer than until the first call of the destructor.
TableInv ==
    /\ \A p \in Procs, fd \in Fds, e \in Ids : table[p][fd] = e =>
          /\ proc[e] = p
          /\ sock[e] = fd
          /\ kind[e] \in Servers => Whole(e)
          /\ socket[e] \in {"open", "listening"}
    /\ \A e \in Ids : socket[e] \in {"open", "listening"} =>
          sock[e] \in Fds /\ table[proc[e]][sock[e]] = e

\* HoldsItsOwn, up to the first call of the destructor.
OwnInv(e) ==
    Whole(e) /\ proc[e] \notin spoiled /\ sock[e] # -1 =>
        \/ table[proc[e]][sock[e]] = e
        \/ /\ kind[e] \in InetServers \cup {"tcpClient", "unixStreamClient"}
           /\ failed[e] \in {"bind", "denied", "listen", "connect"}

AloneInv ==
    \A e, r \in Ids : alone[e] /\ Lives(e) /\ r \in Rivals(kind[e], name[e]) => r = e

\* The file of a Unix endpoint that is alone at its path.
FileInv(e) ==
    Unix(e) /\ alone[e] =>
        /\ phase[e] = "constructing" =>
              /\ "bind" \in Ahead(e) /\ "unlink" \notin Ahead(e) => file[name[e]] = NoId
              /\ "bind" \notin Ahead(e) => file[name[e]] = e
        /\ phase[e] = "live" /\ failed[e] = "none" => file[name[e]] = e

IInv ==
    /\ TypeOK
    /\ TableInv
    /\ AloneInv
    /\ \A e \in Ids : PhaseInv(e) /\ SockInv(e) /\ OwnInv(e) /\ FileInv(e)
    /\ BindFailsOnlyToARival
=============================================================================
