----------------------------- MODULE TcpExamples -----------------------------
(***************************************************************************)
(* examples/tcp_server.cpp and examples/tcp_client.cpp run together: a     *)
(* StreamServer whose one peer is a ClientSockEP, each in a process of its *)
(* own, with the main() of the example on top.  What the component modules *)
(* leave open is closed here: the peer of the server reads when the client *)
(* does, its send() may wait while lines are unread at the server, the     *)
(* connection ends when a process ends, and the callback of the server     *)
(* answers every message but "quit".                                       *)
(*                                                                         *)
(* A "byte" of StreamServer is a line that the user of the client typed, a *)
(* unit of ClientSockEP one answer.  The variables of the client have a c  *)
(* in front; cstale, cerr and clost never change, they are for UDP.        *)
(***************************************************************************)
EXTENDS StreamServer

CONSTANTS
    Client,      \* the only peer
    MaxThreads,  \* bound: receive threads that the client starts
    InCap        \* lines that fit into the server's receive buffer, however long

ASSUME ExampleAssumption == Peers = {Client} /\ Transport = "tcp"
ASSUME InCapAssumption == InCap \in Nat \ {0}

VARIABLES
    \* main() of tcp_server.cpp
    smain,       \* where it is
    go,          \* the global variable running
    \* main() of tcp_client.cpp
    cmain,       \* where it is
    inp,         \* the line that it sends and obeys; "none" between two
    quitAt,      \* the position of "quit" among the lines; 0 before it is typed
    \* the client
    cvalid, crunning, cjoinable, cpipeOpen, ctpc, capc, cstarts, cfault,
    crevents, cgot, cstale, clink, cerr, csent, ctaken, clost, cgiven, creturned, cmsg

mainVars == <<smain, go, cmain, inp, quitAt>>
clientVars == <<cvalid, crunning, cjoinable, cpipeOpen, ctpc, capc, cstarts, cfault,
                crevents, cgot, cstale, clink, cerr, csent, ctaken, clost, cgiven,
                creturned, cmsg>>
exampleVars == <<vars, mainVars, clientVars>>

C == INSTANCE ClientSockEP
    WITH Transport <- "tcp", BufLen <- 1, MaxStarts <- MaxThreads, MaxSent <- MaxBytes,
         valid <- cvalid, running <- crunning, joinable <- cjoinable, pipeOpen <- cpipeOpen,
         tpc <- ctpc, apc <- capc, starts <- cstarts, fault <- cfault,
         revents <- crevents, got <- cgot, stale <- cstale,
         link <- clink, err <- cerr, sent <- csent, taken <- ctaken, lost <- clost,
         given <- cgiven, returned <- creturned, msg <- cmsg

\* Both objects are constructed, and the kernel has connected them.
ExampleInit ==
    /\ LifeInit /\ valid
    /\ clients = {} /\ mutex = FALSE
    /\ pfds = {} /\ newPfds = {} /\ removePfds = {} /\ revents = NoEvents
    /\ todo = {} /\ cur = NoFd /\ got = 0
    /\ iter = NoFd /\ known = {}
    /\ conn = [f \in Fds |-> NoPeer]
    /\ peer = [p \in Peers |-> "open"]
    /\ backlog = Peers
    /\ sent = [p \in Peers |-> 0]
    /\ taken = [p \in Peers |-> 0]
    /\ given = [p \in Peers |-> 0]
    /\ outq = [p \in Peers |-> 0]
    /\ C!Init
    /\ clink = "open"
    /\ smain = "start"
    /\ go = TRUE
    /\ cmain = "prompt"
    /\ inp = "none"
    /\ quitAt = 0

\* A step of StreamServer that is one of the network, or one of its owner.
Net(A) == A /\ UNCHANGED <<lifeVars, objVars, loopVars, appVars>>
Own(A) == A /\ UNCHANGED <<objVars, loopVars, appVars, netVars>>

ServerUp == fault = "none" /\ smain # "gone"
ClientUp == cfault = "none" /\ cmain # "gone"

-----------------------------------------------------------------------------
(* The server process.                                                     *)

\* The library's part of the server thread.
ServerLoop ==
    /\ \/ Entry \/ Poll \/ Accept \/ NoAccept \/ Lock \/ Insert \/ Pipe
       \/ \E f \in Fds : Scan(f)
       \/ Hup \/ Read \/ Merge
    /\ UNCHANGED <<mainVars, clientVars>>

\* One recv() that brought "quit" and nothing else.
ReadsQuit == spc = "callback" /\ got = 1 /\ given[Client] + 1 = quitAt

\* messageHandler: the comparison with "quit" ...
Handle ==
    /\ Callback
    /\ go' = (go /\ ~ReadsQuit)
    /\ UNCHANGED <<smain, cmain, inp, quitAt, clientVars>>

\* ... and the answer to every other message, which reaches the client unless it is
\* gone.  The handler is never called again after "quit", the last line of its client.
Answer_ToQuit ==
    /\ \/ NoReply /\ UNCHANGED clientVars
       \/ ReplyFind(cur) /\ UNCHANGED clientVars
       \/ /\ ReplySend
          /\ IF peer[Client] = "open" /\ ClientUp
             THEN C!Server /\ csent' = csent + 1
             ELSE UNCHANGED clientVars
    /\ UNCHANGED mainVars
Answer ==
    /\ \/ ~go /\ NoReply /\ UNCHANGED clientVars
       \/ go /\ ReplyFind(cur) /\ UNCHANGED clientVars
       \/ /\ ReplySend
          /\ IF peer[Client] = "open" /\ ClientUp
             THEN C!Server /\ csent' = csent + 1
             ELSE UNCHANGED clientVars
    /\ UNCHANGED mainVars

ServerThread == ServerLoop \/ Handle \/ Answer

\* main(): startServer, the loop around usleep, stopServer, and the end of the
\* process, which destroys the global srvr.
ServerMain ==
    /\ \/ /\ smain = "start"
          /\ Own(StartServer)
          /\ smain' = "wait"
       \/ /\ smain = "wait"
          /\ ~go
          /\ IF running THEN Own(StopServer) ELSE UNCHANGED vars
          /\ smain' = "exit"
       \/ /\ smain = "exit"
          /\ Own(DtorStop) \/ Joins \/ Destroy
          /\ UNCHANGED smain
    /\ UNCHANGED <<go, cmain, inp, quitAt, clientVars>>

\* The process ends: what is unread, or not even accepted, makes it a reset.
ServerExit ==
    /\ smain # "gone"
    /\ fault # "none" \/ apc = "destroyed"
    /\ smain' = "gone"
    /\ clink' = IF ~ClientUp THEN clink
                ELSE IF Unread(Client) > 0 \/ backlog # {} THEN "reset" ELSE "closed"
    /\ UNCHANGED <<vars, go, cmain, inp, quitAt, cvalid, crunning, cjoinable, cpipeOpen, ctpc, capc,
                   cstarts, cfault, crevents, cgot, cstale, cerr, csent, ctaken, clost,
                   cgiven, creturned, cmsg>>

-----------------------------------------------------------------------------
(* The client process.                                                     *)

\* What the client reads leaves the queue that the server sees.
Drained ==
    IF ctaken' > ctaken /\ ServerUp THEN Net(PeerRead(Client)) ELSE UNCHANGED vars

ClientThread ==
    /\ C!ThreadStep
    /\ Drained
    /\ UNCHANGED mainVars

Lines == {"text", "quit", "read", "thread", "stopThread"}

\* std::getline.  Bound: MaxBytes lines for the server, the last of them "quit".
Type(line) ==
    /\ cmain = "prompt"
    /\ capc = "idle"
    /\ smain # "gone" /\ line # "quit" => sent[Client] + 1 < MaxBytes
    /\ cmain' = "send"
    /\ inp' = line
    /\ UNCHANGED <<vars, smain, go, quitAt, clientVars>>

(***************************************************************************)
(* sendMessage(inp), whatever the line says.  send() waits while the       *)
(* server's receive buffer is full, which it may be from InCap lines on:   *)
(* whether one more fits depends on the lengths, so that the step may be   *)
(* taken then, but nothing makes it happen (Fits in ExampleSpec).  Once    *)
(* the server is gone send() returns.                                      *)
(***************************************************************************)
Say ==
    /\ cmain = "send"
    /\ cmain' = "obey"
    /\ \/ /\ ServerUp
          /\ Net(PeerSend(Client))
          /\ quitAt' = IF inp = "quit" THEN sent'[Client] ELSE quitAt
          /\ UNCHANGED clientVars
       \/ /\ smain = "gone"
          /\ IF clink = "closed" THEN C!SendMessage ELSE UNCHANGED clientVars
          /\ UNCHANGED <<vars, quitAt>>
    /\ UNCHANGED <<smain, go, inp>>

\* The send() of main() is sure to return.
Fits == smain = "gone" \/ Unread(Client) < InCap

\* startRecvThread and stopRecvThread may have nothing to do, or pipe() may fail.
Obey ==
    /\ cmain = "obey"
    /\ \/ inp = "text" /\ UNCHANGED clientVars
       \/ inp = "thread" /\ (C!Start \/ UNCHANGED clientVars)
       \/ inp = "stopThread" /\ IF crunning THEN C!Stop("idle", "stopJoin")
                                ELSE UNCHANGED clientVars
       \/ inp = "read" /\ C!GetMessage(TRUE)
       \/ inp = "quit" /\ C!DtorStep("idle", "dtor")
    /\ cmain' = IF inp = "quit" THEN "exit" ELSE "prompt"
    /\ inp' = "none"
    /\ UNCHANGED <<vars, smain, go, quitAt>>

ClientMain ==
    /\ C!OwnerStep
    /\ Drained
    /\ UNCHANGED mainVars

\* The end of the process closes the socket, which no class does ...
ClientGone ==
    /\ cmain' = "gone"
    /\ IF ServerUp THEN Net(PeerClose(Client)) ELSE UNCHANGED vars
    /\ UNCHANGED <<smain, go, inp, quitAt, clientVars>>

ClientExit ==
    /\ cmain # "gone"
    /\ cfault # "none" \/ capc = "destroyed"
    /\ ClientGone

\* ... and a signal may end it anywhere: the way out of the read, or of the send to a
\* server that itself waits in send(), that nothing else would end.
ClientKilled ==
    /\ ClientUp
    /\ capc # "destroyed"
    /\ ClientGone

\* poll() or the recv() of getMessage() is interrupted.
Interrupted ==
    \/ ServerUp /\ PollFails /\ UNCHANGED <<mainVars, clientVars>>
    \/ /\ ClientUp
       /\ C!PollError \/ C!GetMessageFails(TRUE)
       /\ UNCHANGED <<vars, mainVars>>

Over ==
    /\ cmain = "gone"
    /\ UNCHANGED exampleVars

ExampleNext ==
    \/ ServerUp /\ (ServerThread \/ ServerMain)
    \/ ServerExit
    \/ ClientUp /\ (ClientThread \/ ClientMain \/ Say \/ Obey \/ \E line \in Lines : Type(line))
    \/ ClientExit
    \/ ClientKilled
    \/ Interrupted
    \/ Over

(***************************************************************************)
(* Fairness: all four threads are scheduled, the client's send() returns   *)
(* when there is room, accept() does not fail for ever, and a process that *)
(* has ended is cleared away.  Nothing makes the user of the client type,  *)
(* or end it.                                                              *)
(***************************************************************************)
ExampleSpec ==
    /\ ExampleInit /\ [][ExampleNext]_exampleVars
    /\ WF_exampleVars(ServerUp /\ ServerThread)
    /\ SF_exampleVars(ServerUp /\ Accept /\ UNCHANGED <<mainVars, clientVars>>)
    /\ WF_exampleVars(ServerUp /\ ServerMain)
    /\ WF_exampleVars(ServerExit)
    /\ WF_exampleVars(ClientUp /\ ClientThread)
    /\ WF_exampleVars(ClientUp /\ (ClientMain \/ (Fits /\ Say) \/ Obey))
    /\ WF_exampleVars(ClientExit)

-----------------------------------------------------------------------------
(* Properties.                                                             *)

\* The server that was told to quit stops its thread and its process ends, at
\* whatever point of its loop and of the client's calls the line was read.
QuitObeyed == ~go ~> smain = "gone"

(***************************************************************************)
(* There is an answer for a line only when the line has been given to the  *)
(* handler, at most one for each, and none for "quit" or what follows it,  *)
(* which alone ends the server.                                            *)
(***************************************************************************)
AnswersFollowLines ==
    /\ csent <= given[Client]
    /\ ~go => quitAt \in 1 .. given[Client] /\ csent < quitAt

Talking == running /\ crunning /\ ServerUp /\ ClientUp

(***************************************************************************)
(* While both threads run the conversation goes on: the server's callback  *)
(* catches up with the lines, and the client's with the answers, although  *)
(* each may have to wait for the other side to read.  (The lines of a run  *)
(* are finitely many.)                                                     *)
(***************************************************************************)
ConversationGoesOn ==
    /\ given[Client] < sent[Client] /\ Talking ~> given[Client] = sent[Client] \/ ~Talking
    /\ cgiven + creturned < csent /\ Talking ~> cgiven + creturned = csent \/ ~Talking

(***************************************************************************)
(* The client's main() and the server's callback may both wait in send()   *)
(* for the other program to read: while the receive thread runs, the line  *)
(* that main() sends leaves, because neither thread holds what the other's *)
(* reader needs.                                                           *)
(***************************************************************************)
SendReturns == cmain = "send" /\ Talking ~> cmain # "send" \/ ~Talking

-----------------------------------------------------------------------------
(* What the invariants above rest on, with IInv of StreamServer.           *)

\* The handler knows the client that it answers.
HandlerInv == spc = "reply" => cur \in KnownIds

(***************************************************************************)
(* "quit" is typed once, as the last line; every answer belongs to a line  *)
(* that was given to the handler before "quit".                            *)
(***************************************************************************)
QuitInv ==
    /\ csent \in Nat
    /\ quitAt \in Nat
    /\ quitAt # 0 => cmain \in {"obey", "exit", "gone"} /\ (cmain = "obey" => inp = "quit")
    /\ go => csent + (IF spc \in {"reply", "replySend"} THEN 1 ELSE 0) <= given[Client]
    /\ ~go => quitAt \in 1 .. given[Client] /\ csent < quitAt /\ spc # "replySend"
=============================================================================
