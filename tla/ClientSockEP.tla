---------------------------- MODULE ClientSockEP ----------------------------
(***************************************************************************)
(* ClientSockEP and the four clients: the receive thread (runThread),      *)
(* which polls the socket and a pipe and calls back, against the thread    *)
(* that owns the client and calls startRecvThread, stopRecvThread,         *)
(* getMessage, sendMessage and the destructor.                             *)
(*                                                                         *)
(* What the server sends is counted in units: bytes of a stream, or        *)
(* datagrams.  getMessage has two overloads; "Str" marks the one that      *)
(* returns a std::string.  An exception it throws changes nothing here.    *)
(***************************************************************************)
EXTENDS Integers

CONSTANTS
    Transport,   \* "tcp", "unixStream", "udp" or "unixDgram"
    BufLen,      \* units a recv() on a stream returns at most
    MaxStarts,   \* bound: calls of startRecvThread that create a thread
    MaxSent      \* bound: units the server sends

Stream == Transport \in {"tcp", "unixStream"}

ASSUME ClientAssumption ==
    /\ Transport \in {"tcp", "unixStream", "udp", "unixDgram"}
    /\ BufLen \in Nat \ {0}
    /\ MaxStarts \in Nat
    /\ MaxSent \in Nat

VARIABLES
    valid,       \* isValid_
    running,     \* threadRunning_
    joinable,    \* recvThread_.joinable()
    pipeOpen,    \* whether the write end pipeFd_[1] is open
    tpc,         \* what the receive thread does next
    apc,         \* what the owner does next
    starts,      \* threads created so far
    fault,       \* how the process was ended
    revents,     \* what the last poll() reported
    got,         \* msgLen: the result of the thread's recv()
    stale,       \* the descriptor runThread polls is no longer sock_
    link,        \* the server's end, as the client's kernel knows it
    err,         \* a pending error of the UDP socket (ICMP unreachable)
    sent,        \* units sent by the server that reached the socket
    taken,       \* of them, read by recv()
    lost,        \* of them, queued at a UDP socket that was closed
    given,       \* of them, given to the callback
    returned,    \* of them, returned by getMessage
    msg          \* msg_: the thread whose message it holds

lifeVars == <<valid, running, joinable, pipeOpen, tpc, apc, starts, fault>>
loopVars == <<revents, got, stale>>
netVars == <<link, err, sent, taken, lost, given, returned, msg>>
vars == <<lifeVars, loopVars, netVars>>

NoEvents == [pipe |-> FALSE, hup |-> FALSE, in |-> FALSE, err |-> FALSE]

\* A constructor that failed leaves isValid_ false, and no connection.
Init ==
    /\ \/ valid = TRUE /\ link = "open"
       \/ valid = FALSE /\ link = "none"
    /\ running = FALSE
    /\ joinable = FALSE
    /\ pipeOpen = FALSE
    /\ tpc = "none"
    /\ apc = "idle"
    /\ starts = 0
    /\ fault = "none"
    /\ revents = NoEvents
    /\ got = 0
    /\ stale = FALSE
    /\ err = FALSE
    /\ sent = 0
    /\ taken = 0
    /\ lost = 0
    /\ given = 0
    /\ returned = 0
    /\ msg = "none"

-----------------------------------------------------------------------------
(* The kernel and the server.                                              *)

Unread == sent - taken - lost

AtEnd == Stream /\ link \in {"finished", "closed", "reset"}

\* POLLHUP: both directions down; a server's close() is that on a Unix socket only.
HungUp == link = "reset" \/ (Transport = "unixStream" /\ link = "closed")

(***************************************************************************)
(* What recv() may return when it does not block: an error that is         *)
(* pending; else what is queued, at most one buffer or one datagram; else  *)
(* the end of a stream, or once the error of one that was reset.           *)
(***************************************************************************)
RecvResults ==
    CASE err -> {-1}
      [] ~err /\ Unread > 0 -> {IF ~Stream THEN 1 ELSE IF Unread < BufLen THEN Unread ELSE BufLen}
      [] ~err /\ Unread = 0 /\ link = "reset" -> {-1, 0}
      [] ~err /\ Unread = 0 /\ link # "reset" -> IF AtEnd THEN {0} ELSE {}

\* What a result counts for; -1 and 0 count for nothing.
Units(n) == IF n > 0 THEN n ELSE 0

\* recv() into msg_ by the thread who, or into a buffer of the owner ("").
Recv(n, who) ==
    /\ n \in RecvResults
    /\ taken' = taken + Units(n)
    /\ err' = FALSE
    /\ msg' = IF n > 0 /\ who # "" THEN who ELSE msg
    /\ UNCHANGED <<link, sent, lost>>

ServerSend ==
    /\ link = "open"
    /\ sent < MaxSent
    /\ sent' = sent + 1
    /\ UNCHANGED <<link, err>>

\* shutdown(SHUT_WR), close(), and a close() or a failure that resets.
ServerFinish ==
    /\ Stream
    /\ link = "open"
    /\ link' = "finished"
    /\ UNCHANGED <<err, sent>>

ServerClose ==
    /\ link \in {"open", "finished"}
    /\ \/ link' = "closed"
       \/ Stream /\ link' = "reset"
    /\ UNCHANGED <<err, sent>>

\* A datagram server is bound again.
ServerReturns ==
    /\ ~Stream
    /\ link = "closed"
    /\ link' = "open"
    /\ UNCHANGED <<err, sent>>

Server ==
    /\ ServerSend \/ ServerFinish \/ ServerClose \/ ServerReturns
    /\ UNCHANGED <<lifeVars, loopVars, taken, lost, given, returned, msg>>

(***************************************************************************)
(* send() on the socket.  It reports and clears a pending error instead of *)
(* sending; what reaches a server that is gone makes TCP answer a reset    *)
(* and the UDP socket get an error.  Otherwise nothing here changes.       *)
(***************************************************************************)
Sent ==
    /\ \/ err /\ err' = FALSE /\ link' = link
       \/ /\ ~err
          /\ link = "closed"
          /\ link' = IF Transport = "tcp" THEN "reset" ELSE link
          /\ err' = (Transport = "udp")
    /\ UNCHANGED <<sent, taken, lost, given, returned, msg>>

-----------------------------------------------------------------------------
(* The receive thread.                                                     *)

Goto(a, b) ==
    /\ tpc = a
    /\ tpc' = b
    /\ UNCHANGED <<valid, running, joinable, pipeOpen, apc, starts, fault>>

\* The thread returns; v is isValid_ from then on.
Quit(v) ==
    /\ tpc' = "exited"
    /\ running' = FALSE
    /\ valid' = v
    /\ UNCHANGED <<joinable, pipeOpen, apc, starts, fault>>

Entry ==
    /\ tpc = "entry"
    /\ \/ valid /\ Goto("entry", "poll")
       \/ ~valid /\ Quit(FALSE)
    /\ stale' = FALSE
    /\ UNCHANGED <<revents, got, netVars>>

\* poll() returns -1, which a handled signal is enough for (EINTR).
PollError ==
    /\ tpc = "poll"
    /\ Quit(valid)
    /\ UNCHANGED <<loopVars, netVars>>

Reported_NoHup ==
    [pipe |-> ~pipeOpen, hup |-> FALSE, in |-> Unread > 0 \/ AtEnd, err |-> err]
Reported == [pipe |-> ~pipeOpen, hup |-> HungUp, in |-> Unread > 0 \/ AtEnd, err |-> err]

\* A stale number is closed (POLLNVAL), or another file's, with that file's events.
Strange == [pipe : {~pipeOpen}, hup : BOOLEAN, in : BOOLEAN, err : BOOLEAN]

Poll ==
    /\ Goto("poll", "dispatch")
    /\ IF stale THEN revents' \in Strange
       ELSE Reported # NoEvents /\ revents' = Reported
    /\ UNCHANGED <<got, stale, netVars>>

PipeHup ==
    /\ tpc = "dispatch"
    /\ revents.pipe
    /\ Quit(valid)
    /\ UNCHANGED <<loopVars, netVars>>

SockHup ==
    /\ tpc = "dispatch"
    /\ ~revents.pipe
    /\ revents.hup
    /\ Quit(FALSE)
    /\ UNCHANGED <<loopVars, netVars>>

\* The socket is tested before the pipe.
Incoming_BeforePipe == tpc = "dispatch" /\ ~revents.hup /\ revents.in
Incoming == tpc = "dispatch" /\ ~revents.pipe /\ ~revents.hup /\ revents.in

\* From the moment the base destructor runs the object has no concrete handlers.
ConcreteGone == apc \in {"dtor", "dtorJoin", "dtorEnd", "destroyed"}

\* handleIncomingMessage, the same in the four classes but for the recv() call.
HandleIncoming ==
    /\ Incoming
    /\ ~ConcreteGone
    /\ Goto("dispatch", "callback")
    /\ \E n \in RecvResults : Recv(n, "thread") /\ got' = n
    /\ UNCHANGED <<revents, stale, given, returned>>

PureCall ==
    /\ Incoming
    /\ ConcreteGone
    /\ fault' = "pureCall"
    /\ UNCHANGED <<valid, running, joinable, pipeOpen, tpc, apc, starts>>
    /\ UNCHANGED <<loopVars, netVars>>

\* callback_(msg_, msgLen)
Callback_NotWhenStopping ==
    /\ Goto("callback", "poll")
    /\ given' = IF pipeOpen THEN given + Units(got) ELSE given
    /\ got' = 0
    /\ UNCHANGED <<revents, stale, link, err, sent, taken, lost, returned, msg>>
Callback ==
    /\ Goto("callback", "poll")
    /\ given' = given + Units(got)
    /\ got' = 0
    /\ UNCHANGED <<revents, stale, link, err, sent, taken, lost, returned, msg>>

(***************************************************************************)
(* The callback calls stopRecvThread: the thread would join itself, join() *)
(* throws std::system_error, and std::terminate ends the process.          *)
(***************************************************************************)
CallbackStops ==
    /\ tpc = "callback"
    /\ running
    /\ joinable
    /\ pipeOpen' = FALSE
    /\ fault' = "terminate"
    /\ UNCHANGED <<valid, running, joinable, tpc, apc, starts, loopVars, netVars>>

Failing ==
    tpc = "dispatch" /\ ~revents.pipe /\ ~revents.hup /\ ~revents.in /\ revents.err

HandlesError == Failing /\ ~ConcreteGone /\ Transport = "udp"

\* disconnectSocket: sock_ is closed, with what it has queued.
Disconnect ==
    /\ lost' = lost + Unread
    /\ err' = FALSE

(***************************************************************************)
(* UdpClientSockEP::handleError connects a new socket.  Its number is the  *)
(* lowest that is free, so it is the old one only if the rest of the       *)
(* process has not taken that number, or freed a lower one.                *)
(***************************************************************************)
Reconnect ==
    /\ HandlesError
    /\ Goto("dispatch", "poll")
    /\ Disconnect
    /\ stale' \in BOOLEAN
    /\ UNCHANGED <<revents, got, link, sent, taken, given, returned, msg>>

\* The base class's handleError, a reconnection that fails, and the last else.
ErrorEnds ==
    /\ Failing \/ (tpc = "dispatch" /\ revents = NoEvents)
    /\ Quit(FALSE)
    /\ IF HandlesError THEN Disconnect /\ link' = "none" ELSE UNCHANGED <<lost, err, link>>
    /\ UNCHANGED <<loopVars, sent, taken, given, returned, msg>>

ThreadStep ==
    \/ Entry
    \/ Poll
    \/ PipeHup
    \/ SockHup
    \/ HandleIncoming
    \/ PureCall
    \/ Callback
    \/ Reconnect
    \/ ErrorEnds

-----------------------------------------------------------------------------
(* The owner.                                                              *)

\* startRecvThread refuses while threadRunning_; pipe() may fail, to no effect.
Start ==
    /\ apc = "idle"
    /\ ~running
    /\ starts < MaxStarts
    /\ starts' = starts + 1
    /\ running' = TRUE
    /\ pipeOpen' = TRUE
    /\ \/ ~joinable /\ joinable' = TRUE /\ tpc' = "entry" /\ UNCHANGED fault
       \/ joinable /\ fault' = "terminate" /\ UNCHANGED <<joinable, tpc>>
    /\ UNCHANGED <<valid, apc, loopVars, netVars>>

Joined_NoWait == joinable' = FALSE
Joined_Never == joinable' = joinable
Joined == tpc = "exited" /\ joinable' = FALSE

\* stopRecvThread; it returns at once, and joins nothing, when not running.
Stop(from, to) ==
    /\ apc = from
    /\ running
    /\ pipeOpen' = FALSE
    /\ apc' = to
    /\ UNCHANGED <<valid, running, joinable, tpc, starts, fault, loopVars, netVars>>

Join(from, to) ==
    /\ apc = from
    /\ Joined
    /\ apc' = to
    /\ UNCHANGED <<valid, running, pipeOpen, tpc, starts, fault, loopVars, netVars>>

(***************************************************************************)
(* The destructor of the concrete class stops nothing; that of the base    *)
(* calls stopRecvThread.  Then recvThread_ is destroyed; sock_ is never    *)
(* closed.                                                                 *)
(***************************************************************************)
DtorStep(from, to) ==
    /\ apc = from
    /\ apc' = to
    /\ fault' = IF to = "destroyed" /\ joinable THEN "terminate" ELSE fault
    /\ UNCHANGED <<valid, running, joinable, pipeOpen, tpc, starts, loopVars, netVars>>

Dtor ==
    \/ Stop("dtor", "dtorJoin")
    \/ ~running /\ DtorStep("dtor", "dtorEnd")
    \/ Join("dtorJoin", "dtorEnd")
    \/ DtorStep("dtorEnd", "destroyed")

Owner(from, to) ==
    /\ apc = from
    /\ apc' = to
    /\ UNCHANGED <<running, joinable, pipeOpen, tpc, starts, fault, loopVars>>

\* Whether getMessage answers -1 instead of receiving.
Refuses_Never(str) == FALSE
Refuses(str) == running /\ ~(str /\ Transport = "unixDgram")

\* What getMessage() does with a -1: TCP and UDP clear isValid_.
AfterError(str) == valid /\ ~(str /\ Transport \in {"tcp", "udp"})

Receiving(str) == IF str THEN "recvStr" ELSE "recv"

GetMessage(str) ==
    \/ /\ ~Refuses(str)
       /\ Owner("idle", Receiving(str))
       /\ UNCHANGED <<valid, netVars>>
    \/ /\ Refuses(str)
       /\ Owner("idle", "idle")
       /\ valid' = AfterError(str)
       /\ UNCHANGED netVars

\* getMessage() has its message in msg_, from which the string is then made.
GotMessage(str) ==
    /\ \E n \in RecvResults :
          /\ Recv(n, IF str THEN "owner" ELSE "")
          /\ returned' = returned + Units(n)
          /\ valid' = IF n = -1 THEN AfterError(str) ELSE valid
          /\ Owner(Receiving(str), IF str /\ n > 0 THEN "copy" ELSE "idle")
    /\ UNCHANGED given

MakeString ==
    /\ Owner("copy", "idle")
    /\ UNCHANGED <<valid, netVars>>

\* recv() is interrupted by a handled signal, or fails at once without a socket.
GetMessageFails(str) ==
    /\ Owner(Receiving(str), "idle")
    /\ valid' = AfterError(str)
    /\ UNCHANGED netVars

\* sendMessage, from the owner or from the callback.
SendMessage ==
    /\ apc = "idle" \/ tpc = "callback"
    /\ Sent
    /\ UNCHANGED <<lifeVars, loopVars>>

Manage ==
    \/ Start
    \/ Stop("idle", "stopJoin")
    \/ DtorStep("idle", "dtor")
    \/ SendMessage
    \/ \E str \in BOOLEAN : GetMessage(str) \/ GetMessageFails(str)

\* The calls that go on by themselves once they may.
OwnerStep ==
    \/ Join("stopJoin", "idle")
    \/ Dtor
    \/ MakeString
    \/ \E str \in BOOLEAN : GotMessage(str)

Over ==
    /\ fault # "none" \/ apc = "destroyed"
    /\ UNCHANGED vars

Next ==
    \/ /\ fault = "none"
       /\ \/ ThreadStep
          \/ PollError
          \/ CallbackStops
          \/ Manage
          \/ OwnerStep
          \/ Server
    \/ Over

Spec == Init /\ [][Next]_vars

(***************************************************************************)
(* Fairness: both threads are scheduled and the callback returns.  Nothing *)
(* makes the owner call or the server send or close.                       *)
(***************************************************************************)
FairSpec ==
    /\ Spec
    /\ WF_vars(fault = "none" /\ ThreadStep)
    /\ WF_vars(fault = "none" /\ OwnerStep)

-----------------------------------------------------------------------------
(* Properties.                                                             *)

LifeTypeOK ==
    /\ valid \in BOOLEAN
    /\ running \in BOOLEAN
    /\ joinable \in BOOLEAN
    /\ pipeOpen \in BOOLEAN
    /\ tpc \in {"none", "entry", "poll", "dispatch", "callback", "exited"}
    /\ apc \in {"idle", "stopJoin", "recv", "recvStr", "copy",
                "dtor", "dtorJoin", "dtorEnd", "destroyed"}
    /\ starts \in 0 .. MaxStarts
    /\ fault \in {"none", "terminate", "pureCall"}

LoopTypeOK ==
    /\ revents \in [pipe : BOOLEAN, hup : BOOLEAN, in : BOOLEAN, err : BOOLEAN]
    /\ got \in -1 .. (IF Stream THEN BufLen ELSE 1)
    /\ stale \in BOOLEAN

NetTypeOK ==
    /\ link \in {"none", "open", "finished", "closed", "reset"}
    /\ err \in BOOLEAN
    /\ sent \in 0 .. MaxSent
    /\ taken \in 0 .. MaxSent
    /\ lost \in 0 .. MaxSent
    /\ given \in 0 .. MaxSent
    /\ returned \in 0 .. MaxSent
    /\ msg \in {"none", "thread", "owner"}

\* The variables keep their types, and no recv() returns more than its buffer.
TypeOK == LifeTypeOK /\ LoopTypeOK /\ NetTypeOK

\* Of everything read from the socket, by either thread, the callback or the
\* caller of getMessage gets every unit once, also while the thread is stopped.
DeliveredOnce == taken = given + returned + Units(got)

\* msg_ has one user at a time: what the callback looks at is what the receive
\* thread received, and getMessage() makes its string of what it received itself.
BufferKept ==
    /\ tpc = "callback" /\ got > 0 => msg = "thread"
    /\ apc = "copy" => msg = "owner"

\* stopRecvThread and the destructor leave no thread behind that uses the client,
\* whichever of the two threads noticed first that it was over.
QuietWhenStopped == ~joinable \/ apc = "destroyed" => fault # "none" \/ tpc \in {"none", "exited"}

\* stopRecvThread closes the write end of the pipe once per start: a second close()
\* could close another file.
PipeClosedOnce == fault = "none" /\ running /\ apc \in {"idle", "dtor"} => pipeOpen

\* handleIncomingMessage is there when the thread calls it (ClientSockEP.h:42).
NoPureCall == fault # "pureCall"

\* A call of stopRecvThread, or the destructor's, returns, whatever the server does.
StopReturns ==
    apc \in {"stopJoin", "dtorJoin"} ~> fault # "none" \/ apc \notin {"stopJoin", "dtorJoin"}

\* The receive thread ends once the server has closed the connection
\* (ClientSockEP.cpp:78).
ClosedEndsThread == running /\ link \in {"closed", "reset"} ~> fault # "none" \/ ~running

Alive == tpc \in {"entry", "poll", "dispatch", "callback"}

\* The owner is inside stopRecvThread, its own or the destructor's.
Stopping == apc \in {"stopJoin", "dtorJoin"}

(***************************************************************************)
(* What poll() reported of the socket is still there when the receive      *)
(* thread comes to recv(), which therefore does not wait: the owner has    *)
(* not received it in between.  (A Unix datagram client and a UDP client   *)
(* that polls an old number do not have that.)                             *)
(***************************************************************************)
RecvNeverWaits ==
    Transport # "unixDgram" /\ ~stale /\ Incoming => RecvResults # {}

\* The steps the thread has left at most once the pipe is closed.
StepsLeft ==
    CASE tpc \in {"none", "exited"} -> 0
      [] tpc = "poll" -> 2
      [] tpc \in {"entry", "callback"} -> 3
      [] tpc = "dispatch" -> IF revents.pipe THEN 1 ELSE 4

(***************************************************************************)
(* A stop is near its end whatever the server sends and poll() reports:    *)
(* with every step the thread has fewer left, so that it takes four of     *)
(* them, and calls back once, at most.                                     *)
(***************************************************************************)
StopComesNearer == [][Stopping /\ tpc' # tpc => StepsLeft' < StepsLeft]_vars

(***************************************************************************)
(* std::terminate ends the process for two reasons only: the callback      *)
(* stops its own thread, or the thread has ended by itself, its pipe still *)
(* open, and the next start or the destructor finds it never joined.  It   *)
(* is never called over a thread that is at work or was stopped.           *)
(***************************************************************************)
TerminatesUnjoinedOnly ==
    fault = "terminate" => tpc = "callback" \/ (tpc = "exited" /\ pipeOpen)

(***************************************************************************)
(* The mailbox this client implements: listened to while the thread lives, *)
(* with what the socket queues and what the thread has in msg_ waiting.    *)
(***************************************************************************)
Box == INSTANCE Mailbox
    WITH Lossy <- Transport = "udp",
         Shared <- Transport = "unixDgram",
         listening <- Alive,
         waiting <- sent - lost - given - returned

\* Every step of the two threads and of the server is one of the mailbox, or none.
ImplementsMailbox == Box!Spec

-----------------------------------------------------------------------------
(* The inductive invariant behind the safety properties.                   *)

\* threadRunning_ says whether the thread lives; one that lives can be joined.
LifeInv ==
    /\ fault # "terminate" => (running <=> Alive)
    /\ Alive => joinable
    /\ apc \in {"dtorEnd", "destroyed"} => ~Alive
    /\ fault = "none" /\ running /\ apc \notin {"stopJoin", "dtorJoin"} => pipeOpen

\* A length is in hand only for the callback; nothing is read that was not sent.
CountInv ==
    /\ got # 0 => tpc = "callback"
    /\ taken + lost <= sent
    /\ DeliveredOnce

\* The test of threadRunning_ keeps the two readers apart.
ReaderInv ==
    Transport # "unixDgram" =>
        /\ apc \in {"recv", "recvStr", "copy"} => ~Alive
        /\ BufferKept

\* All of it but the two below, which rest on it.
IInv == TypeOK /\ LifeInv /\ CountInv /\ ReaderInv

\* A pipe that is closed is one whose thread is being waited for.
StopInv ==
    /\ Stopping => ~pipeOpen
    /\ fault = "none" /\ joinable /\ ~Stopping => pipeOpen
    /\ joinable => tpc # "none"
    /\ TerminatesUnjoinedOnly

\* What was reported is still to be had.
ReadyInv ==
    Transport # "unixDgram" /\ ~stale /\ tpc = "dispatch" /\ revents.in
        => Unread > 0 \/ AtEnd
=============================================================================
