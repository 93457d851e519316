---------------------------- MODULE ServerSockEP ----------------------------
(***************************************************************************)
(* The base class of the four servers (src/server/ServerSockEP.{h,cpp}):   *)
(* the life of the server thread, seen from the application thread that    *)
(* owns the server object and from the thread itself.                      *)
(*                                                                         *)
(* The application thread calls startServer, stopServer and the            *)
(* destructor, one at a time.  The server thread runs runServer: it builds *)
(* its poll set, polls, dispatches to the concrete server's                *)
(* handlePfdUpdates and updates the poll set.  handlePfdUpdates is pure    *)
(* virtual in the code; here it is what StreamServer and DgramServer,      *)
(* which extend this module, do between "listen" and the next poll.        *)
(*                                                                         *)
(* An action here says nothing of the variables of the extending modules.  *)
(***************************************************************************)
EXTENDS Naturals

CONSTANT
    MaxStarts    \* bound: how many times the application calls startServer

ASSUME MaxStartsAssumption == MaxStarts \in Nat

VARIABLES
    valid,       \* isValid_
    sockOpen,    \* whether the descriptor sock_ is open
    running,     \* serverRunning_
    joinable,    \* serverThread_.joinable()
    pipeOpen,    \* whether the write end pipeFd_[1] is open
    spc,         \* what the server thread does next
    apc,         \* what the application thread does next
    starts,      \* calls of startServer so far
    fault        \* how the process was ended: "terminate" by std::terminate

lifeVars == <<valid, sockOpen, running, joinable, pipeOpen, spc, apc, starts, fault>>

\* The thread has not been created, or has returned from runServer.
ThreadGone == spc \in {"none", "exited"}

\* The application waits in join() for the end of the thread.
Stopping == apc \in {"stopJoin", "dtorJoin"}

(***************************************************************************)
(* A constructor that fails leaves isValid_ false, with sock_ open or not  *)
(* depending on the class and on the call that failed.                     *)
(***************************************************************************)
LifeInit ==
    /\ valid \in BOOLEAN
    /\ sockOpen \in BOOLEAN
    /\ valid => sockOpen
    /\ running = FALSE
    /\ joinable = FALSE
    /\ pipeOpen = FALSE
    /\ spc = "none"
    /\ apc = "idle"
    /\ starts = 0
    /\ fault = "none"

-----------------------------------------------------------------------------
(* The application thread.                                                 *)

(***************************************************************************)
(* startServer: no test of serverRunning_ and none of joinable().  pipe()  *)
(* may fail; otherwise the new std::thread is moved into serverThread_,    *)
(* which calls std::terminate when serverThread_ is still joinable.        *)
(***************************************************************************)
StartServer ==
    /\ apc = "idle"
    /\ starts < MaxStarts
    /\ starts' = starts + 1
    /\ \/ /\ running' = FALSE
          /\ UNCHANGED <<joinable, pipeOpen, spc, fault>>
       \/ /\ ~joinable
          /\ running' = TRUE
          /\ pipeOpen' = TRUE
          /\ joinable' = TRUE
          /\ spc' = "entry"
          /\ UNCHANGED fault
       \/ /\ joinable
          /\ running' = TRUE
          /\ pipeOpen' = TRUE
          /\ fault' = "terminate"
          /\ UNCHANGED <<joinable, spc>>
    /\ UNCHANGED <<valid, sockOpen, apc>>

\* The wait at the end of stopServer: joined only once runServer has returned.
Joined_Never ==
    /\ spc = "exited"
    /\ UNCHANGED joinable
Joined ==
    /\ spc = "exited"
    /\ joinable' = FALSE

(***************************************************************************)
(* stopServer closes the write end of the pipe and joins.  When            *)
(* serverRunning_ is false it returns at once and joins nothing: no change *)
(* of state, hence no action.                                              *)
(***************************************************************************)
StopServer ==
    /\ apc = "idle"
    /\ running
    /\ pipeOpen' = FALSE
    /\ apc' = IF joinable THEN "stopJoin" ELSE "idle"
    /\ UNCHANGED <<valid, sockOpen, running, joinable, spc, starts, fault>>

StopJoin ==
    /\ apc = "stopJoin"
    /\ Joined
    /\ apc' = "idle"
    /\ UNCHANGED <<valid, sockOpen, running, pipeOpen, spc, starts, fault>>

(***************************************************************************)
(* stopServer called by the callback, that is, by the server thread, which *)
(* would join itself: join() throws std::system_error, which no function   *)
(* of the thread catches, and std::terminate ends the process.             *)
(***************************************************************************)
StopInCallback ==
    /\ running
    /\ joinable
    /\ pipeOpen' = FALSE
    /\ fault' = "terminate"
    /\ UNCHANGED <<valid, sockOpen, running, joinable, spc, apc, starts>>

(***************************************************************************)
(* The destructor.  The concrete class calls closeSocket, which stops the  *)
(* server if it is running, closes sock_ and clears isValid_; the base     *)
(* destructor calls closeSocket again; then the members are destroyed, and *)
(* destroying a joinable std::thread calls std::terminate.                 *)
(***************************************************************************)
DtorStop_CloseFirst ==
    /\ apc = "idle"
    /\ apc' = IF running THEN "dtorJoin" ELSE "dtorClose"
    /\ pipeOpen' = (pipeOpen /\ ~running)
    /\ sockOpen' = FALSE
    /\ UNCHANGED <<valid, running, joinable, spc, starts, fault>>
DtorStop ==
    /\ apc = "idle"
    /\ apc' = IF running THEN "dtorJoin" ELSE "dtorClose"
    /\ pipeOpen' = (pipeOpen /\ ~running)
    /\ UNCHANGED <<valid, sockOpen, running, joinable, spc, starts, fault>>

DtorJoin ==
    /\ apc = "dtorJoin"
    /\ Joined
    /\ apc' = "dtorClose"
    /\ UNCHANGED <<valid, sockOpen, running, pipeOpen, spc, starts, fault>>

DtorClose ==
    /\ apc = "dtorClose"
    /\ sockOpen' = FALSE
    /\ valid' = FALSE
    /\ apc' = "destroyed"
    /\ fault' = IF joinable THEN "terminate" ELSE "none"
    /\ UNCHANGED <<running, joinable, pipeOpen, spc, starts>>

-----------------------------------------------------------------------------
(* The server thread, up to the dispatch.                                  *)

\* Where the thread goes at the head of "while (serverRunning_)".
LoopHead(on) == IF on THEN "poll" ELSE "exited"

\* The first lines of runServer: a server that is not valid does not run.
RunServerEntry ==
    /\ spc = "entry"
    /\ running' = (running /\ valid)
    /\ spc' = LoopHead(running')
    /\ UNCHANGED <<valid, sockOpen, joinable, pipeOpen, apc, starts, fault>>

\* poll() returns -1, which a handled signal is enough for (EINTR).
PollError_KeepsRunning ==
    /\ spc = "poll"
    /\ spc' = "exited"
    /\ UNCHANGED <<valid, sockOpen, running, joinable, pipeOpen, apc, starts, fault>>
PollError ==
    /\ spc = "poll"
    /\ running' = FALSE
    /\ spc' = "exited"
    /\ UNCHANGED <<valid, sockOpen, joinable, pipeOpen, apc, starts, fault>>

(***************************************************************************)
(* The types of the variables above; the extending modules name the rest   *)
(* of the server thread's control states.                                  *)
(***************************************************************************)
LifeTypeOK(serverStates, appStates) ==
    /\ valid \in BOOLEAN
    /\ sockOpen \in BOOLEAN
    /\ running \in BOOLEAN
    /\ joinable \in BOOLEAN
    /\ pipeOpen \in BOOLEAN
    /\ spc \in {"none", "entry", "poll", "exited"} \cup serverStates
    /\ apc \in {"idle", "stopJoin", "dtorJoin", "dtorClose", "destroyed"} \cup appStates
    /\ starts \in 0 .. MaxStarts
    /\ fault \in {"none", "terminate", "crash"}

(***************************************************************************)
(* When stopServer or the destructor has joined, no thread of the server   *)
(* is left to call back, and the listening descriptor is closed only after *)
(* that.                                                                   *)
(***************************************************************************)
QuietWhenStopped ==
    /\ ~joinable /\ fault = "none" => ThreadGone
    /\ valid /\ ~ThreadGone => sockOpen

(***************************************************************************)
(* stopServer never closes a pipe end that is already closed (and whose    *)
(* number may by then belong to another file): a server that reports       *)
(* itself running to an idle owner still has its pipe.                     *)
(***************************************************************************)
PipeClosedOnce == fault = "none" /\ apc = "idle" /\ running => pipeOpen

(***************************************************************************)
(* The destructor ends the process with std::terminate only over a thread  *)
(* that nobody has stopped, one that returned from runServer by itself or  *)
(* that a failed second start has hidden: a thread that was told to end    *)
(* has been joined, whatever else was called in between.                   *)
(***************************************************************************)
TerminatesUnstoppedOnly == fault = "terminate" /\ apc = "destroyed" => pipeOpen

(***************************************************************************)
(* The life of the thread: serverRunning_ implies a live thread, a live    *)
(* thread implies a joinable serverThread_, and the pipe is closed only    *)
(* while somebody waits for the thread.                                    *)
(***************************************************************************)
LifeInv ==
    /\ valid => sockOpen
    /\ fault = "none" =>
          /\ ThreadGone => ~running
          /\ ~ThreadGone => joinable
          /\ apc = "destroyed" => ThreadGone
          /\ apc \in {"idle", "send"} /\ running => pipeOpen

(***************************************************************************)
(* The pipe: closed for as long as somebody waits, and open otherwise for  *)
(* as long as there is a thread to join.                                   *)
(***************************************************************************)
StopInv ==
    /\ Stopping => ~pipeOpen
    /\ fault = "none" /\ joinable /\ ~Stopping => pipeOpen
    /\ TerminatesUnstoppedOnly
=============================================================================
