-------------------------- MODULE TcpExamplesProofs --------------------------
(***************************************************************************)
(* Proofs about the example programs, for every bound on the lines and the *)
(* receive threads and every set of descriptors.  The server component     *)
(* takes steps of StreamServer only (ServerWithin), so that what           *)
(* StreamServerProofs shows of a step goes over to it, although it starts  *)
(* connected; and no line is answered that the handler was not given       *)
(* (QuitStep).                                                             *)
(***************************************************************************)
EXTENDS TcpExamples, StreamServerProofs

-----------------------------------------------------------------------------
(* The server component.                                                   *)

\* What the client program does to the server is what a peer may do.
LEMMA DrainedSteps ==
    ASSUME Drained
    PROVE  [Next]_vars
<1>1. Client \in Peers
    BY ExampleAssumption DEF ExampleAssumption
<1>2. CASE ServerUp /\ Net(PeerRead(Client))
    BY <1>1, <1>2 DEF ServerUp, Net, Next, Network
<1>3. CASE UNCHANGED vars
    BY <1>3
<1>4. QED
    BY <1>2, <1>3 DEF Drained

(***************************************************************************)
(* Every step of the two programs is, for the server, a step of            *)
(* StreamServer: the programs use it in ways its model allows.             *)
(***************************************************************************)
LEMMA ServerWithin ==
    ASSUME HandlerInv, [ExampleNext]_exampleVars
    PROVE  [Next]_vars
<1>0. Client \in Peers
    BY ExampleAssumption DEF ExampleAssumption
<1>1. CASE ServerUp /\ ServerLoop
    BY <1>1 DEF ServerUp, ServerLoop, Next, ServerStep
<1>2. CASE ServerUp /\ Handle
    BY <1>2 DEF ServerUp, Handle, Next, ServerStep
<1>3. CASE ServerUp /\ Answer
  <2>1. NoReply \/ ReplyFind(cur) \/ ReplySend
    BY <1>3 DEF Answer
  <2>2. ReplyFind(cur) => cur \in KnownIds
    BY DEF ReplyFind, Goto, HandlerInv
  <2>3. QED
    BY <1>3, <2>1, <2>2 DEF ServerUp, Next, ServerStep
<1>4. CASE ServerUp /\ ServerMain
    BY <1>4 DEF ServerUp, ServerMain, Own, Next, Manage, AppStep
<1>5. CASE ServerExit
    BY <1>5 DEF ServerExit
<1>6. CASE ClientThread \/ ClientMain
    BY <1>6, DrainedSteps DEF ClientThread, ClientMain
<1>7. CASE Say \/ \E line \in Lines : Type(line)
    BY <1>0, <1>7 DEF Say, Type, ServerUp, Net, Next, Network
<1>8. CASE Obey
    BY <1>8 DEF Obey
<1>9. CASE ClientExit \/ ClientKilled
    BY <1>0, <1>9 DEF ClientExit, ClientKilled, ClientGone, ServerUp, Net, Next, Network
<1>10. CASE Interrupted
    BY <1>10 DEF Interrupted, ServerUp, Next
<1>11. CASE UNCHANGED exampleVars
    BY <1>11 DEF exampleVars
<1>12. QED
    BY <1>1, <1>2, <1>3, <1>4, <1>5, <1>6, <1>7, <1>8, <1>9, <1>10, <1>11
       DEF ExampleNext, ServerThread, Over

\* The handler is called with an id that the program has then been told of.
LEMMA HandlerStep ==
    ASSUME HandlerInv, [Next]_vars
    PROVE  HandlerInv'
<1>1. CASE Callback
  <2>1. cur' = cur /\ <<cur, conn[cur]>> \in known'
    BY <1>1 DEF Callback
  <2>2. <<cur, conn[cur]>>[1] = cur
    OBVIOUS
  <2>3. QED
    BY <2>1, <2>2 DEF HandlerInv, KnownIds
<1>2. CASE ~Callback
  <2>1. known \subseteq known'
    BY <1>2 DEF Next, vars, appVars, Ended, ServerStep, Entry, Poll, Accept, NoAccept, Lock, Insert,
       Pipe, Scan, Hup, Read, ReplyFind, ReplySend, NoReply, Merge, PollFails, CallbackStops, Manage,
       AppStep, Joins, Destroy, GetClientIds, SendFind, SendThrough, SendDangling, SendReturn,
       Network
  <2>2. spc' = "reply" => spc = "reply" /\ UNCHANGED cur
    BY <1>2 DEF Next, vars, lifeVars, loopVars, Ended, ServerStep, Entry, RunServerEntry, LoopHead,
       Poll, Accept, NoAccept, Lock, LockedStates, Insert, Pipe, Scan, Hup, Read, TcpReadable,
       UnixStreamReadable, TakeMessage, ReplyFind, ReplySend, NoReply, Merge, Goto, PollFails,
       PollError, CallbackStops, StopInCallback, Manage, AppStep, StartServer, StopServer, DtorStop,
       Destroy, DtorClose, Joins, StopJoin, DtorJoin, GetClientIds, SendFind, SendThrough,
       SendDangling, SendReturn, Network
  <2>3. QED
    BY <2>1, <2>2 DEF HandlerInv, KnownIds
<1>3. QED
    BY <1>1, <1>2

\* The server of the example starts with a connection to accept.
LEMMA ExampleInitInv ==
    ASSUME ExampleInit
    PROVE  /\ IInv /\ StopInv /\ LastRoundInv /\ ReadyInv /\ ListedInv
           /\ CallbackHasData /\ HandlerInv /\ Service!Init
<1> USE StreamAssumption, MaxStartsAssumption, ExampleAssumption
        DEF StreamAssumption, MaxStartsAssumption, ExampleAssumption, ExampleInit, LifeInit,
            NoEvents, ServerStates, Handling
<1>1. TypeOK
  <2>1. LifeTypeOK(ServerStates, {"send"})
    <3>1. starts \in 0 .. MaxStarts
      OBVIOUS
    <3>2. QED
      BY <3>1 DEF LifeTypeOK
  <2>2. TableTypeOK
    <3>1. got \in -1 .. BufLen
      OBVIOUS
    <3>2. revents \in [listen : BOOLEAN, pipe : BOOLEAN, hup : SUBSET Fds, in : SUBSET Fds]
      OBVIOUS
    <3>3. QED
      BY <3>1, <3>2 DEF TableTypeOK
  <2>3. NetTypeOK
    BY DEF NetTypeOK, PeerStates
  <2>4. QED
    BY <2>1, <2>2, <2>3 DEF TypeOK
<1>2. LifeInv /\ MutexInv
    BY DEF LifeInv, MutexInv, ThreadGone
<1>3. ConnInv
    BY DEF ConnInv, IdsKeepTheirPeer
<1>4. PollInv /\ CurInv
    BY DEF PollInv, CurInv
<1>5. ByteInv
    BY DEF ByteInv, NothingDropped
<1>6. StopInv /\ LastRoundInv
    BY DEF StopInv, Stopping, TerminatesUnstoppedOnly, LastRoundInv
<1>7. ReadyInv /\ HandlerInv /\ CallbackHasData
    BY DEF ReadyInv, RecvNeverWaits, HandlerInv, CallbackHasData
<1>8. ListedInv /\ Service!Init
    BY DEF ListedInv, ListedArePolled, ThreadGone, Service!Init
<1>9. QED
    BY <1>1, <1>2, <1>3, <1>4, <1>5, <1>6, <1>7, <1>8 DEF IInv

\* The inductive invariants of the server component hold in the example programs.
LEMMA ServerInvariance ==
    ExampleSpec => [](IInv /\ HandlerInv /\ StopInv /\ LastRoundInv /\ ReadyInv /\ ListedInv
                      /\ CallbackHasData)
<1> DEFINE I == /\ IInv /\ HandlerInv /\ StopInv /\ LastRoundInv /\ ReadyInv /\ ListedInv
                /\ CallbackHasData
<1>1. ExampleInit => I
    BY ExampleInitInv
<1>2. I /\ [ExampleNext]_exampleVars => I'
  <2> SUFFICES ASSUME I, [ExampleNext]_exampleVars PROVE I'
    OBVIOUS
  <2>1. [Next]_vars
    BY ServerWithin
  <2>2. IInv'
    BY <2>1, StepInv
  <2>3. HandlerInv'
    BY <2>1, HandlerStep
  <2>4. StopInv'
    BY <2>1, StopInvStep
  <2>5. LastRoundInv'
    BY <2>1, LastRoundStep
  <2>6. ReadyInv'
    BY <2>1, ReadyStep
  <2>7. ListedInv'
    BY <2>1, ListedStep
  <2>8. Transport = "tcp"
    BY ExampleAssumption DEF ExampleAssumption
  <2>9. CallbackHasData'
    BY <2>1, <2>8, HasDataStep
  <2>10. QED
    BY <2>2, <2>3, <2>4, <2>5, <2>6, <2>7, <2>9
<1>3. QED
    BY <1>1, <1>2, PTL DEF ExampleSpec

(***************************************************************************)
(* What is proved of a stream server holds of the one in tcp_server.cpp,   *)
(* whose client is tcp_client.cpp: no byte lost, ids that keep their peer, *)
(* no client deaf or unknown, no wait but in poll(), no thread left over.  *)
(***************************************************************************)
THEOREM ExampleServer ==
    ExampleSpec => [](/\ NothingDropped /\ IdsKeepTheirPeer /\ PolledAreListed /\ ListedArePolled
                      /\ RecvNeverWaits /\ CallbackHasData /\ QuietWhenStopped
                      /\ TerminatesUnstoppedOnly)
<1>1. IInv /\ StopInv /\ ReadyInv /\ ListedInv
        => /\ NothingDropped /\ IdsKeepTheirPeer /\ PolledAreListed /\ ListedArePolled
           /\ RecvNeverWaits /\ QuietWhenStopped /\ TerminatesUnstoppedOnly
  <2> SUFFICES ASSUME IInv, StopInv, ReadyInv, ListedInv
               PROVE  /\ NothingDropped /\ IdsKeepTheirPeer /\ PolledAreListed /\ ListedArePolled
                      /\ RecvNeverWaits /\ QuietWhenStopped /\ TerminatesUnstoppedOnly
    OBVIOUS
  <2>1. NothingDropped /\ IdsKeepTheirPeer
    BY DEF IInv, ByteInv, ConnInv
  <2>2. PolledAreListed
    BY DEF PolledAreListed, IInv, TypeOK, LifeTypeOK, PollInv, CurInv, ServerStates, Handling,
       ThreadGone
  <2>3. QuietWhenStopped
    BY DEF QuietWhenStopped, IInv, LifeInv
  <2>4. QED
    BY <2>1, <2>2, <2>3 DEF StopInv, ReadyInv, ListedInv
<1>2. QED
    BY <1>1, ServerInvariance, PTL

\* The server of the example programs implements ConnectionService.
THEOREM ExampleService == ExampleSpec => ImplementsService
<1>1. HandlerInv /\ IInv /\ [ExampleNext]_exampleVars => [Service!Next]_Service!svcVars
    BY ServerWithin, ServiceSteps
<1>2. ExampleInit => Service!Init
    BY ExampleInitInv
<1>3. QED
    BY <1>1, <1>2, ServerInvariance, PTL DEF ExampleSpec, ImplementsService, Service!Spec

-----------------------------------------------------------------------------
(* The answers, and the line that ends the server.                         *)

\* What the other steps of the server leave alone, or between answers.
LEMMA QuietServer ==
    ASSUME ServerLoop \/ ServerMain
    PROVE  /\ UNCHANGED <<go, cmain, inp, quitAt, given, csent>>
           /\ spc' \in {"reply", "replySend"} => spc' = spc
<1>1. UNCHANGED <<go, cmain, inp, quitAt, csent>>
    BY DEF ServerLoop, ServerMain, mainVars, clientVars
<1>2. CASE ServerLoop
  <2>1. UNCHANGED given
    BY <1>2 DEF ServerLoop, Entry, Poll, Accept, NoAccept, Lock, Insert, Pipe, Scan, Hup, Read, Merge,
       netVars
  <2>2. spc' \notin {"reply", "replySend"}
    BY <1>2 DEF ServerLoop, Entry, RunServerEntry, LoopHead, Poll, Accept, NoAccept, Lock,
       LockedStates, Insert, Pipe, Scan, Hup, Read, TcpReadable, UnixStreamReadable, TakeMessage,
       Merge, Goto
  <2>3. QED
    BY <1>1, <2>1, <2>2
<1>3. CASE ServerMain
  <2>1. UNCHANGED given
    BY <1>3 DEF ServerMain, Own, Joins, Destroy, vars, netVars
  <2>2. spc' \in {spc, "entry"}
    BY <1>3 DEF ServerMain, Own, StartServer, StopServer, DtorStop, Joins, StopJoin, DtorJoin,
       Destroy, DtorClose, vars, lifeVars
  <2>3. QED
    BY <1>1, <2>1, <2>2
<1>4. QED
    BY <1>2, <1>3

\* The client's own threads do not add an answer.
LEMMA ClientSendsNone ==
    ASSUME C!ThreadStep \/ C!OwnerStep
    PROVE  UNCHANGED csent
BY DEF C!ThreadStep, C!Entry, C!Poll, C!PipeHup, C!SockHup, C!HandleIncoming, C!PureCall,
   C!Callback, C!Reconnect, C!ErrorEnds, C!OwnerStep, C!Join, C!Dtor, C!Stop, C!DtorStep,
   C!MakeString, C!GotMessage, C!Recv, C!netVars

(***************************************************************************)
(* The handler is given at least one line for each answer it makes, and    *)
(* makes none to the line that ends the server.                            *)
(***************************************************************************)
LEMMA QuitStep ==
    ASSUME IInv, CallbackHasData, QuitInv, [ExampleNext]_exampleVars
    PROVE  QuitInv'
<1> USE DEF QuitInv
<1>0. /\ Peers = {Client} /\ Client \in Peers /\ Transport = "tcp"
      /\ given \in [Peers -> Nat] /\ sent \in [Peers -> Nat] /\ csent \in Nat
      /\ given[Client] \in Nat
    BY ExampleAssumption DEF ExampleAssumption, IInv, TypeOK, NetTypeOK
<1>1. CASE ServerLoop \/ ServerMain
    BY <1>0, <1>1, QuietServer
<1>2. CASE Handle
  <2>1. /\ spc = "callback" /\ spc' = "reply"
        /\ UNCHANGED <<cmain, inp, quitAt, csent>>
        /\ go' = (go /\ ~ReadsQuit)
    BY <1>2 DEF Handle, Callback, Goto, clientVars
  <2>2. got \in Nat /\ got >= 1
    BY <2>1, StreamAssumption DEF CallbackHasData, StreamAssumption
  <2>3. conn[cur] = Client
    BY <1>0, <2>1 DEF IInv, CurInv, PollInv, ConnInv, TypeOK, TableTypeOK, Handling, ServerStates
  <2>4. given' = [given EXCEPT ![Client] = @ + got]
    <3>1. given' = [given EXCEPT ![conn[cur]] = @ + Bytes(got)]
      BY <1>2 DEF Handle, Callback
    <3>2. Bytes(got) = got
      BY <2>2 DEF Bytes
    <3>3. QED
      BY <2>3, <3>1, <3>2
  <2>5. given'[Client] = given[Client] + got
    BY <1>0, <2>4
  <2>6. CASE go /\ ~ReadsQuit
    <3>1. go' = TRUE
      BY <2>1, <2>6
    <3>2. csent + 1 <= given'[Client]
      BY <1>0, <2>1, <2>2, <2>5, <2>6
    <3>3. QED
      BY <2>1, <2>6, <3>1, <3>2
  <2>7. CASE go /\ ReadsQuit
    BY <1>0, <2>1, <2>2, <2>5, <2>7 DEF ReadsQuit
  <2>8. CASE ~go
    BY <1>0, <2>1, <2>2, <2>5, <2>8
  <2>9. QED
    BY <2>6, <2>7, <2>8
<1>3. CASE Answer
  <2>1. UNCHANGED <<go, cmain, inp, quitAt>>
    BY <1>3 DEF Answer, mainVars
  <2>2. UNCHANGED given
    BY <1>3 DEF Answer, NoReply, ReplyFind, ReplySend, SendByte, netVars
  <2>3. CASE ReplySend
    <3>1. spc = "replySend" /\ spc' = "scan"
      BY <2>3 DEF ReplySend, Goto
    <3>2. csent' \in {csent, csent + 1}
      BY <1>3, <3>1 DEF Answer, clientVars, NoReply, ReplyFind, Goto
    <3>3. QED
      BY <1>0, <2>1, <2>2, <3>1, <3>2
  <2>4. CASE ~ReplySend
    <3>1. /\ spc = "reply" /\ spc' \in {"scan", "replySend"}
          /\ UNCHANGED csent
          /\ ~go => spc' = "scan"
      BY <1>3, <2>4 DEF Answer, NoReply, ReplyFind, Goto, clientVars
    <3>2. QED
      BY <1>0, <2>1, <2>2, <3>1
  <2>5. QED
    BY <2>3, <2>4
<1>4. CASE ServerExit
    BY <1>4 DEF ServerExit, vars, lifeVars, netVars
<1>5. CASE ClientThread \/ ClientMain
  <2>1. UNCHANGED <<go, cmain, inp, quitAt, csent>>
    BY <1>5, ClientSendsNone DEF ClientThread, ClientMain, mainVars
  <2>2. UNCHANGED <<spc, given>>
    BY <1>5 DEF ClientThread, ClientMain, Drained, Net, PeerRead, vars, lifeVars, netVars
  <2>3. QED
    BY <2>1, <2>2
<1>6. CASE Say \/ \E line \in Lines : Type(line)
  <2>1. UNCHANGED <<go, spc, given, csent>>
    BY <1>6 DEF Say, Type, Net, PeerSend, C!SendMessage, C!Sent, clientVars, vars, lifeVars, netVars
  <2>2. quitAt = 0 /\ go
    BY <1>0, <1>6 DEF Say, Type
  <2>3. CASE Say
    <3>1. cmain' = "obey" /\ inp' = inp
      BY <2>3 DEF Say
    <3>2. sent' \in [Peers -> Nat]
      BY <1>0, <2>3 DEF Say, Net, PeerSend, vars, netVars
    <3>3. quitAt' \in Nat /\ (quitAt' # 0 => inp = "quit")
      BY <1>0, <2>2, <2>3, <3>2 DEF Say
    <3>4. QED
      BY <1>0, <2>1, <2>2, <3>1, <3>3
  <2>4. CASE ~Say
    <3>1. UNCHANGED quitAt
      BY <1>6, <2>4 DEF Type
    <3>2. QED
      BY <1>0, <2>1, <2>2, <3>1
  <2>5. QED
    BY <2>3, <2>4
<1>7. CASE Obey
  <2>1. UNCHANGED <<go, quitAt, spc, given, csent>>
    BY <1>7 DEF Obey, clientVars, C!Start, C!Stop, C!GetMessage, C!DtorStep, C!netVars, vars,
       lifeVars, netVars
  <2>2. cmain = "obey" /\ cmain' = IF inp = "quit" THEN "exit" ELSE "prompt"
    BY <1>7 DEF Obey
  <2>3. QED
    BY <2>1, <2>2
<1>8. CASE ClientExit \/ ClientKilled
  <2>1. cmain' = "gone" /\ UNCHANGED <<go, quitAt, spc, given, csent>>
    BY <1>8 DEF ClientExit, ClientKilled, ClientGone, Net, PeerClose, clientVars, vars, lifeVars,
       netVars
  <2>2. QED
    BY <2>1
<1>9. CASE Interrupted
  <2>1. /\ UNCHANGED <<go, cmain, inp, quitAt, given, csent>>
        /\ spc' \in {spc, "exited"}
    BY <1>9 DEF Interrupted, clientVars, mainVars, PollFails, PollError, C!PollError, C!Quit,
       C!GetMessageFails, C!netVars, vars, lifeVars, netVars
  <2>2. QED
    BY <1>0, <2>1
<1>10. CASE UNCHANGED exampleVars
    BY <1>10 DEF exampleVars, vars, lifeVars, netVars, mainVars, clientVars
<1>11. QED
    BY <1>1, <1>2, <1>3, <1>4, <1>5, <1>6, <1>7, <1>8, <1>9, <1>10
       DEF ExampleNext, ServerThread, Over

(***************************************************************************)
(* No answer without a line that the handler was given, and none to "quit" *)
(* or after it, which was given before the server ends.                    *)
(***************************************************************************)
THEOREM Answers == ExampleSpec => []AnswersFollowLines
<1>1. ExampleInit => QuitInv
  <2> SUFFICES ASSUME ExampleInit PROVE QuitInv
    OBVIOUS
  <2>1. csent = 0 /\ given[Client] = 0 /\ go /\ quitAt = 0 /\ spc = "none"
    BY ExampleAssumption DEF ExampleAssumption, ExampleInit, C!Init, LifeInit
  <2>2. QED
    BY <2>1 DEF QuitInv
<1>2. IInv /\ CallbackHasData /\ QuitInv /\ [ExampleNext]_exampleVars => QuitInv'
    BY QuitStep
<1>3. IInv /\ QuitInv => AnswersFollowLines
  <2> SUFFICES ASSUME IInv, QuitInv PROVE AnswersFollowLines
    OBVIOUS
  <2>1. csent \in Nat /\ given[Client] \in Nat
    BY ExampleAssumption DEF ExampleAssumption, IInv, TypeOK, NetTypeOK, QuitInv
  <2>2. CASE go
    BY <2>1, <2>2 DEF QuitInv, AnswersFollowLines
  <2>3. CASE ~go
    BY <2>1, <2>3 DEF QuitInv, AnswersFollowLines
  <2>4. QED
    BY <2>2, <2>3
<1>4. QED
    BY <1>1, <1>2, <1>3, ServerInvariance, PTL DEF ExampleSpec

=============================================================================
