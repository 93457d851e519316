------------------------- MODULE StreamServerProofs -------------------------
(***************************************************************************)
(* Proofs about StreamServer, for every set of peers and descriptors, both *)
(* transports, and any bounds.  The argument: IInv of StreamServer is      *)
(* inductive (ServerStepInv, OwnerStepInv and NetworkInv show that no step *)
(* of the server thread, of the application or of the network breaks it);  *)
(* it implies the invariants the runs check; and under it every step is a  *)
(* step of ConnectionService or changes nothing the service shows.         *)
(***************************************************************************)
EXTENDS StreamServer, FiniteSetTheorems, TLAPS

(***************************************************************************)
(* What recv() returns fits the buffer msg_ and is no more than what has   *)
(* arrived; a TCP socket returns 0 only when nothing is left to read.      *)
(***************************************************************************)
LEMMA ReceivedBytes ==
    ASSUME IInv, NEW p \in Peers
    PROVE  /\ Received(p) \in -1 .. BufLen
           /\ Bytes(Received(p)) \in Nat
           /\ Bytes(Received(p)) <= Unread(p)
           /\ Transport = "tcp" /\ Received(p) = 0 => Unread(p) = 0
<1>1. Unread(p) \in Nat /\ BufLen \in Nat \ {0}
    BY StreamAssumption DEF IInv, ByteInv, TypeOK, NetTypeOK, Unread
<1>2. QED
    BY <1>1 DEF Received, Bytes, Min2

(***************************************************************************)
(* No step of the server thread, from the entry of runServer to the merge  *)
(* of the poll set, breaks the inductive invariant.                        *)
(***************************************************************************)
LEMMA ServerStepInv ==
    ASSUME IInv, fault = "none", ServerStep
    PROVE  IInv'
<1> USE StreamAssumption, MaxStartsAssumption
<1> USE DEF StreamAssumption, MaxStartsAssumption, IInv, ServerStates, Handling, Entering, ThreadGone,
       lifeVars, objVars, loopVars, appVars, netVars, NoEvents, Goto
<1>1. CASE Entry
  <2> USE <1>1 DEF Entry, RunServerEntry, LoopHead
  <2>1. (LifeTypeOK(ServerStates, {"send"}) /\ LifeInv /\ MutexInv)'
    BY DEF LifeInv, MutexInv, TypeOK, LifeTypeOK
  <2>2. (TableTypeOK /\ PollInv /\ CurInv)'
    BY DEF TypeOK, TableTypeOK, NetTypeOK, CurInv, PollInv
  <2>3. (NetTypeOK /\ ConnInv)'
    BY DEF ConnInv, IdsKeepTheirPeer, TypeOK, TableTypeOK, NetTypeOK
  <2>4. ByteInv'
    BY DEF ByteInv, NothingDropped, TypeOK, TableTypeOK
  <2>5. QED
    BY <2>1, <2>2, <2>3, <2>4 DEF TypeOK
<1>2. CASE Poll
  <2> USE <1>2 DEF Poll, Reported, HungUp
  <2>1. (LifeTypeOK(ServerStates, {"send"}) /\ LifeInv /\ MutexInv)'
    BY DEF LifeInv, MutexInv, TypeOK, LifeTypeOK
  <2>2. (TableTypeOK /\ PollInv /\ CurInv)'
    BY DEF TypeOK, TableTypeOK, NetTypeOK, CurInv, PollInv
  <2>3. (NetTypeOK /\ ConnInv)'
    BY DEF ConnInv, IdsKeepTheirPeer, TypeOK, TableTypeOK, NetTypeOK
  <2>4. ByteInv'
    BY DEF ByteInv, NothingDropped, TypeOK, TableTypeOK, PollInv, ConnInv
  <2>5. QED
    BY <2>1, <2>2, <2>3, <2>4 DEF TypeOK
<1>3. CASE Accept
  <2> USE <1>3 DEF Accept, FreeFds
  <2>1. (LifeTypeOK(ServerStates, {"send"}) /\ LifeInv /\ MutexInv)'
    BY DEF LifeInv, MutexInv, TypeOK, LifeTypeOK
  <2>2. (TableTypeOK /\ PollInv /\ CurInv)'
    BY DEF TypeOK, TableTypeOK, NetTypeOK, CurInv, PollInv, ConnInv, IdsKeepTheirPeer
  <2>3. (NetTypeOK /\ ConnInv)'
    BY DEF ConnInv, IdsKeepTheirPeer, TypeOK, TableTypeOK, NetTypeOK
  <2>4. ByteInv'
    BY DEF ByteInv, NothingDropped, TypeOK, TableTypeOK
  <2>5. QED
    BY <2>1, <2>2, <2>3, <2>4 DEF TypeOK
<1>4. CASE NoAccept
  <2> USE <1>4 DEF NoAccept
  <2>1. (LifeTypeOK(ServerStates, {"send"}) /\ LifeInv /\ MutexInv)'
    BY DEF LifeInv, MutexInv, TypeOK, LifeTypeOK
  <2>2. (TableTypeOK /\ PollInv /\ CurInv)'
    BY DEF TypeOK, TableTypeOK, NetTypeOK, CurInv, PollInv
  <2>3. (NetTypeOK /\ ConnInv)'
    BY DEF ConnInv, IdsKeepTheirPeer, TypeOK, TableTypeOK, NetTypeOK
  <2>4. ByteInv'
    BY DEF ByteInv, NothingDropped, TypeOK, TableTypeOK
  <2>5. QED
    BY <2>1, <2>2, <2>3, <2>4 DEF TypeOK
<1>5. CASE Lock
  <2> USE <1>5 DEF Lock, LockedStates
  <2>1. (LifeTypeOK(ServerStates, {"send"}) /\ LifeInv /\ MutexInv)'
    BY DEF LifeInv, MutexInv, TypeOK, LifeTypeOK
  <2>2. (TableTypeOK /\ PollInv /\ CurInv)'
    BY DEF TypeOK, TableTypeOK, NetTypeOK, CurInv, PollInv
  <2>3. (NetTypeOK /\ ConnInv)'
    BY DEF ConnInv, IdsKeepTheirPeer, TypeOK, TableTypeOK, NetTypeOK
  <2>4. ByteInv'
    BY DEF ByteInv, NothingDropped, TypeOK, TableTypeOK
  <2>5. QED
    BY <2>1, <2>2, <2>3, <2>4 DEF TypeOK
<1>6. CASE Insert
  <2> USE <1>6 DEF Insert
  <2>1. (LifeTypeOK(ServerStates, {"send"}) /\ LifeInv /\ MutexInv)'
    BY DEF LifeInv, MutexInv, TypeOK, LifeTypeOK
  <2>2. (TableTypeOK /\ PollInv /\ CurInv)'
    BY DEF TypeOK, TableTypeOK, NetTypeOK, CurInv, PollInv
  <2>3. (NetTypeOK /\ ConnInv)'
    BY DEF ConnInv, IdsKeepTheirPeer, TypeOK, TableTypeOK, NetTypeOK, CurInv
  <2>4. ByteInv'
    BY DEF ByteInv, NothingDropped, TypeOK, TableTypeOK
  <2>5. QED
    BY <2>1, <2>2, <2>3, <2>4 DEF TypeOK
<1>7. CASE Pipe
  <2> USE <1>7 DEF Pipe
  <2>1. (LifeTypeOK(ServerStates, {"send"}) /\ LifeInv /\ MutexInv)'
    BY DEF LifeInv, MutexInv, TypeOK, LifeTypeOK
  <2>2. (TableTypeOK /\ PollInv /\ CurInv)'
    BY DEF TypeOK, TableTypeOK, NetTypeOK, CurInv, PollInv
  <2>3. (NetTypeOK /\ ConnInv)'
    BY DEF ConnInv, IdsKeepTheirPeer, TypeOK, TableTypeOK, NetTypeOK
  <2>4. ByteInv'
    BY DEF ByteInv, NothingDropped, TypeOK, TableTypeOK
  <2>5. QED
    BY <2>1, <2>2, <2>3, <2>4 DEF TypeOK
<1>8. ASSUME NEW f \in Fds, Scan(f) PROVE IInv'
  <2> USE <1>8 DEF Scan
  <2>1. (LifeTypeOK(ServerStates, {"send"}) /\ LifeInv /\ MutexInv)'
    BY DEF LifeInv, MutexInv, TypeOK, LifeTypeOK
  <2>2. (TableTypeOK /\ PollInv /\ CurInv)'
    BY DEF TypeOK, TableTypeOK, NetTypeOK, CurInv, PollInv
  <2>3. (NetTypeOK /\ ConnInv)'
    BY DEF ConnInv, IdsKeepTheirPeer, TypeOK, TableTypeOK, NetTypeOK
  <2>4. ByteInv'
    BY DEF ByteInv, NothingDropped, TypeOK, TableTypeOK
  <2>5. QED
    BY <2>1, <2>2, <2>3, <2>4 DEF TypeOK
<1>9. CASE Hup
  <2> USE <1>9 DEF Hup, Forget
  <2>1. cur \in Fds /\ cur \in pfds \ removePfds
    BY DEF CurInv, TypeOK, TableTypeOK
  <2>2. (LifeTypeOK(ServerStates, {"send"}) /\ LifeInv /\ MutexInv)'
    BY DEF LifeInv, MutexInv, TypeOK, LifeTypeOK
  <2>3. TableTypeOK'
    BY <2>1 DEF TypeOK, TableTypeOK
  <2>4. (PollInv /\ CurInv)'
    BY <2>1 DEF PollInv, CurInv
  <2>5. (NetTypeOK /\ ConnInv)'
    BY DEF ConnInv, IdsKeepTheirPeer, TypeOK, TableTypeOK, NetTypeOK
  <2>6. ByteInv'
    BY DEF ByteInv, NothingDropped, TypeOK, TableTypeOK
  <2>7. QED
    BY <2>1, <2>2, <2>3, <2>4, <2>5, <2>6 DEF TypeOK
<1>10. CASE Read
  <2> USE <1>10 DEF Read
  <2> DEFINE p == conn[cur]
  <2>1. cur \in Fds /\ cur \in clients /\ cur \in pfds \ removePfds /\ p \in Peers
    BY DEF CurInv, PollInv, ConnInv, TypeOK, TableTypeOK
  <2>2. /\ Received(p) \in -1 .. BufLen
        /\ Bytes(Received(p)) \in Nat
        /\ Bytes(Received(p)) <= Unread(p)
    BY <2>1, ReceivedBytes
  <2>20. p \in Peers /\ Received(p) \in Int
    BY <2>1, <2>2
  <2> HIDE DEF p
  <2>3. CASE TakeMessage(p)
    <3> USE <2>3 DEF TakeMessage
    <3>1. (LifeTypeOK(ServerStates, {"send"}) /\ LifeInv /\ MutexInv)'
      BY DEF LifeInv, MutexInv, TypeOK, LifeTypeOK
    <3>2. (TableTypeOK /\ PollInv /\ CurInv)'
      BY <2>2 DEF TypeOK, TableTypeOK, CurInv, PollInv
    <3>3. NetTypeOK'
      BY <2>1, <2>2 DEF TypeOK, NetTypeOK
    <3>4. ConnInv'
      BY DEF ConnInv, IdsKeepTheirPeer
    <3>5. ByteInv'
      <4>1. \A q \in Peers : taken'[q] = taken[q] + (IF q = p THEN Bytes(got') ELSE 0)
        BY <2>1, <2>2 DEF TypeOK, NetTypeOK
      <4>2. \A q \in Peers : taken'[q] <= sent'[q]
        BY <4>1, <2>1, <2>2 DEF ByteInv, TypeOK, NetTypeOK, Unread
      <4>3. NothingDropped'
        BY <4>1, <2>1, <2>2 DEF ByteInv, NothingDropped, TypeOK, NetTypeOK, p
      <4>4. QED
        BY <4>2, <4>3 DEF ByteInv
    <3>6. QED
      BY <3>1, <3>2, <3>3, <3>4, <3>5 DEF TypeOK
  <2>4. CASE Transport = "tcp" /\ ~TakeMessage(p)
    <3>0. /\ Goto("read", "scan")
          /\ Forget(cur)
          /\ mutex' = FALSE
          /\ cur' = NoFd
          /\ UNCHANGED <<got, taken>>
      BY <2>4, <2>20 DEF TcpReadable, p
    <3> USE <3>0 DEF Forget
    <3>1. (LifeTypeOK(ServerStates, {"send"}) /\ LifeInv /\ MutexInv)'
      BY DEF LifeInv, MutexInv, TypeOK, LifeTypeOK
    <3>2. (TableTypeOK /\ PollInv /\ CurInv)'
      BY <2>1 DEF TypeOK, TableTypeOK, CurInv, PollInv
    <3>3. (NetTypeOK /\ ConnInv)'
      BY <2>1 DEF TypeOK, NetTypeOK, ConnInv, IdsKeepTheirPeer
    <3>4. ByteInv'
      BY <2>1 DEF ByteInv, NothingDropped
    <3>5. QED
      BY <3>1, <3>2, <3>3, <3>4 DEF TypeOK
  <2>5. QED
    BY <2>3, <2>4 DEF UnixStreamReadable, p
<1>11. CASE Callback
  <2> USE <1>11 DEF Callback
  <2>1. cur \in Fds /\ conn[cur] \in Peers
    BY DEF CurInv, PollInv, ConnInv, TypeOK, TableTypeOK
  <2>2. (LifeTypeOK(ServerStates, {"send"}) /\ LifeInv /\ MutexInv)'
    BY DEF LifeInv, MutexInv, TypeOK, LifeTypeOK
  <2>3. (TableTypeOK /\ PollInv /\ CurInv)'
    BY DEF TypeOK, TableTypeOK, NetTypeOK, CurInv, PollInv, ConnInv
  <2>4. NetTypeOK'
    <3>1. Bytes(got) \in Nat
      BY DEF TypeOK, TableTypeOK, Bytes
    <3>2. QED
      BY <2>1, <3>1 DEF TypeOK, NetTypeOK
  <2>5. ConnInv'
    BY DEF ConnInv, IdsKeepTheirPeer
  <2>6. ByteInv'
    BY DEF ByteInv, NothingDropped, TypeOK, TableTypeOK, NetTypeOK
  <2>7. QED
    BY <2>1, <2>2, <2>3, <2>4, <2>5, <2>6 DEF TypeOK
<1>12. ASSUME NEW i \in KnownIds, ReplyFind(i) PROVE IInv'
  <2> USE <1>12 DEF ReplyFind
  <2>1. (LifeTypeOK(ServerStates, {"send"}) /\ LifeInv /\ MutexInv)'
    BY DEF LifeInv, MutexInv, TypeOK, LifeTypeOK
  <2>2. (TableTypeOK /\ PollInv /\ CurInv)'
    BY DEF TypeOK, TableTypeOK, NetTypeOK, CurInv, PollInv
  <2>3. (NetTypeOK /\ ConnInv)'
    BY DEF ConnInv, IdsKeepTheirPeer, TypeOK, TableTypeOK, NetTypeOK
  <2>4. ByteInv'
    BY DEF ByteInv, NothingDropped, TypeOK, TableTypeOK
  <2>5. QED
    BY <2>1, <2>2, <2>3, <2>4 DEF TypeOK
<1>13. CASE ReplySend
  <2> USE <1>13 DEF ReplySend, SendByte, CanSend
  <2>1. (LifeTypeOK(ServerStates, {"send"}) /\ LifeInv /\ MutexInv)'
    BY DEF LifeInv, MutexInv, TypeOK, LifeTypeOK
  <2>2. (TableTypeOK /\ PollInv /\ CurInv)'
    BY DEF TypeOK, TableTypeOK, NetTypeOK, CurInv, PollInv
  <2>3. (NetTypeOK /\ ConnInv)'
    BY DEF ConnInv, IdsKeepTheirPeer, TypeOK, TableTypeOK, NetTypeOK, PeerStates, CurInv
  <2>4. ByteInv'
    BY DEF ByteInv, NothingDropped, TypeOK, TableTypeOK
  <2>5. QED
    BY <2>1, <2>2, <2>3, <2>4 DEF TypeOK
<1>14. CASE NoReply
  <2> USE <1>14 DEF NoReply
  <2>1. (LifeTypeOK(ServerStates, {"send"}) /\ LifeInv /\ MutexInv)'
    BY DEF LifeInv, MutexInv, TypeOK, LifeTypeOK
  <2>2. (TableTypeOK /\ PollInv /\ CurInv)'
    BY DEF TypeOK, TableTypeOK, NetTypeOK, CurInv, PollInv
  <2>3. (NetTypeOK /\ ConnInv)'
    BY DEF ConnInv, IdsKeepTheirPeer, TypeOK, TableTypeOK, NetTypeOK
  <2>4. ByteInv'
    BY DEF ByteInv, NothingDropped, TypeOK, TableTypeOK
  <2>5. QED
    BY <2>1, <2>2, <2>3, <2>4 DEF TypeOK
<1>15. CASE Merge
  <2> USE <1>15 DEF Merge, LoopHead
  <2>1. (LifeTypeOK(ServerStates, {"send"}) /\ LifeInv /\ MutexInv)'
    BY DEF LifeInv, MutexInv, TypeOK, LifeTypeOK
  <2>2. (TableTypeOK /\ PollInv /\ CurInv)'
    BY DEF TypeOK, TableTypeOK, NetTypeOK, CurInv, PollInv
  <2>3. (NetTypeOK /\ ConnInv)'
    BY DEF ConnInv, IdsKeepTheirPeer, TypeOK, TableTypeOK, NetTypeOK
  <2>4. ByteInv'
    BY DEF ByteInv, NothingDropped, TypeOK, TableTypeOK
  <2>5. QED
    BY <2>1, <2>2, <2>3, <2>4 DEF TypeOK
<1>16. QED
    BY <1>1, <1>2, <1>3, <1>4, <1>5, <1>6, <1>7, <1>8, <1>9, <1>10, <1>11, <1>12, <1>13, <1>14, <1>15 DEF
       ServerStep

(***************************************************************************)
(* Neither does a poll() that fails, a callback that stops the server, nor *)
(* a call of the application: start, stop, destruction, getClientIds and   *)
(* sendMessageToClient, its dangling iterator included.                    *)
(***************************************************************************)
LEMMA OwnerStepInv ==
    ASSUME IInv, fault = "none", PollFails \/ CallbackStops \/ Manage \/ AppStep \/ GetClientIds
           \/ \E i \in KnownIds : SendFind(i)
    PROVE  IInv'
<1> USE StreamAssumption, MaxStartsAssumption
<1> USE DEF StreamAssumption, MaxStartsAssumption, IInv, ServerStates, Handling, Entering, ThreadGone,
       lifeVars, objVars, loopVars, appVars, netVars, NoEvents, Goto
<1>1. CASE PollFails
  <2> USE <1>1 DEF PollFails, PollError
  <2>1. (LifeTypeOK(ServerStates, {"send"}) /\ LifeInv /\ MutexInv)'
    BY DEF LifeInv, MutexInv, TypeOK, LifeTypeOK
  <2>2. (TableTypeOK /\ PollInv /\ CurInv)'
    BY DEF TypeOK, TableTypeOK, NetTypeOK, CurInv, PollInv
  <2>3. (NetTypeOK /\ ConnInv)'
    BY DEF ConnInv, IdsKeepTheirPeer, TypeOK, TableTypeOK, NetTypeOK
  <2>4. ByteInv'
    BY DEF ByteInv, NothingDropped, TypeOK, TableTypeOK, NetTypeOK
  <2>5. QED
    BY <2>1, <2>2, <2>3, <2>4 DEF TypeOK
<1>2. CASE StartServer /\ UNCHANGED <<objVars, loopVars, appVars, netVars>>
  <2> USE <1>2 DEF StartServer
  <2>1. LifeTypeOK(ServerStates, {"send"})'
    <3>1. starts' \in 0 .. MaxStarts
      BY DEF TypeOK, LifeTypeOK
    <3>2. running' \in BOOLEAN /\ joinable' \in BOOLEAN /\ pipeOpen' \in BOOLEAN
      BY DEF TypeOK, LifeTypeOK
    <3>3. /\ spc' \in {spc, "entry"}
          /\ fault' \in {"none", "terminate"}
      OBVIOUS
    <3>4. QED
      BY <3>1, <3>2, <3>3 DEF TypeOK, LifeTypeOK
  <2>2. (LifeInv /\ MutexInv)'
    BY DEF LifeInv, MutexInv
  <2>3. (TableTypeOK /\ PollInv /\ CurInv)'
    BY DEF TypeOK, TableTypeOK, NetTypeOK, CurInv, PollInv, LifeInv
  <2>4. (NetTypeOK /\ ConnInv)'
    BY DEF ConnInv, IdsKeepTheirPeer, TypeOK, TableTypeOK, NetTypeOK
  <2>5. ByteInv'
    BY DEF ByteInv, NothingDropped, TypeOK, TableTypeOK, NetTypeOK, LifeInv
  <2>6. QED
    BY <2>1, <2>2, <2>3, <2>4, <2>5 DEF TypeOK
<1>3. CASE StopServer /\ UNCHANGED <<objVars, loopVars, appVars, netVars>>
  <2> USE <1>3 DEF StopServer
  <2>1. (LifeTypeOK(ServerStates, {"send"}) /\ LifeInv /\ MutexInv)'
    BY DEF LifeInv, MutexInv, TypeOK, LifeTypeOK
  <2>2. (TableTypeOK /\ PollInv /\ CurInv)'
    BY DEF TypeOK, TableTypeOK, NetTypeOK, CurInv, PollInv
  <2>3. (NetTypeOK /\ ConnInv)'
    BY DEF ConnInv, IdsKeepTheirPeer, TypeOK, TableTypeOK, NetTypeOK
  <2>4. ByteInv'
    BY DEF ByteInv, NothingDropped, TypeOK, TableTypeOK
  <2>5. QED
    BY <2>1, <2>2, <2>3, <2>4 DEF TypeOK
<1>4. CASE DtorStop /\ UNCHANGED <<objVars, loopVars, appVars, netVars>>
  <2> USE <1>4 DEF DtorStop
  <2>1. (LifeTypeOK(ServerStates, {"send"}) /\ LifeInv /\ MutexInv)'
    BY DEF LifeInv, MutexInv, TypeOK, LifeTypeOK
  <2>2. (TableTypeOK /\ PollInv /\ CurInv)'
    BY DEF TypeOK, TableTypeOK, NetTypeOK, CurInv, PollInv
  <2>3. (NetTypeOK /\ ConnInv)'
    BY DEF ConnInv, IdsKeepTheirPeer, TypeOK, TableTypeOK, NetTypeOK
  <2>4. ByteInv'
    BY DEF ByteInv, NothingDropped, TypeOK, TableTypeOK, NetTypeOK
  <2>5. QED
    BY <2>1, <2>2, <2>3, <2>4 DEF TypeOK
<1>5. CASE Joins
  <2> USE <1>5 DEF Joins, StopJoin, DtorJoin, Joined
  <2>1. LifeTypeOK(ServerStates, {"send"})'
    BY DEF TypeOK, LifeTypeOK
  <2>2. (LifeInv /\ MutexInv)'
    BY DEF LifeInv, MutexInv
  <2>3. (TableTypeOK /\ PollInv /\ CurInv)'
    BY DEF TypeOK, TableTypeOK, NetTypeOK, CurInv, PollInv
  <2>4. (NetTypeOK /\ ConnInv)'
    BY DEF ConnInv, IdsKeepTheirPeer, TypeOK, TableTypeOK, NetTypeOK
  <2>5. ByteInv'
    BY DEF ByteInv, NothingDropped, TypeOK, TableTypeOK
  <2>6. QED
    BY <2>1, <2>2, <2>3, <2>4, <2>5 DEF TypeOK
<1>6. CASE Destroy
  <2> USE <1>6 DEF Destroy, DtorClose
  <2>1. (LifeTypeOK(ServerStates, {"send"}) /\ LifeInv /\ MutexInv)'
    BY DEF LifeInv, MutexInv, TypeOK, LifeTypeOK
  <2>2. (TableTypeOK /\ PollInv /\ CurInv)'
    BY DEF TypeOK, TableTypeOK, NetTypeOK, CurInv, PollInv, LifeInv
  <2>3. (NetTypeOK /\ ConnInv)'
    BY DEF ConnInv, IdsKeepTheirPeer, TypeOK, TableTypeOK, NetTypeOK
  <2>4. ByteInv'
    BY DEF ByteInv, NothingDropped, TypeOK, TableTypeOK, NetTypeOK
  <2>5. QED
    BY <2>1, <2>2, <2>3, <2>4 DEF TypeOK
<1>7. CASE GetClientIds
  <2> USE <1>7 DEF GetClientIds
  <2>1. (LifeTypeOK(ServerStates, {"send"}) /\ LifeInv /\ MutexInv)'
    BY DEF LifeInv, MutexInv, TypeOK, LifeTypeOK
  <2>2. (TableTypeOK /\ PollInv /\ CurInv)'
    BY DEF TypeOK, TableTypeOK, NetTypeOK, CurInv, PollInv, ConnInv
  <2>3. (NetTypeOK /\ ConnInv)'
    BY DEF ConnInv, IdsKeepTheirPeer, TypeOK, TableTypeOK, NetTypeOK
  <2>4. ByteInv'
    BY DEF ByteInv, NothingDropped, TypeOK, TableTypeOK
  <2>5. QED
    BY <2>1, <2>2, <2>3, <2>4 DEF TypeOK
<1>8. ASSUME NEW i \in KnownIds, SendFind(i) PROVE IInv'
  <2> USE <1>8 DEF SendFind
  <2>1. (LifeTypeOK(ServerStates, {"send"}) /\ LifeInv /\ MutexInv)'
    BY DEF LifeInv, MutexInv, TypeOK, LifeTypeOK
  <2>2. (TableTypeOK /\ PollInv /\ CurInv)'
    BY DEF TypeOK, TableTypeOK, NetTypeOK, CurInv, PollInv
  <2>3. (NetTypeOK /\ ConnInv)'
    BY DEF ConnInv, IdsKeepTheirPeer, TypeOK, TableTypeOK, NetTypeOK
  <2>4. ByteInv'
    BY DEF ByteInv, NothingDropped, TypeOK, TableTypeOK
  <2>5. QED
    BY <2>1, <2>2, <2>3, <2>4 DEF TypeOK
<1>9. CASE SendThrough
  <2> USE <1>9 DEF SendThrough, SendReturn, SendByte, CanSend
  <2>1. (LifeTypeOK(ServerStates, {"send"}) /\ LifeInv /\ MutexInv)'
    BY DEF LifeInv, MutexInv, TypeOK, LifeTypeOK
  <2>2. (TableTypeOK /\ PollInv /\ CurInv)'
    BY DEF TypeOK, TableTypeOK, NetTypeOK, CurInv, PollInv
  <2>3. (NetTypeOK /\ ConnInv)'
    BY DEF ConnInv, IdsKeepTheirPeer, TypeOK, TableTypeOK, NetTypeOK, PeerStates
  <2>4. ByteInv'
    BY DEF ByteInv, NothingDropped, TypeOK, TableTypeOK
  <2>5. QED
    BY <2>1, <2>2, <2>3, <2>4 DEF TypeOK
<1>10. CASE SendDangling
  <2> USE <1>10 DEF SendDangling, SendReturn, SendByte, CanSend, FreeFds
  <2>1. (LifeTypeOK(ServerStates, {"send"}) /\ LifeInv /\ MutexInv)'
    BY DEF LifeInv, MutexInv, TypeOK, LifeTypeOK
  <2>2. (TableTypeOK /\ PollInv /\ CurInv)'
    BY DEF TypeOK, TableTypeOK, NetTypeOK, CurInv, PollInv
  <2>3. (NetTypeOK /\ ConnInv)'
    BY DEF ConnInv, IdsKeepTheirPeer, TypeOK, TableTypeOK, NetTypeOK, PeerStates
  <2>4. ByteInv'
    BY DEF ByteInv, NothingDropped, TypeOK, TableTypeOK, NetTypeOK
  <2>5. QED
    BY <2>1, <2>2, <2>3, <2>4 DEF TypeOK
<1>11. CASE CallbackStops
  <2> USE <1>11 DEF CallbackStops, StopInCallback
  <2>1. (LifeTypeOK(ServerStates, {"send"}) /\ LifeInv /\ MutexInv)'
    BY DEF LifeInv, MutexInv, TypeOK, LifeTypeOK
  <2>2. (TableTypeOK /\ PollInv /\ CurInv)'
    BY DEF TypeOK, TableTypeOK, NetTypeOK, CurInv, PollInv
  <2>3. (NetTypeOK /\ ConnInv)'
    BY DEF ConnInv, IdsKeepTheirPeer, TypeOK, TableTypeOK, NetTypeOK
  <2>4. ByteInv'
    BY DEF ByteInv, NothingDropped, TypeOK, TableTypeOK, NetTypeOK
  <2>5. QED
    BY <2>1, <2>2, <2>3, <2>4 DEF TypeOK
<1>12. QED
    BY <1>1, <1>2, <1>3, <1>4, <1>5, <1>6, <1>7, <1>8, <1>9, <1>10, <1>11 DEF AppStep, Manage

\* Nor what the peers and the network do.
LEMMA NetworkInv ==
    ASSUME IInv, fault = "none", NEW p \in Peers, Network(p)
    PROVE  IInv'
<1> USE StreamAssumption, MaxStartsAssumption
<1> USE DEF StreamAssumption, MaxStartsAssumption, IInv, ServerStates, Handling, Entering, ThreadGone,
       lifeVars, objVars, loopVars, appVars, netVars, NoEvents, Goto
<1>1. CASE PeerConnect(p) /\ Network(p)
  <2> USE <1>1 DEF PeerConnect, Network
  <2>1. (LifeTypeOK(ServerStates, {"send"}) /\ LifeInv /\ MutexInv)'
    BY DEF LifeInv, MutexInv, TypeOK, LifeTypeOK
  <2>2. (TableTypeOK /\ PollInv /\ CurInv)'
    BY DEF TypeOK, TableTypeOK, NetTypeOK, CurInv, PollInv
  <2>3. (NetTypeOK /\ ConnInv)'
    BY DEF ConnInv, IdsKeepTheirPeer, TypeOK, TableTypeOK, NetTypeOK, PeerStates
  <2>4. ByteInv'
    BY DEF ByteInv, NothingDropped, TypeOK, TableTypeOK
  <2>5. QED
    BY <2>1, <2>2, <2>3, <2>4 DEF TypeOK
<1>2. CASE PeerSend(p) /\ Network(p)
  <2> USE <1>2 DEF PeerSend, Network
  <2>1. (LifeTypeOK(ServerStates, {"send"}) /\ LifeInv /\ MutexInv)'
    BY DEF LifeInv, MutexInv, TypeOK, LifeTypeOK
  <2>2. (TableTypeOK /\ PollInv /\ CurInv)'
    BY DEF TypeOK, TableTypeOK, NetTypeOK, CurInv, PollInv
  <2>3. (NetTypeOK /\ ConnInv)'
    BY DEF ConnInv, IdsKeepTheirPeer, TypeOK, TableTypeOK, NetTypeOK
  <2>4. ByteInv'
    BY DEF ByteInv, NothingDropped, TypeOK, TableTypeOK, NetTypeOK
  <2>5. QED
    BY <2>1, <2>2, <2>3, <2>4 DEF TypeOK
<1>3. CASE PeerRead(p) /\ Network(p)
  <2> USE <1>3 DEF PeerRead, Network
  <2>1. (LifeTypeOK(ServerStates, {"send"}) /\ LifeInv /\ MutexInv)'
    BY DEF LifeInv, MutexInv, TypeOK, LifeTypeOK
  <2>2. (TableTypeOK /\ PollInv /\ CurInv)'
    BY DEF TypeOK, TableTypeOK, NetTypeOK, CurInv, PollInv
  <2>3. (NetTypeOK /\ ConnInv)'
    BY DEF ConnInv, IdsKeepTheirPeer, TypeOK, TableTypeOK, NetTypeOK
  <2>4. ByteInv'
    BY DEF ByteInv, NothingDropped, TypeOK, TableTypeOK
  <2>5. QED
    BY <2>1, <2>2, <2>3, <2>4 DEF TypeOK
<1>4. CASE PeerFinish(p) /\ Network(p)
  <2> USE <1>4 DEF PeerFinish, Network
  <2>1. (LifeTypeOK(ServerStates, {"send"}) /\ LifeInv /\ MutexInv)'
    BY DEF LifeInv, MutexInv, TypeOK, LifeTypeOK
  <2>2. (TableTypeOK /\ PollInv /\ CurInv)'
    BY DEF TypeOK, TableTypeOK, NetTypeOK, CurInv, PollInv
  <2>3. (NetTypeOK /\ ConnInv)'
    BY DEF ConnInv, IdsKeepTheirPeer, TypeOK, TableTypeOK, NetTypeOK, PeerStates
  <2>4. ByteInv'
    BY DEF ByteInv, NothingDropped, TypeOK, TableTypeOK
  <2>5. QED
    BY <2>1, <2>2, <2>3, <2>4 DEF TypeOK
<1>5. CASE PeerClose(p) /\ Network(p)
  <2> USE <1>5 DEF PeerClose, Network
  <2>1. (LifeTypeOK(ServerStates, {"send"}) /\ LifeInv /\ MutexInv)'
    BY DEF LifeInv, MutexInv, TypeOK, LifeTypeOK
  <2>2. (TableTypeOK /\ PollInv /\ CurInv)'
    BY DEF TypeOK, TableTypeOK, NetTypeOK, CurInv, PollInv
  <2>3. (NetTypeOK /\ ConnInv)'
    BY DEF ConnInv, IdsKeepTheirPeer, TypeOK, TableTypeOK, NetTypeOK, PeerStates
  <2>4. ByteInv'
    BY DEF ByteInv, NothingDropped, TypeOK, TableTypeOK
  <2>5. QED
    BY <2>1, <2>2, <2>3, <2>4 DEF TypeOK
<1>6. CASE PeerReset(p) /\ Network(p)
  <2> USE <1>6 DEF PeerReset, Network
  <2>1. (LifeTypeOK(ServerStates, {"send"}) /\ LifeInv /\ MutexInv)'
    BY DEF LifeInv, MutexInv, TypeOK, LifeTypeOK
  <2>2. (TableTypeOK /\ PollInv /\ CurInv)'
    BY DEF TypeOK, TableTypeOK, NetTypeOK, CurInv, PollInv
  <2>3. (NetTypeOK /\ ConnInv)'
    BY DEF ConnInv, IdsKeepTheirPeer, TypeOK, TableTypeOK, NetTypeOK, PeerStates
  <2>4. ByteInv'
    BY DEF ByteInv, NothingDropped, TypeOK, TableTypeOK
  <2>5. QED
    BY <2>1, <2>2, <2>3, <2>4 DEF TypeOK
<1>7. QED
    BY <1>1, <1>2, <1>3, <1>4, <1>5, <1>6 DEF Network

\* A server just constructed, valid or not, satisfies the invariant.
LEMMA InitInv == Init => IInv
<1>1. SUFFICES ASSUME Init PROVE IInv
    OBVIOUS
<1> USE <1>1, StreamAssumption, MaxStartsAssumption
        DEF StreamAssumption, MaxStartsAssumption, Init, LifeInit, NoEvents, ServerStates, Handling
<1>2. TypeOK
  <2>1. LifeTypeOK(ServerStates, {"send"})
    <3>1. starts \in 0 .. MaxStarts
      OBVIOUS
    <3>2. QED
      BY <3>1 DEF LifeTypeOK
  <2>2. TableTypeOK
    <3>1. got \in -1 .. BufLen
      OBVIOUS
    <3>2. revents \in [listen : BOOLEAN, pipe : BOOLEAN, hup : SUBSET Fds, in : SUBSET Fds]
      OBVIOUS
    <3>3. QED
      BY <3>1, <3>2 DEF TableTypeOK
  <2>3. NetTypeOK
    BY DEF NetTypeOK, PeerStates
  <2>4. QED
    BY <2>1, <2>2, <2>3 DEF TypeOK
<1>3. LifeInv /\ MutexInv
    BY DEF LifeInv, MutexInv, ThreadGone
<1>4. ConnInv
    BY DEF ConnInv, IdsKeepTheirPeer
<1>5. PollInv /\ CurInv
    BY DEF PollInv, CurInv
<1>6. ByteInv
    BY DEF ByteInv, NothingDropped
<1>7. QED
    BY <1>2, <1>3, <1>4, <1>5, <1>6 DEF IInv

\* The invariant speaks of the variables of the specification only.
LEMMA StutterInv == IInv /\ UNCHANGED vars => IInv'
<1> SUFFICES ASSUME IInv, UNCHANGED vars PROVE IInv'
    OBVIOUS
<1> USE DEF vars, lifeVars, objVars, loopVars, appVars, netVars, IInv
<1>1. TypeOK'
    BY DEF TypeOK, LifeTypeOK, TableTypeOK, NetTypeOK
<1>2. (LifeInv /\ MutexInv)'
    BY DEF LifeInv, MutexInv, ThreadGone
<1>3. ConnInv'
    BY DEF ConnInv, IdsKeepTheirPeer
<1>4. (PollInv /\ CurInv)'
    BY DEF PollInv, CurInv, Entering
<1>5. ByteInv'
    BY DEF ByteInv, NothingDropped
<1>6. QED
    BY <1>1, <1>2, <1>3, <1>4, <1>5

\* Hence no step at all does.
LEMMA StepInv == IInv /\ [Next]_vars => IInv'
<1> SUFFICES ASSUME IInv, [Next]_vars PROVE IInv'
    OBVIOUS
<1>1. CASE fault = "none" /\ ServerStep
    BY <1>1, ServerStepInv
<1>2. CASE /\ fault = "none"
           /\ \/ PollFails \/ CallbackStops \/ Manage \/ AppStep \/ GetClientIds
              \/ \E i \in KnownIds : SendFind(i)
    BY <1>2, OwnerStepInv
<1>3. CASE fault = "none" /\ \E p \in Peers : Network(p)
    BY <1>3, NetworkInv
<1>4. CASE Ended \/ UNCHANGED vars
    BY <1>4, StutterInv DEF Ended
<1>5. QED
    BY <1>1, <1>2, <1>3, <1>4 DEF Next

\* The inductive invariant holds in every state of the stream servers.
THEOREM Invariance == Spec => []IInv
    BY InitInv, StepInv, PTL DEF Spec

(***************************************************************************)
(* Type correctness of the stream servers: handlePfdUpdates never stores   *)
(* more than sizeof(msg_) bytes, and clients_ holds descriptors only.      *)
(***************************************************************************)
THEOREM Types == Spec => []TypeOK
<1>1. IInv => TypeOK
    BY DEF IInv
<1>2. QED
    BY <1>1, Invariance, PTL

(***************************************************************************)
(* handlePfdUpdates never reaches clients_[pfd.fd] for a client that is    *)
(* not listed, nor does the callback's sendMessageToClient: the poll set   *)
(* and clients_ agree for as long as an entry is polled.                   *)
(***************************************************************************)
THEOREM Polled == Spec => []PolledAreListed
<1>1. IInv => PolledAreListed
    BY DEF IInv, PolledAreListed, PollInv, CurInv, ThreadGone, ServerStates, Handling,
           TypeOK, LifeTypeOK
<1>2. QED
    BY <1>1, Invariance, PTL

(***************************************************************************)
(* The server thread never holds clientsMutex_ while the callback runs, so *)
(* that the callback may call sendMessageToClient and getClientIds.        *)
(***************************************************************************)
THEOREM CallbackUnlocked == Spec => []CallbackMayCallBack
<1>1. IInv => CallbackMayCallBack
    BY DEF IInv, CallbackMayCallBack, MutexInv
<1>2. QED
    BY <1>1, Invariance, PTL

\* Every byte recv() took off a socket is given to the callback once.
THEOREM Delivery == Spec => []NothingDropped
<1>1. IInv => NothingDropped
    BY DEF IInv, ByteInv
<1>2. QED
    BY <1>1, Invariance, PTL

(***************************************************************************)
(* An id the callback or getClientIds told the program of names the same   *)
(* peer for ever: accept() cannot return its descriptor again.             *)
(***************************************************************************)
THEOREM StableIds == Spec => []IdsKeepTheirPeer
<1>1. IInv => IdsKeepTheirPeer
    BY DEF IInv, ConnInv
<1>2. QED
    BY <1>1, Invariance, PTL

(***************************************************************************)
(* When stopServer or the destructor has joined, the server thread has     *)
(* returned from runServer; closeSocket closes sock_ only after that.      *)
(***************************************************************************)
THEOREM Quiet == Spec => []QuietWhenStopped
<1>1. IInv => QuietWhenStopped
    BY DEF IInv, LifeInv, QuietWhenStopped
<1>2. QED
    BY <1>1, Invariance, PTL

(***************************************************************************)
(* stopServer, also when the destructor calls it, closes the write end of  *)
(* the pipe only while it is open.                                         *)
(***************************************************************************)
THEOREM PipeOnce == Spec => []PipeClosedOnce
<1>1. IInv => PipeClosedOnce
    BY DEF IInv, LifeInv, PipeClosedOnce
<1>2. QED
    BY <1>1, Invariance, PTL

-----------------------------------------------------------------------------
(* No client of the first run is listed and not polled.                    *)

(***************************************************************************)
(* The server thread adds to clients_ only what it has added to newPfds,   *)
(* and the merge at the end of the round loses none of it.                 *)
(***************************************************************************)
LEMMA ListedServerStep ==
    ASSUME IInv, ListedInv, fault = "none", ServerStep
    PROVE  ListedInv'
<1>1. starts' = starts /\ starts # 0
    BY DEF ListedInv, ThreadGone, ServerStep, Entry, RunServerEntry, Poll, Accept, NoAccept, Lock,
       LockedStates, Insert, Pipe, Scan, Hup, Read, TcpReadable, UnixStreamReadable, TakeMessage,
       Callback, ReplyFind, ReplySend, NoReply, Merge, Goto
<1>2. CASE Entry
    BY <1>1, <1>2 DEF Entry, RunServerEntry, LoopHead, ListedInv, ListedArePolled, objVars
<1>3. CASE Accept
  <2>1. removePfds = {} /\ removePfds' = {}
    BY <1>3 DEF Accept, Goto, IInv, PollInv, ServerStates
  <2>2. PICK f \in FreeFds : cur' = f /\ newPfds' = newPfds \cup {f}
    BY <1>3 DEF Accept
  <2>3. QED
    BY <1>1, <1>3, <2>1, <2>2 DEF Accept, Goto, ListedInv, ListedArePolled, objVars
<1>4. CASE Insert
  <2>1. removePfds = {}
    BY <1>4 DEF Insert, Goto, IInv, PollInv
  <2>2. QED
    BY <1>1, <1>4, <2>1 DEF Insert, Goto, ListedInv, ListedArePolled
<1>5. CASE Hup \/ Read
    BY <1>1, <1>5 DEF Hup, Read, TcpReadable, UnixStreamReadable, TakeMessage, Forget, Goto,
       ListedInv, ListedArePolled
<1>6. CASE Merge
    BY <1>1, <1>6 DEF Merge, Goto, LoopHead, ListedInv, ListedArePolled, objVars
<1>7. CASE ServerStep /\ ~(Entry \/ Accept \/ Insert \/ Hup \/ Read \/ Merge)
  <2>1. /\ UNCHANGED <<clients, pfds, newPfds, removePfds>>
        /\ spc' # "entry"
        /\ spc' \in {"insertLock", "insert"} => spc \in {"insertLock", "insert"} /\ cur' = cur
    BY <1>7 DEF ServerStep, Poll, NoAccept, Lock, LockedStates, Pipe, Scan, Callback, ReplyFind,
       ReplySend, NoReply, Goto, objVars, loopVars
  <2>2. QED
    BY <1>1, <2>1 DEF ListedInv, ListedArePolled
<1>8. QED
    BY <1>2, <1>3, <1>4, <1>5, <1>6, <1>7

\* The application starts the first run with an empty table, and changes it no more.
LEMMA ListedOtherStep ==
    ASSUME IInv, ListedInv, fault = "none", Next, ~ServerStep
    PROVE  ListedInv'
<1>1. CASE StartServer /\ UNCHANGED <<objVars, loopVars, appVars, netVars>>
  <2>1. /\ starts \in Nat /\ starts' = starts + 1
        /\ UNCHANGED <<clients, pfds, newPfds, removePfds, cur>>
        /\ spc' \in {spc, "entry"}
    BY <1>1, MaxStartsAssumption
       DEF MaxStartsAssumption, StartServer, IInv, TypeOK, LifeTypeOK, objVars, loopVars
  <2>2. QED
    BY <2>1 DEF ListedInv, ListedArePolled, ThreadGone
<1>2. CASE Destroy
    BY <1>2 DEF Destroy, DtorClose, loopVars, ListedInv, ListedArePolled, ThreadGone
<1>3. CASE /\ ~Destroy
           /\ ~(StartServer /\ UNCHANGED <<objVars, loopVars, appVars, netVars>>)
  <2>1. /\ UNCHANGED <<clients, pfds, newPfds, removePfds, cur, starts>>
        /\ spc' \in {spc, "exited"}
    BY <1>3 DEF Next, Ended, vars, lifeVars, objVars, loopVars, PollFails, PollError, CallbackStops,
       StopInCallback, Manage, AppStep, StopServer, DtorStop, Joins, StopJoin, DtorJoin,
       GetClientIds, SendFind, SendThrough, SendDangling, SendReturn, Network
  <2>2. QED
    BY <2>1 DEF ListedInv, ListedArePolled, ThreadGone
<1>4. QED
    BY <1>1, <1>2, <1>3

\* So the two grow together in every step.
LEMMA ListedStep ==
    ASSUME IInv, ListedInv, [Next]_vars
    PROVE  ListedInv'
<1>1. CASE UNCHANGED vars
    BY <1>1 DEF vars, lifeVars, objVars, loopVars, ListedInv, ListedArePolled, ThreadGone
<1>2. CASE fault # "none" /\ Next
    BY <1>1, <1>2 DEF Next, Ended
<1>3. QED
    BY <1>1, <1>2, ListedServerStep, ListedOtherStep

(***************************************************************************)
(* While the server runs for the first time, every client in clients_ is   *)
(* in the poll set or about to be merged into it: none is listed and deaf. *)
(***************************************************************************)
THEOREM Listed == Spec => []ListedArePolled
<1>1. Init => ListedInv
    BY DEF Init, LifeInit, ListedInv, ListedArePolled, ThreadGone
<1>2. ListedInv => ListedArePolled
    BY DEF ListedInv
<1>3. QED
    BY <1>1, <1>2, ListedStep, Invariance, PTL DEF Spec

\* A TCP server goes to the callback only with bytes in msg_.
LEMMA HasDataStep ==
    ASSUME Transport = "tcp", IInv, CallbackHasData, [Next]_vars
    PROVE  CallbackHasData'
<1>1. CASE Read
  <2> DEFINE p == conn[cur]
  <2>1. p \in Peers
    BY <1>1 DEF Read, TcpReadable, TakeMessage, Goto, IInv, CurInv, PollInv, ConnInv,
       TypeOK, TableTypeOK, Handling, ServerStates
  <2>2. Received(p) \in 0 .. BufLen
    <3>1. Unread(p) \in Nat /\ BufLen \in Nat
      BY <2>1, StreamAssumption DEF IInv, ByteInv, TypeOK, NetTypeOK, Unread
    <3> QED
      BY <3>1 DEF Received, RecvFails, Min2
  <2>3. TcpReadable(p)
    BY <1>1 DEF Read
  <2>4. CASE Received(p) = 0 /\ spc' # "callback"
    BY <2>4 DEF CallbackHasData
  <2>5. CASE Received(p) # 0 /\ got' = Received(p)
    BY <2>2, <2>5 DEF CallbackHasData
  <2> QED
    BY <2>3, <2>4, <2>5 DEF TcpReadable, TakeMessage, Goto
<1>2. CASE ~Read
  <2>1. spc' = "callback" => spc = "callback" /\ got' = got
    BY <1>2
       DEF Next, vars, lifeVars, objVars, loopVars, Ended, ServerStep, Entry, RunServerEntry,
       LoopHead, Poll, Accept, NoAccept, Lock, LockedStates, Insert, Pipe, Scan, Hup, Callback,
       ReplyFind, ReplySend, NoReply, Merge, Goto, PollFails, PollError, CallbackStops,
       StopInCallback, Manage, AppStep, StartServer, StopServer, DtorStop, Destroy, DtorClose,
       Joins, StopJoin, DtorJoin, GetClientIds, SendFind, SendThrough, SendDangling, SendReturn,
       Network
  <2> QED
    BY <2>1 DEF CallbackHasData
<1>3. QED
    BY <1>1, <1>2

(***************************************************************************)
(* A TCP server calls back with what recv() returned only when that is     *)
(* neither 0 nor -1, and never with more than msg_ holds.                  *)
(***************************************************************************)
THEOREM HasData ==
    ASSUME Transport = "tcp"
    PROVE  Spec => []CallbackHasData
<1>1. Init => CallbackHasData
    BY DEF Init, LifeInit, CallbackHasData
<1>2. QED
    BY <1>1, HasDataStep, Invariance, PTL DEF Spec

-----------------------------------------------------------------------------
(* What is forgotten, and the refinement.                                  *)

(***************************************************************************)
(* A step of a TCP server that erases a client comes after a hang-up       *)
(* poll() reported, which is a reset, or after a recv() that returned 0.   *)
(***************************************************************************)
LEMMA TcpLeaves ==
    ASSUME Transport = "tcp", IInv, Next
    PROVE  \A f \in Fds : f \in clients \ clients' /\ apc' # "destroyed"
              => Unread(conn[f])' = 0 \/ peer[conn[f]] = "reset"
<1>1. CASE Hup
  <2>1. cur \in revents.hup /\ clients' = clients \ {cur}
    BY <1>1 DEF Hup, Forget, Goto, IInv, ByteInv
  <2>2. QED
    BY <2>1 DEF IInv, ByteInv
<1>2. CASE Read
  <2> DEFINE p == conn[cur]
  <2>1. cur \in Fds /\ p \in Peers
    BY <1>2 DEF Read, TcpReadable, TakeMessage, Goto, IInv, CurInv, PollInv, ConnInv,
       TypeOK, TableTypeOK, Handling, ServerStates
  <2>2. CASE Received(p) = 0
    <3>1. Unread(p) = 0
      BY <2>1, <2>2, ReceivedBytes
    <3>2. (clients' = clients \ {cur} /\ UNCHANGED <<conn, sent, taken>>) \/ clients' = clients
      BY <1>2 DEF Read, TcpReadable, TakeMessage, Forget
    <3>3. QED
      BY <3>1, <3>2 DEF Unread
  <2>3. CASE Received(p) # 0
    BY <1>2, <2>3 DEF Read, TcpReadable, TakeMessage
  <2>4. QED
    BY <2>2, <2>3
<1>3. CASE Destroy
    BY <1>3 DEF Destroy, DtorClose
<1>4. CASE ~(Hup \/ Read \/ Destroy)
  <2>1. clients \subseteq clients'
    BY <1>4 DEF Next, Ended, vars, objVars, ServerStep, Entry, Poll, Accept, NoAccept,
       Lock, Insert, Pipe, Scan, Callback, ReplyFind, ReplySend, NoReply, Merge,
       PollFails, CallbackStops, Manage, AppStep, Joins, GetClientIds, SendFind, SendThrough,
       SendDangling, SendReturn, Network
  <2>2. QED
    BY <2>1
<1>5. QED
    BY <1>1, <1>2, <1>3, <1>4

(***************************************************************************)
(* The TCP server forgets a client only when it has read all the client    *)
(* sent, unless the connection was reset.                                  *)
(***************************************************************************)
THEOREM TcpForgetsDrained ==
    ASSUME Transport = "tcp"
    PROVE  Spec => ForgottenWhenDrained
<1>1. IInv /\ [Next]_vars
         => [\A f \in Fds : f \in clients \ clients' /\ apc' # "destroyed"
               => Unread(conn[f])' = 0 \/ peer[conn[f]] = "reset"]_vars
    BY TcpLeaves
<1>2. QED
    BY <1>1, Invariance, PTL DEF Spec, ForgottenWhenDrained

(***************************************************************************)
(* A step that leaves clients_, the connections, the delivered bytes and   *)
(* the life of the thread alone is a stutter of the service.               *)
(***************************************************************************)
LEMMA SilentSteps ==
    ASSUME UNCHANGED <<clients, conn, given>>, Entering' = Entering, ThreadGone' = ThreadGone
    PROVE  UNCHANGED Service!svcVars
    BY DEF Service!svcVars

(***************************************************************************)
(* Every step of the server under the invariant is a step of the service   *)
(* it implements, or a stutter.                                            *)
(***************************************************************************)
LEMMA ServiceStep ==
    ASSUME IInv, fault = "none", Next
    PROVE  [Service!Next]_Service!svcVars
<1> DEFINE owner == [f \in Fds |-> IF f \in Entering THEN NoPeer ELSE conn[f]]
<1> USE DEF Goto, LoopHead
<1>1. CASE StartServer /\ UNCHANGED <<objVars, loopVars, appVars, netVars>>
  <2>1. UNCHANGED <<clients, given, conn>> /\ Entering' = Entering
    BY <1>1 DEF StartServer, objVars, loopVars, netVars, Entering, IInv, LifeInv,
       ThreadGone
  <2>2. CASE spc' = spc
    BY <2>1, <2>2 DEF Service!svcVars, ThreadGone
  <2>3. CASE spc' # spc
    BY <1>1, <2>1, <2>3 DEF StartServer, ThreadGone, IInv, LifeInv, Service!Next,
       Service!Start
  <2>4. QED
    BY <2>2, <2>3
<1>2. CASE Entry \/ PollFails \/ Merge
  <2>1. UNCHANGED <<clients, given, conn>> /\ Entering = {} /\ Entering' = {} /\ ~ThreadGone
    BY <1>2 DEF Entry, RunServerEntry, PollFails, PollError, Merge, objVars, loopVars,
       netVars, Entering, ThreadGone
  <2>2. QED
    BY <2>1 DEF Service!Next, Service!Stop, Service!svcVars
<1>3. CASE Accept
  <2>1. PICK f \in FreeFds, q \in backlog : cur' = f /\ conn' = [conn EXCEPT ![f] = q]
    BY <1>3 DEF Accept
  <2>2. Entering = {} /\ Entering' = {f} /\ UNCHANGED <<clients, given>> /\ ~ThreadGone /\ ~ThreadGone'
    BY <1>3, <2>1 DEF Accept, Entering, objVars, ThreadGone
  <2>3. owner' = owner
    BY <2>1, <2>2 DEF FreeFds
  <2>4. QED
    BY <2>2, <2>3 DEF Service!svcVars
<1>4. CASE Insert
  <2>1. /\ cur \in Fds /\ conn[cur] \in Peers
        /\ UNCHANGED <<conn, given>> /\ clients' = clients \cup {cur}
        /\ Entering = {cur} /\ Entering' = {} /\ ~ThreadGone /\ ~ThreadGone'
    BY <1>4 DEF Insert, Entering, netVars, ThreadGone, IInv, CurInv
  <2>2. owner' = [owner EXCEPT ![cur] = conn[cur]] /\ owner[cur] = NoPeer
    BY <2>1 DEF IInv
  <2>3. \A j \in Fds : owner[j] # conn[cur]
    BY <2>1, StreamAssumption DEF IInv, ConnInv
  <2>4. QED
    BY <2>1, <2>2, <2>3 DEF Service!Next, Service!Join
<1>5. CASE Hup \/ Read
  <2>1. /\ cur \in clients /\ cur \in Fds
        /\ UNCHANGED <<conn, given>>
        /\ clients' \in {clients, clients \ {cur}}
        /\ Entering = {} /\ Entering' = {} /\ ~ThreadGone /\ ~ThreadGone'
    BY <1>5 DEF Hup, Read, TcpReadable, UnixStreamReadable, TakeMessage, Forget,
       Entering, ThreadGone, IInv, CurInv, PollInv, TypeOK, TableTypeOK, Handling,
       ServerStates
  <2>2. QED
    BY <2>1 DEF Service!Next, Service!Leave, Service!svcVars
<1>6. CASE Callback
  <2>1. /\ cur \in clients /\ cur \in Fds /\ conn[cur] \in Peers
        /\ UNCHANGED <<conn, clients>>
        /\ given' = [given EXCEPT ![conn[cur]] = @ + Bytes(got)]
        /\ Entering = {} /\ Entering' = {} /\ ~ThreadGone /\ ~ThreadGone'
    BY <1>6 DEF Callback, objVars, Entering, ThreadGone, IInv, CurInv, PollInv, ConnInv,
       TypeOK, TableTypeOK, Handling, ServerStates
  <2>2. Bytes(got) \in Nat /\ given \in [Peers -> Nat]
    BY DEF Bytes, IInv, TypeOK, TableTypeOK, NetTypeOK
  <2>3. owner[cur] = conn[cur] /\ owner' = owner
    BY <2>1
  <2>4. CASE Bytes(got) = 0
    BY <2>1, <2>2, <2>3, <2>4 DEF Service!svcVars
  <2>5. CASE Bytes(got) # 0
    <3>1. /\ given'[owner[cur]] = given[owner[cur]] + Bytes(got)
          /\ given' = [given EXCEPT ![owner[cur]] = given'[owner[cur]]]
      BY <2>1, <2>2, <2>3
    <3>2. given'[owner[cur]] \in Nat /\ given'[owner[cur]] > given[owner[cur]]
      BY <2>1, <2>2, <2>3, <2>5, <3>1
    <3>3. Service!Deliver(cur)
      BY <2>1, <2>3, <3>1, <3>2 DEF Service!Deliver
    <3>4. QED
      BY <2>1, <3>3 DEF Service!Next
  <2>6. QED
    BY <2>4, <2>5
<1>7. CASE Destroy
  <2>1. UNCHANGED <<given, owner>> /\ ThreadGone' = ThreadGone
    BY <1>7 DEF Destroy, DtorClose, netVars, loopVars, Entering, ThreadGone
  <2>2. CASE joinable
    BY <1>7, <2>1, <2>2 DEF Destroy, Service!svcVars
  <2>3. CASE ~joinable
    <3>1. ThreadGone /\ clients' = {}
      BY <1>7, <2>3 DEF Destroy, IInv, LifeInv
    <3>2. Service!Close
      BY <2>1, <3>1 DEF Service!Close
    <3>3. QED
      BY <3>2 DEF Service!Next
  <2>4. QED
    BY <2>2, <2>3
<1>8. CASE Next /\ ~(Entry \/ PollFails \/ Merge \/ Accept \/ Insert \/ Hup \/ Read \/ Callback \/ Destroy)
           /\ ~(StartServer /\ UNCHANGED <<objVars, loopVars, appVars, netVars>>)
  <2>1. UNCHANGED <<clients, conn, given>> /\ Entering' = Entering /\ ThreadGone' = ThreadGone
    BY <1>8 DEF Next, Ended, vars, lifeVars, objVars, loopVars, appVars, netVars,
       ServerStep, Poll, NoAccept, Lock, LockedStates, Pipe, Scan, ReplyFind, ReplySend,
       SendByte, NoReply, CallbackStops, StopInCallback, Manage, AppStep, StopServer, DtorStop, Joins, StopJoin,
       DtorJoin, Joined, GetClientIds, SendFind, SendThrough, SendDangling, SendReturn,
       Network, PeerConnect, PeerSend, PeerRead, PeerFinish, PeerClose, PeerReset,
       Entering, ThreadGone
  <2>2. QED
    BY <2>1, SilentSteps
<1>9. QED
    BY <1>1, <1>2, <1>3, <1>4, <1>5, <1>6, <1>7, <1>8

\* And of a process that has ended nothing changes.
LEMMA ServiceSteps == IInv /\ [Next]_vars => [Service!Next]_Service!svcVars
<1>1. IInv /\ UNCHANGED vars => UNCHANGED Service!svcVars
    BY DEF vars, lifeVars, objVars, loopVars, netVars, Service!svcVars, ThreadGone,
           Entering
<1>2. IInv /\ fault # "none" /\ Next => UNCHANGED vars
    BY DEF Next, Ended
<1>3. QED
    BY <1>1, <1>2, ServiceStep

(***************************************************************************)
(* The stream servers implement ConnectionService: nobody joins, leaves or *)
(* is delivered to but through a running server, and ids are not reused.   *)
(***************************************************************************)
THEOREM Refinement == Spec => ImplementsService
<1>1. Init => Service!Init
    BY DEF Init, LifeInit, Service!Init, ThreadGone
<1>2. QED
    BY <1>1, ServiceSteps, Invariance, PTL DEF Spec, ImplementsService, Service!Spec

-----------------------------------------------------------------------------
(* The pipe, and the steps of a thread that is told to end.                *)

\* No step leaves the pipe open for a caller that waits, or a stopped thread unjoined.
LEMMA StopInvStep ==
    ASSUME IInv, StopInv, [Next]_vars
    PROVE  StopInv'
<1> USE DEF StopInv, Stopping, TerminatesUnstoppedOnly
<1>1. CASE StartServer
    BY <1>1 DEF StartServer
<1>2. CASE StopServer
    BY <1>2 DEF StopServer
<1>3. CASE DtorStop
    BY <1>3 DEF DtorStop
<1>4. CASE Joins
    BY <1>4 DEF Joins, StopJoin, DtorJoin, Joined
<1>5. CASE fault = "none" /\ Destroy
    BY <1>5 DEF Destroy, DtorClose
<1>6. CASE fault = "none" /\ CallbackStops
    BY <1>6 DEF CallbackStops, StopInCallback, IInv, LifeInv, ThreadGone
<1>7. CASE ~(StartServer \/ StopServer \/ DtorStop \/ Joins \/ Destroy \/ CallbackStops)
  <2>1. /\ UNCHANGED <<pipeOpen, joinable>>
        /\ \/ UNCHANGED <<apc, fault>>
           \/ UNCHANGED fault /\ apc = "idle" /\ apc' = "send"
           \/ apc = "send" /\ apc' = "idle" /\ fault' \in {fault, "crash"}
    BY <1>7 DEF Next, vars, lifeVars, Ended, ServerStep, Entry, RunServerEntry, Poll, Accept,
       NoAccept, Lock, Insert, Pipe, Scan, Hup, Read, TcpReadable, UnixStreamReadable, TakeMessage,
       Callback, ReplyFind, ReplySend, NoReply, Merge, Goto, PollFails, PollError, Manage, AppStep,
       GetClientIds, SendFind, SendThrough, SendDangling, SendReturn, Network
  <2>2. QED
    BY <2>1
<1>8. CASE UNCHANGED vars
    BY <1>8 DEF vars, lifeVars
<1>9. fault = "none" \/ UNCHANGED vars
    BY DEF Next, Ended
<1>10. QED
    BY <1>1, <1>2, <1>3, <1>4, <1>5, <1>6, <1>7, <1>8, <1>9

\* The pipe of a running server is open until somebody waits for the thread.
LEMMA StopInvariance == Spec => []StopInv
<1>1. Init => StopInv
    BY DEF Init, LifeInit, StopInv, Stopping, TerminatesUnstoppedOnly
<1>2. QED
    BY <1>1, StopInvStep, Invariance, PTL DEF Spec

(***************************************************************************)
(* The destructor of a stream server ends the process only over a thread   *)
(* that nobody has told to end.                                            *)
(***************************************************************************)
THEOREM Unstopped == Spec => []TerminatesUnstoppedOnly
    BY StopInvariance, PTL DEF StopInv

\* What poll() says of the pipe is still so at the end of the round.
LEMMA LastRoundStep ==
    ASSUME IInv, StopInv, LastRoundInv, [Next]_vars
    PROVE  LastRoundInv'
<1> USE DEF LastRoundInv, ServerStates, Handling
<1>1. CASE Poll
  <2>1. spc' = "listen" /\ UNCHANGED pipeOpen /\ revents' = Reported
    BY <1>1 DEF Poll
  <2>2. revents'.pipe = ~pipeOpen
    BY <2>1 DEF Reported
  <2>3. QED
    BY <2>1, <2>2
<1>2. CASE Merge
  <2>1. revents'.pipe = FALSE
    BY <1>2 DEF Merge, NoEvents
  <2>2. QED
    BY <2>1
<1>3. CASE Pipe
  <2>1. UNCHANGED <<revents, pipeOpen>> /\ spc = "pipe" /\ spc' = "scan"
    BY <1>3 DEF Pipe
  <2>2. running' = (running /\ ~revents.pipe) /\ (revents.pipe => todo' = {})
    BY <1>3 DEF Pipe
  <2>3. QED
    BY <2>1, <2>2
<1>4. CASE fault = "none" /\ StartServer /\ UNCHANGED <<objVars, loopVars, appVars, netVars>>
  <2>1. UNCHANGED <<revents, todo>> /\ spc' \in {spc, "entry"} /\ apc = "idle"
    BY <1>4 DEF StartServer, loopVars
  <2>2. ~joinable => ~revents.pipe
    BY <1>4 DEF IInv, LifeInv, ThreadGone
  <2>3. joinable => ~revents.pipe
    BY <1>4, <2>1 DEF StopInv, Stopping
  <2>4. QED
    BY <2>1, <2>2, <2>3
<1>5. CASE Entry \/ PollFails
  <2>1. UNCHANGED <<revents, pipeOpen>> /\ spc \in {"entry", "poll"}
    BY <1>5 DEF Entry, PollFails, PollError, RunServerEntry, loopVars
  <2>3. spc' \in {"poll", "exited"}
    BY <1>5 DEF Entry, PollFails, PollError, RunServerEntry, LoopHead
  <2>2. QED
    BY <2>1, <2>3
<1>6. CASE \/ Accept \/ NoAccept \/ Lock \/ Insert \/ (\E f \in Fds : Scan(f)) \/ Hup \/ Read
           \/ Callback \/ (\E i \in KnownIds : ReplyFind(i)) \/ ReplySend \/ NoReply
  <2>1. /\ UNCHANGED <<revents, pipeOpen, running>>
        /\ spc \in ServerStates
        /\ spc \in {"listen", "insertLock", "insert"} => spc' \in {"insertLock", "insert", "pipe"}
        /\ spc = "scan" => todo # {}
        /\ spc # "pipe"
    BY <1>6 DEF Accept, NoAccept, Lock, LockedStates, Insert, Scan, Hup, Read, TcpReadable,
       UnixStreamReadable, TakeMessage, Callback, ReplyFind, ReplySend, NoReply, Goto, loopVars
  <2>2. spc' \in ServerStates
    BY <1>6 DEF Accept, NoAccept, Lock, LockedStates, Insert, Scan, Hup, Read, TcpReadable,
       UnixStreamReadable, TakeMessage, Callback, ReplyFind, ReplySend, NoReply, Goto
  <2>3. QED
    BY <2>1, <2>2
<1>7. CASE ~ServerStep /\ ~PollFails /\ ~(fault = "none" /\ StartServer
                                     /\ UNCHANGED <<objVars, loopVars, appVars, netVars>>)
  <2>1. /\ UNCHANGED <<revents, todo, running, spc>>
        /\ pipeOpen' = pipeOpen \/ ~pipeOpen'
    BY <1>7 DEF Next, vars, lifeVars, loopVars, Ended, CallbackStops, StopInCallback, Manage,
       AppStep, StopServer, DtorStop, Destroy, DtorClose, Joins, StopJoin, DtorJoin, GetClientIds,
       SendFind, SendThrough, SendDangling, SendReturn, Network
  <2>2. QED
    BY <2>1
<1>8. QED
    BY <1>1, <1>2, <1>3, <1>4, <1>5, <1>6, <1>7 DEF ServerStep

\* What a round still has to do is a positive number, bounded by the descriptors.
LEMMA RestBound ==
    ASSUME NEW S \in SUBSET Fds
    PROVE  /\ Cardinality(S) \in Nat
           /\ RestOfRound(S) \in Nat \ {0}
           /\ RestOfRound(S) <= 6 * Cardinality(Fds) + 7
<1>1. IsFiniteSet(Fds)
    BY StreamAssumption DEF StreamAssumption
<1>2. /\ Cardinality(S) \in Nat /\ Cardinality(Fds) \in Nat
      /\ Cardinality(S) <= Cardinality(Fds)
    BY <1>1, FS_Subset, FS_CardinalityType
<1>3. QED
    BY <1>2 DEF RestOfRound

(***************************************************************************)
(* A step of the server thread that somebody waits for takes it nearer to  *)
(* its end: the only poll() it may still make reports the pipe.            *)
(***************************************************************************)
LEMMA StepsLeftStep ==
    ASSUME IInv, StopInv, LastRoundInv, fault = "none", Next, Stopping, spc' # spc
    PROVE  StepsLeft' < StepsLeft
<1> DEFINE reported == revents.hup \cup revents.in
<1>1. reported \in SUBSET Fds /\ todo \in SUBSET Fds
    BY DEF IInv, TypeOK, TableTypeOK
<1>2. /\ RestOfRound(reported) \in Nat \ {0}
      /\ RestOfRound(todo) \in Nat \ {0}
    BY <1>1, RestBound
<1> HIDE DEF reported
<1>3. ASSUME UNCHANGED revents
      PROVE  RestOfRound(reported)' = RestOfRound(reported)
    BY <1>3 DEF RestOfRound, reported
<1>4. ASSUME UNCHANGED <<revents, todo>>
      PROVE  RestOfRound(todo)' = RestOfRound(todo)
    BY <1>4 DEF RestOfRound
<1>5. CASE Entry \/ PollFails
  <2>1. \/ spc = "entry" /\ spc' \in {"poll", "exited"}
        \/ spc = "poll" /\ spc' = "exited"
    BY <1>5 DEF Entry, RunServerEntry, LoopHead, PollFails, PollError
  <2>2. QED
    BY <2>1 DEF StepsLeft
<1>6. CASE Poll
  <2>1. spc = "poll" /\ spc' = "listen" /\ revents' = Reported /\ ~pipeOpen
    BY <1>6 DEF Poll, StopInv
  <2>2. revents'.pipe = TRUE
    BY <2>1 DEF Reported
  <2>3. RestOfRound(reported)' = 1
    BY <2>2 DEF RestOfRound
  <2>4. QED
    BY <2>1, <2>3 DEF StepsLeft, reported
<1>7. CASE Accept \/ NoAccept \/ Insert \/ (Lock /\ spc = "insertLock")
  <2>1. /\ UNCHANGED revents
        /\ \/ spc = "listen" /\ spc' \in {"insertLock", "pipe"}
           \/ spc = "insertLock" /\ spc' = "insert"
           \/ spc = "insert" /\ spc' = "pipe"
    BY <1>7 DEF Accept, NoAccept, Insert, Lock, LockedStates, Goto, loopVars
  <2>2. RestOfRound(reported)' = RestOfRound(reported)
    BY <2>1, <1>3
  <2>3. QED
    BY <2>1, <2>2, <1>2 DEF StepsLeft, reported
<1>8. CASE Pipe
  <2>1. spc = "pipe" /\ spc' = "scan" /\ UNCHANGED revents
    BY <1>8 DEF Pipe
  <2>2. todo' = IF revents.pipe THEN {} ELSE reported
    BY <1>8 DEF Pipe, reported
  <2>3. RestOfRound(todo)' = RestOfRound(reported)
    BY <2>1, <2>2 DEF RestOfRound
  <2>4. QED
    BY <2>1, <2>3, <1>2 DEF StepsLeft, reported
<1>9. ASSUME NEW f \in Fds, Scan(f) PROVE StepsLeft' < StepsLeft
  <2>1. /\ spc = "scan" /\ spc' \in {"hupLock", "readLock"} /\ UNCHANGED revents
        /\ f \in todo /\ todo' = todo \ {f}
    BY <1>9 DEF Scan, Goto
  <2>2. ~revents.pipe
    BY <2>1 DEF LastRoundInv, Handling
  <2>3. IsFiniteSet(todo)
    BY <1>1, StreamAssumption, FS_Subset DEF StreamAssumption
  <2>4. /\ Cardinality(todo') = Cardinality(todo) - 1
        /\ Cardinality(todo) \in Nat /\ Cardinality(todo') \in Nat
    BY <2>1, <2>3, FS_RemoveElement, FS_CardinalityType
  <2>5. /\ RestOfRound(todo) = 6 * Cardinality(todo) + 7
        /\ RestOfRound(todo)' = 6 * Cardinality(todo') + 7
    BY <2>1, <2>2 DEF RestOfRound
  <2>6. RestOfRound(todo)' + 5 < RestOfRound(todo) /\ RestOfRound(todo)' \in Nat
    BY <2>4, <2>5
  <2>7. QED
    BY <2>1, <2>6, <1>2 DEF StepsLeft
<1>10. CASE \/ (Lock /\ spc # "insertLock") \/ Hup \/ Read \/ Callback
            \/ (\E i \in KnownIds : ReplyFind(i)) \/ ReplySend \/ NoReply
  <2>1. /\ UNCHANGED <<revents, todo>>
        /\ \/ spc = "hupLock" /\ spc' = "hup"
           \/ spc = "readLock" /\ spc' = "read"
           \/ spc \in {"hup", "replySend"} /\ spc' = "scan"
           \/ spc = "read" /\ spc' \in {"callback", "scan"}
           \/ spc = "callback" /\ spc' = "reply"
           \/ spc = "reply" /\ spc' \in {"replySend", "scan"}
    BY <1>10 DEF Lock, LockedStates, Hup, Read, TcpReadable, UnixStreamReadable, TakeMessage,
       Callback, ReplyFind, ReplySend, NoReply, Goto, loopVars
  <2>2. RestOfRound(todo)' = RestOfRound(todo)
    BY <2>1, <1>4
  <2>3. QED
    BY <2>1, <2>2, <1>2 DEF StepsLeft
<1>11. CASE Merge
  <2>1. spc = "scan" /\ spc' = LoopHead(running) /\ todo = {}
    BY <1>11 DEF Merge, Goto
  <2>2. CASE running
    <3>1. ~revents.pipe
      BY <2>1, <2>2 DEF LastRoundInv
    <3>2. RestOfRound(todo) = 7
      BY <2>1, <3>1, FS_EmptySet DEF RestOfRound
    <3>3. QED
      BY <2>1, <2>2, <3>2 DEF StepsLeft, LoopHead
  <2>3. CASE ~running
    BY <2>1, <2>3, <1>2 DEF StepsLeft, LoopHead
  <2>4. QED
    BY <2>2, <2>3
<1>12. CASE ~ServerStep /\ ~PollFails
  <2>1. spc' = spc
    BY <1>12 DEF Next, vars, lifeVars, Ended, CallbackStops, StopInCallback, Manage, Stopping,
       AppStep, StartServer, StopServer, DtorStop, Destroy, DtorClose, Joins, StopJoin, DtorJoin,
       GetClientIds, SendFind, SendThrough, SendDangling, SendReturn, Network
  <2>2. QED
    BY <2>1
<1>13. QED
    BY <1>5, <1>6, <1>7, <1>8, <1>9, <1>10, <1>11, <1>12 DEF ServerStep

(***************************************************************************)
(* StepsLeft is a natural number, bounded by the number of descriptors.    *)
(***************************************************************************)
LEMMA StepsLeftBound ==
    ASSUME IInv
    PROVE  StepsLeft \in 0 .. 6 * Cardinality(Fds) + 12
<1> DEFINE first == RestOfRound(revents.hup \cup revents.in)
           later == RestOfRound(todo)
           most == 6 * Cardinality(Fds) + 7
<1>1. revents.hup \cup revents.in \in SUBSET Fds /\ todo \in SUBSET Fds /\ Fds \in SUBSET Fds
    BY DEF IInv, TypeOK, TableTypeOK
<1>2. Cardinality(Fds) \in Nat
    BY <1>1, RestBound
<1>3. first \in Nat /\ later \in Nat /\ first <= most /\ later <= most
    BY <1>1, RestBound
<1>4. StepsLeft \in {0, 6, 7} \cup {first + k : k \in 0 .. 5} \cup {later + k : k \in 0 .. 5}
  <2> HIDE DEF first, later
  <2>1. \/ StepsLeft \in {0, 6, 7}
        \/ StepsLeft \in {1 + first, 2 + first, 3 + first, 4 + first}
        \/ StepsLeft \in {later, 1 + later, 2 + later, 3 + later, 4 + later, 5 + later}
    BY DEF StepsLeft, first, later
  <2>2. QED
    BY <2>1, <1>3
<1>5. most \in Nat /\ most >= 7 /\ most + 5 = 6 * Cardinality(Fds) + 12
    BY <1>2
<1> HIDE DEF first, later, most
<1>6. QED
    BY <1>3, <1>4, <1>5

(***************************************************************************)
(* A stop of a stream server is not held up by its clients: each step of   *)
(* the thread that is waited for lowers StepsLeft, and so many steps are   *)
(* all a stop waits for.                                                   *)
(***************************************************************************)
THEOREM StopNears ==
    Spec => [](StepsLeft \in 0 .. 6 * Cardinality(Fds) + 12) /\ StopComesNearer
<1>1. Init => LastRoundInv
    BY DEF Init, LifeInit, NoEvents, LastRoundInv, Handling
<1>2. Spec => []LastRoundInv
    BY <1>1, LastRoundStep, Invariance, StopInvariance, PTL DEF Spec
<1>3. IInv /\ StopInv /\ LastRoundInv /\ [Next]_vars
         => [Stopping /\ spc' # spc => StepsLeft' < StepsLeft]_vars
  <2>1. fault # "none" /\ Next => UNCHANGED vars
    BY DEF Next, Ended
  <2>2. QED
    BY <2>1, StepsLeftStep
<1>4. IInv => StepsLeft \in 0 .. 6 * Cardinality(Fds) + 12
    BY StepsLeftBound
<1>5. QED
    BY <1>2, <1>3, <1>4, Invariance, StopInvariance, PTL DEF Spec, StopComesNearer

-----------------------------------------------------------------------------
(* What poll() reported is still so when the loop gets there.              *)

\* A descriptor stays connected to its peer: nothing closes the socket of a client.
LEMMA ConnStays ==
    ASSUME IInv, [Next]_vars, NEW f \in Fds, conn[f] \in Peers
    PROVE  conn'[f] = conn[f]
<1>1. CASE Accept
  <2>1. PICK g \in FreeFds, q \in backlog : conn' = [conn EXCEPT ![g] = q]
    BY <1>1 DEF Accept
  <2>2. g # f
    BY <2>1, StreamAssumption DEF FreeFds, StreamAssumption
  <2>3. QED
    BY <2>1, <2>2 DEF IInv, TypeOK, NetTypeOK
<1>2. CASE ~Accept
  <2>1. UNCHANGED conn
    BY <1>2 DEF Next, vars, netVars, Ended, ServerStep, Entry, Poll, NoAccept, Lock, Insert, Pipe,
       Scan, Hup, Read, TcpReadable, UnixStreamReadable, TakeMessage, Forget, Callback, ReplyFind,
       ReplySend, SendByte, NoReply, Merge, PollFails, CallbackStops, Manage, AppStep, Joins,
       Destroy, GetClientIds, SendFind, SendThrough, SendDangling, Network, PeerConnect, PeerSend,
       PeerRead, PeerFinish, PeerClose, PeerReset
  <2>2. QED
    BY <2>1
<1>3. QED
    BY <1>1, <1>2

\* A socket with something to read keeps it until this thread reads from it.
LEMMA ReadableStays ==
    ASSUME IInv, [Next]_vars, NEW p \in Peers, Readable(p), Read => p # conn[cur]
    PROVE  Readable(p)'
<1>0. sent[p] \in Nat /\ taken[p] \in Nat /\ peer[p] \in PeerStates
    BY DEF IInv, TypeOK, NetTypeOK
<1>1. sent'[p] \in Nat /\ sent'[p] >= sent[p]
  <2>1. CASE \E q \in Peers : PeerSend(q)
    BY <1>0, <2>1 DEF PeerSend, IInv, TypeOK, NetTypeOK
  <2>2. CASE ~\E q \in Peers : PeerSend(q)
    <3>1. UNCHANGED sent
      BY <2>2 DEF Next, vars, netVars, Ended, ServerStep, Entry, Poll, Accept, NoAccept, Lock,
         Insert, Pipe, Scan, Hup, Read, Callback, ReplyFind, ReplySend, SendByte, NoReply, Merge,
         PollFails, CallbackStops, Manage, AppStep, Joins, Destroy, GetClientIds, SendFind,
         SendThrough, SendDangling, Network, PeerConnect, PeerRead, PeerFinish, PeerClose, PeerReset
    <3>2. QED
      BY <1>0, <3>1
  <2>3. QED
    BY <2>1, <2>2
<1>2. taken'[p] = taken[p]
  <2>1. CASE Read
    <3>1. \/ UNCHANGED taken
          \/ taken' = [taken EXCEPT ![conn[cur]] = @ + Bytes(Received(conn[cur]))]
      BY <2>1 DEF Read, TcpReadable, UnixStreamReadable, TakeMessage
    <3>2. QED
      BY <2>1, <3>1 DEF IInv, TypeOK, NetTypeOK
  <2>2. CASE ~Read
    BY <2>2 DEF Next, vars, netVars, Ended, ServerStep, Entry, Poll, Accept, NoAccept, Lock,
       Insert, Pipe, Scan, Hup, Callback, ReplyFind, ReplySend, SendByte, NoReply, Merge,
       PollFails, CallbackStops, Manage, AppStep, Joins, Destroy, GetClientIds, SendFind,
       SendThrough, SendDangling, Network, PeerConnect, PeerSend, PeerRead, PeerFinish, PeerClose,
       PeerReset
  <2>3. QED
    BY <2>1, <2>2
<1>3. peer[p] \in {"finished", "closed", "reset"} => peer'[p] \in {"finished", "closed", "reset"}
  <2>1. \/ UNCHANGED peer
        \/ \E q : \E s \in {"finished", "closed", "reset"} : peer' = [peer EXCEPT ![q] = s]
        \/ \E q \in Peers : peer[q] = "off" /\ peer' = [peer EXCEPT ![q] = "open"]
    <3>1. CASE \/ ReplySend \/ SendThrough \/ SendDangling
      <4>1. UNCHANGED peer \/ \E f \in Fds \cup {NoFd} : SendByte(conn[f])
        BY <3>1 DEF ReplySend, SendThrough, SendDangling, netVars, IInv, TypeOK, TableTypeOK
      <4>2. ASSUME NEW q, SendByte(q)
            PROVE  UNCHANGED peer \/ peer' = [peer EXCEPT ![q] = "reset"]
        BY <4>2 DEF SendByte
      <4>3. QED
        BY <4>1, <4>2
    <3>2. CASE \E q \in Peers : Network(q)
      <4>1. PICK q \in Peers : Network(q)
        BY <3>2
      <4>2. QED
        BY <4>1 DEF Network, PeerConnect, PeerSend, PeerRead, PeerFinish, PeerClose, PeerReset
    <3>3. CASE ~(ReplySend \/ SendThrough \/ SendDangling \/ \E q \in Peers : Network(q))
      BY <3>3 DEF Next, vars, netVars, Ended, ServerStep, Entry, Poll, Accept, NoAccept, Lock,
         Insert, Pipe, Scan, Hup, Read, Callback, ReplyFind, NoReply, Merge, PollFails,
         CallbackStops, Manage, AppStep, Joins, Destroy, GetClientIds, SendFind
    <3>4. QED
      BY <3>1, <3>2, <3>3
  <2>2. QED
    BY <2>1, <1>0 DEF IInv, TypeOK, NetTypeOK
<1>4. QED
    BY <1>0, <1>1, <1>2, <1>3 DEF Readable, Unread

\* So the entries still to come stay ready, and the one in hand until it is read.
LEMMA ReadyStep ==
    ASSUME IInv, ReadyInv, [Next]_vars
    PROVE  ReadyInv'
<1> USE DEF Handling, ServerStates
<1>1. \A f \in Fds : conn[f] \in Peers => conn'[f] = conn[f]
    BY ConnStays
<1>2. \A p \in Peers : Readable(p) /\ ~Read => Readable(p)'
    BY ReadableStays
<1>3. revents.hup \cup revents.in \subseteq Fds /\ todo \subseteq Fds
    BY DEF IInv, TypeOK, TableTypeOK
<1>4. spc' = "listen" /\ revents'.listen => backlog' # {}
  <2>1. CASE Poll
    <3>1. revents' = Reported /\ UNCHANGED backlog
      BY <2>1 DEF Poll, netVars
    <3>2. revents'.listen = (backlog # {})
      BY <3>1 DEF Reported
    <3>3. QED
      BY <3>1, <3>2
  <2>2. CASE ~Poll
    <3>1. spc' = "listen" => spc = "listen" /\ UNCHANGED revents
      BY <2>2 DEF Next, vars, lifeVars, loopVars, Ended, ServerStep, Entry, RunServerEntry, LoopHead,
         Accept, NoAccept, Lock, LockedStates, Insert, Pipe, Scan, Hup, Read, TcpReadable,
         UnixStreamReadable, TakeMessage, Callback, ReplyFind, ReplySend, NoReply, Merge, Goto,
         PollFails, PollError, CallbackStops, StopInCallback, Manage, AppStep, StartServer,
         StopServer, DtorStop, Destroy, DtorClose, Joins, StopJoin, DtorJoin, GetClientIds, SendFind,
         SendThrough, SendDangling, SendReturn, Network
    <3>2. spc' = "listen" => backlog \subseteq backlog'
      BY <2>2 DEF Next, vars, netVars, Ended, ServerStep, Entry, Accept, NoAccept, Lock, Insert,
         Pipe, Scan, Hup, Read, Callback, ReplyFind, ReplySend, SendByte, NoReply, Merge, Goto,
         PollFails, CallbackStops, Manage, AppStep, Joins, Destroy, GetClientIds, SendFind,
         SendThrough, SendDangling, Network, PeerConnect, PeerSend, PeerRead, PeerFinish, PeerClose,
         PeerReset
    <3>3. QED
      BY <3>1, <3>2 DEF ReadyInv, RecvNeverWaits
  <2>3. QED
    BY <2>1, <2>2
<1>5. ReadyInv!1'
  <2>1. CASE Poll
    <3>1. /\ revents'.hup = {f \in pfds : HungUp(conn[f])}
          /\ revents'.in = {f \in pfds : Readable(conn[f])}
      BY <2>1 DEF Poll, Reported
    <3>2. \A f \in pfds : conn[f] \in Peers
      BY <2>1 DEF Poll, Goto, IInv, PollInv, ConnInv
    <3>3. \A p \in Peers : HungUp(p) => Readable(p)
      BY DEF HungUp, Readable
    <3>4. \A f \in revents'.hup \cup revents'.in : f \in Fds /\ conn[f] \in Peers /\ Readable(conn[f])
      BY <3>1, <3>2, <3>3 DEF IInv, TypeOK, TableTypeOK
    <3>5. ~Read
      BY <2>1 DEF Poll, Goto, Read
    <3>6. QED
      BY <1>1, <1>2, <3>4, <3>5
  <2>2. CASE ~Poll
    <3>1. spc' \in {"listen", "insertLock", "insert", "pipe"} =>
             /\ spc \in {"listen", "insertLock", "insert", "pipe"} \/ spc' = "entry"
             /\ UNCHANGED revents
             /\ ~Read
      BY <2>2 DEF Next, vars, lifeVars, loopVars, Ended, ServerStep, Entry, RunServerEntry, LoopHead,
         Accept, NoAccept, Lock, LockedStates, Insert, Pipe, Scan, Hup, Read, TcpReadable,
         UnixStreamReadable, TakeMessage, Callback, ReplyFind, ReplySend, NoReply, Merge, Goto,
         PollFails, PollError, CallbackStops, StopInCallback, Manage, AppStep, StartServer,
         StopServer, DtorStop, Destroy, DtorClose, Joins, StopJoin, DtorJoin, GetClientIds, SendFind,
         SendThrough, SendDangling, SendReturn, Network
    <3>2. QED
      BY <1>1, <1>2, <1>3, <3>1 DEF ReadyInv
  <2>3. QED
    BY <2>1, <2>2
<1>6. ReadyInv!2'
  <2>1. CASE Pipe
    <3>1. /\ todo' \subseteq revents.hup \cup revents.in /\ spc = "pipe" /\ ~Read
      BY <2>1 DEF Pipe, Read
    <3>2. QED
      BY <1>1, <1>2, <1>3, <3>1 DEF ReadyInv
  <2>2. CASE Read
    <3>1. /\ spc = "read" /\ UNCHANGED todo /\ cur \notin todo /\ cur \in clients /\ cur \in Fds
      BY <2>2 DEF Read, IInv, CurInv, PollInv, TypeOK, TableTypeOK
    <3>2. \A f \in todo : conn[f] # conn[cur]
      BY <3>1, <1>3, StreamAssumption DEF StreamAssumption, IInv, ConnInv
    <3>3. \A f \in todo : conn[f] \in Peers /\ Readable(conn[f])
      BY <3>1 DEF ReadyInv
    <3>4. \A f \in todo : conn'[f] = conn[f] /\ Readable(conn[f])'
      BY <3>2, <3>3, <1>1, <1>3, ReadableStays
    <3>5. QED
      BY <3>1, <3>3, <3>4
  <2>3. CASE ~Pipe /\ ~Read
    <3>1. spc' \in Handling \cup {"scan", "replySend"} =>
             spc \in Handling \cup {"scan", "replySend"} /\ todo' \subseteq todo
      BY <2>3 DEF Next, vars, lifeVars, loopVars, Ended, ServerStep, Entry, RunServerEntry, LoopHead,
         Poll, Accept, NoAccept, Lock, LockedStates, Insert, Scan, Hup,
         Callback, ReplyFind, ReplySend, NoReply, Merge, Goto,
         PollFails, PollError, CallbackStops, StopInCallback, Manage, AppStep, StartServer,
         StopServer, DtorStop, Destroy, DtorClose, Joins, StopJoin, DtorJoin, GetClientIds, SendFind,
         SendThrough, SendDangling, SendReturn, Network
    <3>2. QED
      BY <2>3, <3>1, <1>1, <1>2, <1>3 DEF ReadyInv
  <2>4. QED
    BY <2>1, <2>2, <2>3
<1>7. spc' \in {"readLock", "read"} => Readable(conn[cur])'
  <2>1. ASSUME NEW f \in Fds, Scan(f) PROVE spc' \in {"readLock", "read"} => Readable(conn[cur])'
    <3>1. f \in todo /\ cur' = f /\ spc = "scan"
      BY <2>1 DEF Scan, Goto
    <3>2. conn[f] \in Peers /\ Readable(conn[f]) /\ ~Read
      BY <3>1 DEF ReadyInv, Read
    <3>3. QED
      BY <3>1, <3>2, <1>1, <1>2
  <2>2. CASE ~\E f \in Fds : Scan(f)
    <3>1. spc' \in {"readLock", "read"} => spc \in {"readLock", "read"} /\ UNCHANGED cur /\ ~Read
      BY <2>2 DEF Next, vars, lifeVars, loopVars, Ended, ServerStep, Entry, RunServerEntry, LoopHead,
         Poll, Accept, NoAccept, Lock, LockedStates, Insert, Pipe, Hup, Read, TcpReadable,
         UnixStreamReadable, TakeMessage, Callback, ReplyFind, ReplySend, NoReply, Merge, Goto,
         PollFails, PollError, CallbackStops, StopInCallback, Manage, AppStep, StartServer,
         StopServer, DtorStop, Destroy, DtorClose, Joins, StopJoin, DtorJoin, GetClientIds, SendFind,
         SendThrough, SendDangling, SendReturn, Network
    <3>2. spc \in {"readLock", "read"} => cur \in Fds /\ conn[cur] \in Peers /\ Readable(conn[cur])
      BY DEF ReadyInv, RecvNeverWaits, IInv, CurInv, PollInv, ConnInv, TypeOK, TableTypeOK
    <3>3. QED
      BY <3>1, <3>2, <1>1, <1>2
  <2>3. QED
    BY <2>1, <2>2
<1>8. QED
    BY <1>4, <1>5, <1>6, <1>7 DEF ReadyInv, RecvNeverWaits

(***************************************************************************)
(* The thread of a stream server waits in poll() only: its accept() and    *)
(* its recv() find what poll() reported, on sockets that block.            *)
(***************************************************************************)
THEOREM NoWait == Spec => []RecvNeverWaits
<1>1. Init => ReadyInv
    BY DEF Init, LifeInit, ReadyInv, RecvNeverWaits, Handling
<1>2. ReadyInv => RecvNeverWaits
    BY DEF ReadyInv
<1>3. QED
    BY <1>1, <1>2, ReadyStep, Invariance, PTL DEF Spec

=============================================================================
