------------------------- MODULE DgramServerProofs --------------------------
(***************************************************************************)
(* Proofs about DgramServer, for every set of addresses and lengths, both  *)
(* transports, and any bounds.  The argument: the ids are the first        *)
(* naturals (DenseIds), so the last one plus one is new and emplace()      *)
(* always adds; with it IInv of DgramServer is inductive, and implies the  *)
(* invariants the runs check.                                              *)
(***************************************************************************)
EXTENDS DgramServer, FiniteSetTheorems, TLAPS

\* The last of the ids 0 .. m - 1 plus one is m.
LEMMA NewId ==
    ASSUME NEW m \in Nat
    PROVE  NextAfter(0 .. m - 1) = m
<1>1. CASE m = 0
    BY <1>1 DEF NextAfter
<1>2. CASE m # 0
  <2>1. m - 1 \in 0 .. m - 1 /\ \A j \in 0 .. m - 1 : m - 1 >= j
    BY <1>2
  <2>2. PICK x \in 0 .. m - 1 : Max(0 .. m - 1) = x /\ \A j \in 0 .. m - 1 : x >= j
    BY <2>1 DEF Max
  <2>3. Max(0 .. m - 1) = m - 1
    BY <2>1, <2>2
  <2>4. QED
    BY <2>1, <2>3 DEF NextAfter
<1>3. QED
    BY <1>1, <1>2

\* The length recvfrom() stores is within the buffer msg_.
LEMMA CutLength ==
    ASSUME NEW n \in Nat
    PROVE  Min({n, BufLen}) \in 0 .. BufLen
<1> USE DgramAssumption DEF DgramAssumption
<1>1. \E x \in {n, BufLen} : \A y \in {n, BufLen} : x =< y
    OBVIOUS
<1>2. /\ Min({n, BufLen}) \in {n, BufLen}
      /\ \A y \in {n, BufLen} : Min({n, BufLen}) =< y
    BY <1>1 DEF Min
<1>3. QED
    BY <1>2

(***************************************************************************)
(* What addClient's emplace() does to a table with dense ids: one entry    *)
(* more, the others unchanged, and the ids are dense again.                *)
(***************************************************************************)
LEMMA Added ==
    ASSUME DenseIds, NEW a \in Addrs, Emplace(NextId, a)
    PROVE  /\ clients' \in [0 .. NextId -> Addrs]
           /\ NextId \notin DOMAIN clients
           /\ DOMAIN clients' = DOMAIN clients \cup {NextId}
           /\ \A i \in DOMAIN clients : clients'[i] = clients[i]
           /\ clients'[NextId] = a
           /\ NextId' = NextId + 1
           /\ DenseIds'
<1> DEFINE m == NextId
<1>1. m \in Nat /\ clients \in [0 .. m - 1 -> Addrs]
    BY DEF DenseIds
<1>2. clients' \in [0 .. m -> Addrs] /\ m \notin DOMAIN clients
    BY <1>1 DEF Emplace
<1>3. clients' \in [0 .. (m + 1) - 1 -> Addrs]
    BY <1>1, <1>2
<1> HIDE DEF m
<1>4. NextId' = m + 1
  <2>1. DOMAIN clients' = 0 .. (m + 1) - 1
    BY <1>3
  <2>2. NextAfter(0 .. (m + 1) - 1) = m + 1
    BY <1>1, NewId
  <2>3. QED
    BY <2>1, <2>2 DEF NextId
<1>5. QED
    BY <1>1, <1>2, <1>3, <1>4 DEF Emplace, DenseIds

(***************************************************************************)
(* No step of the server thread, from the entry of runServer to the pipe   *)
(* at the end of the round, breaks the inductive invariant.                *)
(***************************************************************************)
LEMMA ServerStepInv ==
    ASSUME IInv, fault = "none", ServerStep
    PROVE  IInv'
<1> USE DgramAssumption, MaxStartsAssumption
<1> USE DEF DgramAssumption, MaxStartsAssumption, IInv, ServerStates, ThreadGone, NoEvents, NoId,
            lifeVars, loopVars, appVars, netVars, Goto
<1>1. CASE Entry
  <2> USE <1>1 DEF Entry, RunServerEntry, LoopHead
  <2>1. (LifeTypeOK(ServerStates, {"send"}) /\ LifeInv)'
    BY DEF TypeOK, LifeTypeOK, LifeInv
  <2>2. TypeOK'
    BY <2>1 DEF TypeOK
  <2>3. (DenseIds /\ OneIdPerAddress)'
    BY DEF DenseIds, OneIdPerAddress, NextId
  <2>4. (RoundInv /\ IteratorStaysValid)'
    BY DEF RoundInv, CallbackNamesSender, IteratorStaysValid
  <2>5. QED
    BY <2>1, <2>2, <2>3, <2>4
<1>2. CASE Poll
  <2> USE <1>2 DEF Poll, Reported
  <2>1. (LifeTypeOK(ServerStates, {"send"}) /\ LifeInv)'
    BY DEF TypeOK, LifeTypeOK, LifeInv
  <2>2. TypeOK'
    BY <2>1 DEF TypeOK
  <2>3. (DenseIds /\ OneIdPerAddress)'
    BY DEF DenseIds, OneIdPerAddress, NextId
  <2>4. (RoundInv /\ IteratorStaysValid)'
    BY DEF RoundInv, CallbackNamesSender, IteratorStaysValid
  <2>5. QED
    BY <2>1, <2>2, <2>3, <2>4
<1>3. CASE Receive
  <2> USE <1>3 DEF Receive
  <2>0. Head(inbox).from \in Addrs /\ Head(inbox).len \in Nat /\ inbox' \in Seq(Datagrams)
    <3>1. inbox # <<>> /\ inbox \in Seq(Datagrams)
      BY DEF RoundInv, TypeOK
    <3>2. Head(inbox) \in Datagrams /\ Tail(inbox) \in Seq(Datagrams)
      BY <3>1
    <3>3. QED
      BY <3>2 DEF Datagrams
  <2>1. (LifeTypeOK(ServerStates, {"send"}) /\ LifeInv)'
    BY DEF TypeOK, LifeTypeOK, LifeInv
  <2>2. TypeOK'
    <3>1. got' \in 0 .. BufLen
      BY <2>0, CutLength
    <3>2. got' \in -1 .. BufLen
      BY <3>1
    <3>3. QED
      BY <2>0, <2>1, <3>2 DEF TypeOK
  <2>3. (DenseIds /\ OneIdPerAddress)'
    BY DEF DenseIds, OneIdPerAddress, NextId
  <2>4. (RoundInv /\ IteratorStaysValid)'
    <3>1. ~(got' < 0)
      BY <2>0, CutLength
    <3>2. QED
      BY <2>0, <3>1 DEF RoundInv, CallbackNamesSender, IteratorStaysValid
  <2>5. QED
    BY <2>1, <2>2, <2>3, <2>4
<1>4. CASE NoDatagram
  <2> USE <1>4 DEF NoDatagram
  <2>1. (LifeTypeOK(ServerStates, {"send"}) /\ LifeInv)'
    BY DEF TypeOK, LifeTypeOK, LifeInv
  <2>2. TypeOK'
    BY <2>1 DEF TypeOK
  <2>3. (DenseIds /\ OneIdPerAddress)'
    BY DEF DenseIds, OneIdPerAddress, NextId
  <2>4. (RoundInv /\ IteratorStaysValid)'
    BY DEF RoundInv, CallbackNamesSender, IteratorStaysValid
  <2>5. QED
    BY <2>1, <2>2, <2>3, <2>4
<1>5. CASE AddClient
  <2> USE <1>5 DEF AddClient
  <2>1. from \in Addrs
    BY DEF RoundInv
  <2>2. /\ clientId' \in DOMAIN clients'
        /\ clients'[clientId'] = from
        /\ DOMAIN clients \subseteq DOMAIN clients' /\ DOMAIN clients' \subseteq Nat
        /\ \A i \in DOMAIN clients' : clients'[i] \in Addrs
        /\ (DenseIds /\ OneIdPerAddress)'
    <3>1. CASE Match(from) # {}
      <4>1. PICK i \in DOMAIN clients : clients[i] = from
        BY <3>1 DEF Match
      <4>2. Match(from) = {i}
        BY <4>1 DEF Match, OneIdPerAddress
      <4>3. i \in Nat
        BY DEF TypeOK
      <4>4. Min({i}) = i
        BY <4>3 DEF Min
      <4>5. clientId' = i /\ clients' = clients
        BY <3>1, <4>2, <4>4
      <4>6. QED
        BY <4>1, <4>5 DEF TypeOK, DenseIds, NextId, OneIdPerAddress
    <3>2. CASE Match(from) = {}
      <4>1. Emplace(NextId, from) /\ clientId' = NextId
        BY <3>2
      <4>2. /\ DOMAIN clients' = DOMAIN clients \cup {NextId}
            /\ \A i \in DOMAIN clients : clients'[i] = clients[i]
            /\ clients'[NextId] = from
            /\ NextId \in Nat
            /\ DenseIds'
        BY <2>1, <4>1, Added DEF DenseIds
      <4>3. \A i \in DOMAIN clients : clients[i] # from
        BY <3>2 DEF Match
      <4>4. OneIdPerAddress'
        BY <4>2, <4>3 DEF OneIdPerAddress
      <4>5. QED
        BY <2>1, <4>1, <4>2, <4>4 DEF TypeOK
    <3>3. QED
      BY <3>1, <3>2
  <2>3. (LifeTypeOK(ServerStates, {"send"}) /\ LifeInv)'
    BY DEF TypeOK, LifeTypeOK, LifeInv
  <2>4. TypeOK'
    BY <2>2, <2>3 DEF TypeOK
  <2>5. (RoundInv /\ IteratorStaysValid)'
    BY <2>1, <2>2 DEF RoundInv, CallbackNamesSender, IteratorStaysValid
  <2>6. QED
    BY <2>2, <2>3, <2>4, <2>5
<1>6. CASE Callback
  <2> USE <1>6 DEF Callback
  <2>1. (LifeTypeOK(ServerStates, {"send"}) /\ LifeInv)'
    BY DEF TypeOK, LifeTypeOK, LifeInv
  <2>2. TypeOK'
    <3>1. from \in Addrs /\ clientId \in Nat
      BY DEF RoundInv, CallbackNamesSender, TypeOK
    <3>2. QED
      BY <2>1, <3>1 DEF TypeOK
  <2>3. (DenseIds /\ OneIdPerAddress)'
    BY DEF DenseIds, OneIdPerAddress, NextId
  <2>4. (RoundInv /\ IteratorStaysValid)'
    BY DEF RoundInv, CallbackNamesSender, IteratorStaysValid
  <2>5. QED
    BY <2>1, <2>2, <2>3, <2>4
<1>7. ASSUME NEW i \in known, ReplyFind(i) PROVE IInv'
  <2> USE <1>7 DEF ReplyFind
  <2>1. (LifeTypeOK(ServerStates, {"send"}) /\ LifeInv)'
    BY DEF TypeOK, LifeTypeOK, LifeInv
  <2>2. TypeOK'
    BY <2>1 DEF TypeOK
  <2>3. (DenseIds /\ OneIdPerAddress)'
    BY DEF DenseIds, OneIdPerAddress, NextId
  <2>4. (RoundInv /\ IteratorStaysValid)'
    BY DEF RoundInv, CallbackNamesSender, IteratorStaysValid, TypeOK
  <2>5. QED
    BY <2>1, <2>2, <2>3, <2>4
<1>8. CASE ReplySend
  <2> USE <1>8 DEF ReplySend, SendTo, LeaveBlock
  <2>1. (LifeTypeOK(ServerStates, {"send"}) /\ LifeInv)'
    BY DEF TypeOK, LifeTypeOK, LifeInv
  <2>2. TypeOK'
    <3>1. to \in Addrs
      BY DEF RoundInv
    <3>2. outq' \in [Addrs -> Nat] /\ got' \in -1 .. BufLen
      BY <3>1 DEF TypeOK
    <3>3. QED
      BY <2>1, <3>2 DEF TypeOK
  <2>3. (DenseIds /\ OneIdPerAddress)'
    BY DEF DenseIds, OneIdPerAddress, NextId
  <2>4. (RoundInv /\ IteratorStaysValid)'
    BY DEF RoundInv, CallbackNamesSender, IteratorStaysValid
  <2>5. QED
    BY <2>1, <2>2, <2>3, <2>4
<1>9. CASE NoReply
  <2> USE <1>9 DEF NoReply, LeaveBlock
  <2>1. (LifeTypeOK(ServerStates, {"send"}) /\ LifeInv)'
    BY DEF TypeOK, LifeTypeOK, LifeInv
  <2>2. TypeOK'
    <3>1. got' \in -1 .. BufLen
      OBVIOUS
    <3>2. QED
      BY <2>1, <3>1 DEF TypeOK
  <2>3. (DenseIds /\ OneIdPerAddress)'
    BY DEF DenseIds, OneIdPerAddress, NextId
  <2>4. (RoundInv /\ IteratorStaysValid)'
    BY DEF RoundInv, CallbackNamesSender, IteratorStaysValid
  <2>5. QED
    BY <2>1, <2>2, <2>3, <2>4
<1>10. CASE Pipe
  <2> USE <1>10 DEF Pipe, LoopHead
  <2>1. (LifeTypeOK(ServerStates, {"send"}) /\ LifeInv)'
    BY DEF TypeOK, LifeTypeOK, LifeInv
  <2>2. TypeOK'
    BY <2>1 DEF TypeOK
  <2>3. (DenseIds /\ OneIdPerAddress)'
    BY DEF DenseIds, OneIdPerAddress, NextId
  <2>4. (RoundInv /\ IteratorStaysValid)'
    BY DEF RoundInv, CallbackNamesSender, IteratorStaysValid
  <2>5. QED
    BY <2>1, <2>2, <2>3, <2>4
<1>11. CASE ReceiveFails
  <2> USE <1>11 DEF ReceiveFails
  <2>1. (LifeTypeOK(ServerStates, {"send"}) /\ LifeInv)'
    <3>1. CASE valid' = valid
      BY <3>1 DEF TypeOK, LifeTypeOK, LifeInv
    <3>2. CASE valid' = FALSE
      BY <3>2 DEF TypeOK, LifeTypeOK, LifeInv
    <3>3. QED
      BY <3>1, <3>2
  <2>2. TypeOK'
    <3>1. got' \in -1 .. BufLen /\ from' \in Addrs
      OBVIOUS
    <3>2. QED
      BY <2>1, <3>1 DEF TypeOK
  <2>3. (DenseIds /\ OneIdPerAddress)'
    BY DEF DenseIds, OneIdPerAddress, NextId
  <2>4. (RoundInv /\ IteratorStaysValid)'
    BY DEF RoundInv, CallbackNamesSender, IteratorStaysValid
  <2>5. QED
    BY <2>1, <2>2, <2>3, <2>4
<1>12. QED
    BY <1>1, <1>2, <1>3, <1>4, <1>5, <1>6, <1>7, <1>8, <1>9, <1>10, <1>11 DEF ServerStep

\* Neither does a poll() that fails, a callback that stops the server, or a call
\* of the application.
LEMMA OwnerStepInv ==
    ASSUME IInv, fault = "none", PollFails \/ CallbackStops \/ Manage \/ AppStep \/ GetClientIds
           \/ \E i \in known : SendFind(i)
    PROVE  IInv'
<1> USE DgramAssumption, MaxStartsAssumption
<1> USE DEF DgramAssumption, MaxStartsAssumption, IInv, ServerStates, ThreadGone, NoEvents, NoId,
            lifeVars, loopVars, appVars, netVars, Goto
<1>1. CASE PollFails
  <2> USE <1>1 DEF PollFails, PollError
  <2>1. (LifeTypeOK(ServerStates, {"send"}) /\ LifeInv)'
    BY DEF TypeOK, LifeTypeOK, LifeInv
  <2>2. TypeOK'
    BY <2>1 DEF TypeOK
  <2>3. (DenseIds /\ OneIdPerAddress)'
    BY DEF DenseIds, OneIdPerAddress, NextId
  <2>4. (RoundInv /\ IteratorStaysValid)'
    BY DEF RoundInv, CallbackNamesSender, IteratorStaysValid
  <2>5. QED
    BY <2>1, <2>2, <2>3, <2>4
<1>2. CASE StartServer /\ UNCHANGED <<clients, loopVars, appVars, netVars>>
  <2> USE <1>2 DEF StartServer
  <2>1. (LifeTypeOK(ServerStates, {"send"}) /\ LifeInv)'
    <3>1. starts' \in 0 .. MaxStarts
      BY DEF TypeOK, LifeTypeOK
    <3>2. /\ running' \in BOOLEAN /\ joinable' \in BOOLEAN /\ pipeOpen' \in BOOLEAN
          /\ spc' \in {spc, "entry"} /\ fault' \in {"none", "terminate"}
      BY DEF TypeOK, LifeTypeOK
    <3>3. LifeTypeOK(ServerStates, {"send"})'
      BY <3>1, <3>2 DEF TypeOK, LifeTypeOK
    <3>4. LifeInv'
      BY DEF LifeInv
    <3>5. QED
      BY <3>3, <3>4
  <2>2. TypeOK'
    BY <2>1 DEF TypeOK
  <2>3. (DenseIds /\ OneIdPerAddress)'
    BY DEF DenseIds, OneIdPerAddress, NextId
  <2>4. (RoundInv /\ IteratorStaysValid)'
    BY DEF RoundInv, CallbackNamesSender, IteratorStaysValid
  <2>5. QED
    BY <2>1, <2>2, <2>3, <2>4
<1>3. CASE StopServer /\ UNCHANGED <<clients, loopVars, appVars, netVars>>
  <2> USE <1>3 DEF StopServer
  <2>1. (LifeTypeOK(ServerStates, {"send"}) /\ LifeInv)'
    BY DEF TypeOK, LifeTypeOK, LifeInv
  <2>2. TypeOK'
    BY <2>1 DEF TypeOK
  <2>3. (DenseIds /\ OneIdPerAddress)'
    BY DEF DenseIds, OneIdPerAddress, NextId
  <2>4. (RoundInv /\ IteratorStaysValid)'
    BY DEF RoundInv, CallbackNamesSender, IteratorStaysValid
  <2>5. QED
    BY <2>1, <2>2, <2>3, <2>4
<1>4. CASE DtorStop /\ UNCHANGED <<clients, loopVars, appVars, netVars>>
  <2> USE <1>4 DEF DtorStop
  <2>1. (LifeTypeOK(ServerStates, {"send"}) /\ LifeInv)'
    BY DEF TypeOK, LifeTypeOK, LifeInv
  <2>2. TypeOK'
    BY <2>1 DEF TypeOK
  <2>3. (DenseIds /\ OneIdPerAddress)'
    BY DEF DenseIds, OneIdPerAddress, NextId
  <2>4. (RoundInv /\ IteratorStaysValid)'
    BY DEF RoundInv, CallbackNamesSender, IteratorStaysValid
  <2>5. QED
    BY <2>1, <2>2, <2>3, <2>4
<1>5. CASE Joins
  <2> USE <1>5 DEF Joins, StopJoin, DtorJoin, Joined
  <2>1. (LifeTypeOK(ServerStates, {"send"}) /\ LifeInv)'
    <3>1. LifeTypeOK(ServerStates, {"send"})'
      BY DEF TypeOK, LifeTypeOK
    <3>2. LifeInv'
      BY DEF LifeInv
    <3>3. QED
      BY <3>1, <3>2
  <2>2. TypeOK'
    BY <2>1 DEF TypeOK
  <2>3. (DenseIds /\ OneIdPerAddress)'
    BY DEF DenseIds, OneIdPerAddress, NextId
  <2>4. (RoundInv /\ IteratorStaysValid)'
    BY DEF RoundInv, CallbackNamesSender, IteratorStaysValid
  <2>5. QED
    BY <2>1, <2>2, <2>3, <2>4
<1>6. CASE Destroy
  <2> USE <1>6 DEF Destroy, DtorClose
  <2>1. (LifeTypeOK(ServerStates, {"send"}) /\ LifeInv)'
    BY DEF TypeOK, LifeTypeOK, LifeInv
  <2>2. TypeOK'
    BY <2>1 DEF TypeOK
  <2>3. (DenseIds /\ OneIdPerAddress)'
    <3>1. CASE joinable
      BY <3>1 DEF DenseIds, OneIdPerAddress, NextId
    <3>2. CASE ~joinable
      BY <3>2 DEF DenseIds, OneIdPerAddress, NextId, NextAfter
    <3>3. QED
      BY <3>1, <3>2
  <2>4. (RoundInv /\ IteratorStaysValid)'
    BY DEF RoundInv, CallbackNamesSender, IteratorStaysValid, LifeInv
  <2>5. QED
    BY <2>1, <2>2, <2>3, <2>4
<1>7. CASE GetClientIds
  <2> USE <1>7 DEF GetClientIds
  <2>1. (LifeTypeOK(ServerStates, {"send"}) /\ LifeInv)'
    BY DEF TypeOK, LifeTypeOK, LifeInv
  <2>2. TypeOK'
    BY <2>1 DEF TypeOK
  <2>3. (DenseIds /\ OneIdPerAddress)'
    BY DEF DenseIds, OneIdPerAddress, NextId
  <2>4. (RoundInv /\ IteratorStaysValid)'
    BY DEF RoundInv, CallbackNamesSender, IteratorStaysValid
  <2>5. QED
    BY <2>1, <2>2, <2>3, <2>4
<1>8. ASSUME NEW i \in known, SendFind(i) PROVE IInv'
  <2> USE <1>8 DEF SendFind
  <2>1. (LifeTypeOK(ServerStates, {"send"}) /\ LifeInv)'
    BY DEF TypeOK, LifeTypeOK, LifeInv
  <2>2. TypeOK'
    BY <2>1 DEF TypeOK
  <2>3. (DenseIds /\ OneIdPerAddress)'
    BY DEF DenseIds, OneIdPerAddress, NextId
  <2>4. (RoundInv /\ IteratorStaysValid)'
    BY DEF RoundInv, CallbackNamesSender, IteratorStaysValid
  <2>5. QED
    BY <2>1, <2>2, <2>3, <2>4
<1>9. CASE SendThrough
  <2> USE <1>9 DEF SendThrough, SendTo
  <2>1. (LifeTypeOK(ServerStates, {"send"}) /\ LifeInv)'
    BY DEF TypeOK, LifeTypeOK, LifeInv
  <2>2. TypeOK'
    <3>1. clients[iter] \in Addrs
      BY DEF TypeOK, IteratorStaysValid
    <3>2. outq \in [Addrs -> Nat]
      BY DEF TypeOK
    <3>3. outq' \in {outq, [outq EXCEPT ![clients[iter]] = @ + 1]}
      OBVIOUS
    <3>4. outq' \in [Addrs -> Nat]
      BY <3>1, <3>2, <3>3
    <3>5. QED
      BY <2>1, <3>4 DEF TypeOK
  <2>3. (DenseIds /\ OneIdPerAddress)'
    BY DEF DenseIds, OneIdPerAddress, NextId
  <2>4. (RoundInv /\ IteratorStaysValid)'
    BY DEF RoundInv, CallbackNamesSender, IteratorStaysValid
  <2>5. QED
    BY <2>1, <2>2, <2>3, <2>4
<1>10. CASE CallbackStops
  <2> USE <1>10 DEF CallbackStops, StopInCallback
  <2>1. (LifeTypeOK(ServerStates, {"send"}) /\ LifeInv)'
    BY DEF TypeOK, LifeTypeOK, LifeInv
  <2>2. TypeOK'
    BY <2>1 DEF TypeOK
  <2>3. (DenseIds /\ OneIdPerAddress)'
    BY DEF DenseIds, OneIdPerAddress, NextId
  <2>4. (RoundInv /\ IteratorStaysValid)'
    BY DEF RoundInv, CallbackNamesSender, IteratorStaysValid
  <2>5. QED
    BY <2>1, <2>2, <2>3, <2>4
<1>11. QED
    BY <1>1, <1>2, <1>3, <1>4, <1>5, <1>6, <1>7, <1>8, <1>9, <1>10 DEF AppStep, Manage

\* Nor does an arriving datagram, or what its senders do.
LEMMA NetworkInv ==
    ASSUME IInv, fault = "none", NEW a \in Addrs, Network(a)
    PROVE  IInv'
<1> USE DgramAssumption, MaxStartsAssumption
<1> USE DEF DgramAssumption, MaxStartsAssumption, IInv, ServerStates, ThreadGone, NoEvents, NoId,
            lifeVars, loopVars, appVars, netVars, Goto
<1>1. CASE (\E n \in Lengths : Arrive(a, n)) /\ Network(a)
  <2> USE <1>1 DEF Arrive, Network
  <2>0. inbox' \in Seq(Datagrams) /\ inbox' # <<>>
    <3>1. PICK n \in Lengths : Arrive(a, n)
      BY DEF Arrive
    <3>2. [from |-> a, len |-> n] \in Datagrams
      BY DEF Datagrams
    <3>3. inbox \in Seq(Datagrams) /\ inbox' = Append(inbox, [from |-> a, len |-> n])
      BY <3>1 DEF TypeOK
    <3>4. QED
      BY <3>2, <3>3
  <2>1. (LifeTypeOK(ServerStates, {"send"}) /\ LifeInv)'
    BY DEF TypeOK, LifeTypeOK, LifeInv
  <2>2. TypeOK'
    <3>1. arrived' = [arrived EXCEPT ![a] = @ + 1] /\ arrived \in [Addrs -> Nat]
      BY DEF TypeOK
    <3>2. arrived' \in [Addrs -> Nat]
      BY <3>1
    <3>3. QED
      BY <2>0, <2>1, <3>2 DEF TypeOK
  <2>3. (DenseIds /\ OneIdPerAddress)'
    BY DEF DenseIds, OneIdPerAddress, NextId
  <2>4. (RoundInv /\ IteratorStaysValid)'
    BY <2>0 DEF RoundInv, CallbackNamesSender, IteratorStaysValid
  <2>5. QED
    BY <2>1, <2>2, <2>3, <2>4
<1>2. CASE PeerRead(a) /\ Network(a)
  <2> USE <1>2 DEF PeerRead, Network
  <2>1. (LifeTypeOK(ServerStates, {"send"}) /\ LifeInv)'
    BY DEF TypeOK, LifeTypeOK, LifeInv
  <2>2. TypeOK'
    BY <2>1 DEF TypeOK
  <2>3. (DenseIds /\ OneIdPerAddress)'
    BY DEF DenseIds, OneIdPerAddress, NextId
  <2>4. (RoundInv /\ IteratorStaysValid)'
    BY DEF RoundInv, CallbackNamesSender, IteratorStaysValid
  <2>5. QED
    BY <2>1, <2>2, <2>3, <2>4
<1>3. CASE PeerLeave(a) /\ Network(a)
  <2> USE <1>3 DEF PeerLeave, Network
  <2>1. (LifeTypeOK(ServerStates, {"send"}) /\ LifeInv)'
    BY DEF TypeOK, LifeTypeOK, LifeInv
  <2>2. TypeOK'
    BY <2>1 DEF TypeOK
  <2>3. (DenseIds /\ OneIdPerAddress)'
    BY DEF DenseIds, OneIdPerAddress, NextId
  <2>4. (RoundInv /\ IteratorStaysValid)'
    BY DEF RoundInv, CallbackNamesSender, IteratorStaysValid
  <2>5. QED
    BY <2>1, <2>2, <2>3, <2>4
<1>4. CASE PeerBind(a) /\ Network(a)
  <2> USE <1>4 DEF PeerBind, Network
  <2>1. (LifeTypeOK(ServerStates, {"send"}) /\ LifeInv)'
    BY DEF TypeOK, LifeTypeOK, LifeInv
  <2>2. TypeOK'
    BY <2>1 DEF TypeOK
  <2>3. (DenseIds /\ OneIdPerAddress)'
    BY DEF DenseIds, OneIdPerAddress, NextId
  <2>4. (RoundInv /\ IteratorStaysValid)'
    BY DEF RoundInv, CallbackNamesSender, IteratorStaysValid
  <2>5. QED
    BY <2>1, <2>2, <2>3, <2>4
<1>5. QED
    BY <1>1, <1>2, <1>3, <1>4 DEF Network

\* A server just constructed, valid or not, satisfies the invariant.
LEMMA InitInv == Init => IInv
<1> SUFFICES ASSUME Init PROVE IInv
    OBVIOUS
<1> USE DgramAssumption, MaxStartsAssumption
        DEF DgramAssumption, MaxStartsAssumption, Init, LifeInit, NoEvents, NoId, ServerStates
<1>1. LifeTypeOK(ServerStates, {"send"})
  <2>1. starts \in 0 .. MaxStarts
    OBVIOUS
  <2>2. QED
    BY <2>1 DEF LifeTypeOK
<1>2. TypeOK
  <2>1. got \in -1 .. BufLen
    OBVIOUS
  <2>2. QED
    BY <1>1, <2>1 DEF TypeOK
<1>3. LifeInv
    BY DEF LifeInv, ThreadGone
<1>4. DenseIds
    BY DEF DenseIds, NextId, NextAfter
<1>5. RoundInv /\ OneIdPerAddress /\ IteratorStaysValid
    BY DEF RoundInv, CallbackNamesSender, OneIdPerAddress, IteratorStaysValid
<1>6. QED
    BY <1>2, <1>3, <1>4, <1>5 DEF IInv

\* The invariant speaks of the variables of the specification only.
LEMMA StutterInv == IInv /\ UNCHANGED vars => IInv'
<1> SUFFICES ASSUME IInv, UNCHANGED vars PROVE IInv'
    OBVIOUS
<1> USE DEF vars, lifeVars, loopVars, appVars, netVars, IInv
<1>1. (TypeOK /\ LifeInv)'
    BY DEF TypeOK, LifeTypeOK, LifeInv, ThreadGone
<1>2. (DenseIds /\ OneIdPerAddress)'
    BY DEF DenseIds, OneIdPerAddress, NextId
<1>3. (RoundInv /\ IteratorStaysValid)'
    BY DEF RoundInv, CallbackNamesSender, IteratorStaysValid
<1>4. QED
    BY <1>1, <1>2, <1>3

\* The inductive invariant holds in every state of the datagram servers.
THEOREM Invariance == Spec => []IInv
<1>1. IInv /\ [Next]_vars => IInv'
  <2> SUFFICES ASSUME IInv, [Next]_vars PROVE IInv'
      OBVIOUS
  <2>1. CASE fault = "none" /\ ServerStep
      BY <2>1, ServerStepInv
  <2>2. CASE /\ fault = "none"
             /\ \/ PollFails \/ CallbackStops \/ Manage \/ AppStep \/ GetClientIds
                \/ \E i \in known : SendFind(i)
      BY <2>2, OwnerStepInv
  <2>3. CASE fault = "none" /\ \E a \in Addrs : Network(a)
      BY <2>3, NetworkInv
  <2>4. CASE Ended \/ UNCHANGED vars
      BY <2>4, StutterInv DEF Ended
  <2>5. QED
      BY <2>1, <2>2, <2>3, <2>4 DEF Next
<1>2. QED
    BY <1>1, InitInv, PTL DEF Spec

(***************************************************************************)
(* Type correctness of the datagram servers: recvfrom() never stores more  *)
(* than sizeof(msg_), and clients_ maps ids to addresses.                  *)
(***************************************************************************)
THEOREM Types == Spec => []TypeOK
<1>1. IInv => TypeOK
    BY DEF IInv
<1>2. QED
    BY <1>1, Invariance, PTL

\* addClient never lists the same address under two ids.
THEOREM OneId == Spec => []OneIdPerAddress
<1>1. IInv => OneIdPerAddress
    BY DEF IInv
<1>2. QED
    BY <1>1, Invariance, PTL

(***************************************************************************)
(* From addClient to the end of the callback the id names the sender of    *)
(* the message in msg_.                                                    *)
(***************************************************************************)
THEOREM CallbackIds == Spec => []CallbackNamesSender
<1>1. IInv => CallbackNamesSender
    BY DEF IInv, RoundInv
<1>2. QED
    BY <1>1, Invariance, PTL

(***************************************************************************)
(* The iterator sendMessageToClient uses after unlock() points at an       *)
(* entry.                                                                  *)
(***************************************************************************)
THEOREM Iterators == Spec => []IteratorStaysValid
<1>1. IInv => IteratorStaysValid
    BY DEF IInv
<1>2. QED
    BY <1>1, Invariance, PTL

\* No step but the destruction removes an id or changes its address.
LEMMA KeptIds ==
    ASSUME IInv, Next
    PROVE  \A i \in DOMAIN clients :
              \/ i \in DOMAIN clients' /\ clients'[i] = clients[i]
              \/ apc' = "destroyed"
<1>1. CASE AddClient
  <2>1. from \in Addrs
    BY <1>1 DEF AddClient, Goto, IInv, RoundInv
  <2>2. CASE UNCHANGED clients
    BY <2>2
  <2>3. CASE Emplace(NextId, from)
    BY <2>1, <2>3, Added DEF IInv
  <2>4. QED
    BY <1>1, <2>2, <2>3 DEF AddClient
<1>2. CASE Destroy
    BY <1>2 DEF Destroy, DtorClose
<1>3. CASE ~(AddClient \/ Destroy)
  <2>1. UNCHANGED clients
    BY <1>3 DEF Next, Ended, vars, ServerStep, Entry, Poll, Receive, ReceiveFails, NoDatagram,
        Callback,
           ReplyFind, ReplySend, NoReply, Pipe, PollFails, CallbackStops, Manage, AppStep, Joins,
           GetClientIds, SendFind, SendThrough, Network
  <2>2. QED
    BY <2>1
<1>4. QED
    BY <1>1, <1>2, <1>3

(***************************************************************************)
(* An id keeps its address over stops and restarts, until the server is    *)
(* destroyed.                                                              *)
(***************************************************************************)
THEOREM Permanent == Spec => IdsArePermanent
<1>1. IInv /\ [Next]_vars
         => [\A i \in DOMAIN clients :
               \/ i \in DOMAIN clients' /\ clients'[i] = clients[i]
               \/ apc' = "destroyed"]_vars
    BY KeptIds
<1>2. QED
    BY <1>1, Invariance, PTL DEF Spec, IdsArePermanent

-----------------------------------------------------------------------------
(* What is queued, and the abstract address book.                          *)

\* The places of the datagrams of an address in a queue.
Places(q, a) == {i \in 1 .. Len(q) : q[i].from = a}

\* There are finitely many.
LEMMA FinitePlaces ==
    ASSUME NEW q \in Seq(Datagrams), NEW a
    PROVE  IsFiniteSet(Places(q, a)) /\ Cardinality(Places(q, a)) \in Nat
<1>1. IsFiniteSet(1 .. Len(q))
    BY FS_Interval
<1>2. Places(q, a) \subseteq 1 .. Len(q)
    BY DEF Places
<1>3. IsFiniteSet(Places(q, a))
    BY <1>1, <1>2, FS_Subset
<1>4. QED
    BY <1>3, FS_CardinalityType

\* A datagram more at the end counts for its sender.
LEMMA AppendPlaces ==
    ASSUME NEW q \in Seq(Datagrams), NEW d \in Datagrams, NEW a
    PROVE  Cardinality(Places(Append(q, d), a))
             = Cardinality(Places(q, a)) + (IF d.from = a THEN 1 ELSE 0)
<1> DEFINE r == Append(q, d)
<1>1. /\ Len(r) = Len(q) + 1
      /\ \A i \in 1 .. Len(q) : r[i] = q[i]
      /\ r[Len(q) + 1] = d
      /\ Len(q) \in Nat
    OBVIOUS
<1> HIDE DEF r
<1>2. Len(q) + 1 \notin Places(q, a)
    BY <1>1 DEF Places
<1>3. CASE d.from = a
  <2>1. Places(r, a) = Places(q, a) \cup {Len(q) + 1}
    BY <1>1, <1>3 DEF Places
  <2>2. QED
    BY <1>2, <1>3, <2>1, FinitePlaces, FS_AddElement DEF r
<1>4. CASE d.from # a
  <2>1. Places(r, a) = Places(q, a)
    BY <1>1, <1>4 DEF Places
  <2>2. QED
    BY <1>4, <2>1, FinitePlaces DEF r
<1>5. QED
    BY <1>3, <1>4

\* Taking the head of a queue moves the others up one place.
LEMMA TailPlaces ==
    ASSUME NEW q \in Seq(Datagrams), q # <<>>, NEW a
    PROVE  Cardinality(Places(q, a))
             = Cardinality(Places(Tail(q), a)) + (IF Head(q).from = a THEN 1 ELSE 0)
<1> DEFINE r == Tail(q)
           Rest == Places(q, a) \ {1}
<1>1. /\ Len(q) \in Nat /\ Len(q) >= 1
      /\ Len(r) = Len(q) - 1
      /\ \A i \in 1 .. Len(r) : r[i] = q[i + 1]
      /\ Head(q) = q[1]
      /\ r \in Seq(Datagrams)
    OBVIOUS
<1> HIDE DEF r
<1>2. IsFiniteSet(Places(r, a)) /\ Cardinality(Places(r, a)) \in Nat
    BY <1>1, FinitePlaces
<1>3. Cardinality(Rest) = Cardinality(Places(r, a))
  <2> DEFINE up == [i \in Places(r, a) |-> i + 1]
  <2>1. \A i \in Places(r, a) : i + 1 \in Rest
    BY <1>1 DEF Places
  <2>2. \A j \in Rest : j - 1 \in Places(r, a) /\ (j - 1) + 1 = j
    BY <1>1 DEF Places
  <2>3. Places(r, a) \subseteq Nat
    BY DEF Places
  <2>4. up \in [Places(r, a) -> Rest]
    BY <2>1
  <2>5. \A i, j \in Places(r, a) : up[i] = up[j] => i = j
    BY <2>3
  <2>6. \A j \in Rest : \E i \in Places(r, a) : up[i] = j
    BY <2>2
  <2>7. ExistsBijection(Places(r, a), Rest)
    <3> HIDE DEF up, Rest
    <3>1. QED
      BY <2>4, <2>5, <2>6 DEF ExistsBijection, Bijection, Injection, Surjection, IsInjective
  <2>8. QED
    BY <1>2, <2>7, FS_Bijection
<1>4. Cardinality(Rest) = IF 1 \in Places(q, a)
                          THEN Cardinality(Places(q, a)) - 1 ELSE Cardinality(Places(q, a))
    BY FinitePlaces, FS_RemoveElement
<1>5. 1 \in Places(q, a) <=> Head(q).from = a
    BY <1>1 DEF Places
<1>6. QED
    BY <1>2, <1>3, <1>4, <1>5, FinitePlaces DEF r

\* Steps of the datagrams: only these three move one.
Quiet(a) == Queued(a)' = Queued(a) /\ InHand(a)' = InHand(a)

\* The counts are numbers.
LEMMA Counts ==
    ASSUME IInv, NEW a \in Addrs
    PROVE  Queued(a) \in Nat /\ InHand(a) \in 0 .. 1
<1>1. inbox \in Seq(Datagrams)
    BY DEF IInv, TypeOK
<1>2. Queued(a) \in Nat
    BY <1>1, FinitePlaces DEF Queued, Places
<1>3. QED
    BY <1>2 DEF InHand

\* An arrival is one datagram more in the queue.
LEMMA ArriveCounts ==
    ASSUME IInv, NEW b \in Addrs, NEW n \in Lengths, Arrive(b, n), UNCHANGED <<spc, from, got>>,
           NEW a \in Addrs
    PROVE  /\ Queued(a)' = Queued(a) + (IF a = b THEN 1 ELSE 0)
           /\ InHand(a)' = InHand(a)
<1> DEFINE d == [from |-> b, len |-> n]
<1>1. inbox \in Seq(Datagrams) /\ d \in Datagrams /\ d.from = b
    BY DEF IInv, TypeOK, Datagrams
<1>2. inbox' = Append(inbox, d)
    BY DEF Arrive
<1>3. Queued(a)' = Queued(a) + (IF d.from = a THEN 1 ELSE 0)
  <2>1. Queued(a) = Cardinality(Places(inbox, a)) /\ Queued(a)' = Cardinality(Places(inbox', a))
    BY DEF Queued, Places
  <2>2. QED
    BY <1>1, <1>2, <2>1, AppendPlaces
<1>4. QED
    BY <1>1, <1>3 DEF InHand

\* Receiving one takes it off the queue and into the hand of the thread.
LEMMA ReceiveCounts ==
    ASSUME IInv, fault = "none", Receive, NEW a \in Addrs
    PROVE  InHand(a)' + Queued(a)' = InHand(a) + Queued(a)
<1>1. inbox \in Seq(Datagrams) /\ inbox # <<>> /\ inbox' = Tail(inbox)
    BY DEF IInv, TypeOK, Receive, RoundInv, Goto
<1>2. Queued(a) = Queued(a)' + (IF Head(inbox).from = a THEN 1 ELSE 0)
  <2>1. Queued(a) = Cardinality(Places(inbox, a)) /\ Queued(a)' = Cardinality(Places(inbox', a))
    BY DEF Queued, Places
  <2>2. QED
    BY <1>1, <2>1, TailPlaces
<1>3. InHand(a) = 0 /\ InHand(a)' = IF Head(inbox).from = a THEN 1 ELSE 0
  <2>1. Head(inbox) \in Datagrams
    BY <1>1
  <2>2. got' \in 0 .. BufLen
    <3>1. Head(inbox).len \in Nat
      BY <2>1, DgramAssumption DEF Datagrams, DgramAssumption
    <3>2. QED
      BY <3>1, CutLength DEF Receive
  <2>3. QED
    BY <2>2, DgramAssumption DEF Receive, Goto, InHand, DgramAssumption
<1>4. Queued(a)' \in Nat
    <2>1. inbox' \in Seq(Datagrams)
      BY <1>1
    <2>2. QED
      BY <2>1, FinitePlaces DEF Queued, Places
<1>5. QED
    BY <1>2, <1>3, <1>4

\* The callback takes one from the hand of the thread.
LEMMA CallbackCounts ==
    ASSUME IInv, Callback, NEW a \in Addrs
    PROVE  /\ Queued(a)' = Queued(a)
           /\ InHand(a) = IF a = from /\ got >= 0 THEN 1 ELSE 0
           /\ InHand(a)' = 0
<1>1. spc = "callback" /\ spc' = "reply" /\ from' = from /\ inbox' = inbox
    BY DEF Callback, Goto, loopVars
<1>2. Queued(a)' = Queued(a)
    BY <1>1 DEF Queued
<1>3. QED
    BY <1>1, <1>2 DEF InHand

\* No other step but the destruction moves a datagram.
LEMMA OtherCounts ==
    ASSUME IInv, Next, ~Receive, ~Callback, ~Destroy,
           ~\E b \in Addrs, n \in Lengths : Arrive(b, n) /\ UNCHANGED <<spc, from, got>>
    PROVE  (\A a \in Addrs : Quiet(a)) /\ given' = given /\ arrived' = arrived
<1>1. inbox' = inbox /\ given' = given /\ arrived' = arrived
    BY DEF Next, Ended, vars, ServerStep, Entry, Poll, ReceiveFails, NoDatagram, AddClient,
        ReplyFind, ReplySend,
           NoReply, Pipe, PollFails, CallbackStops, Manage, AppStep, Joins, GetClientIds,
           SendFind, SendThrough,
           Network, SendTo, PeerRead, PeerLeave, PeerBind, lifeVars, loopVars, netVars
<1>2. \/ spc' = spc /\ from' = from /\ got' = got
      \/ spc \notin {"add", "callback"} /\ spc' \notin {"add", "callback"}
      \/ spc = "add" /\ spc' = "callback" /\ from' = from /\ got' = got
      \/ spc = "listen" /\ got' = -1
  <2>1. CASE ServerStep
      BY <2>1 DEF ServerStep, Entry, RunServerEntry, LoopHead, Poll, ReceiveFails, NoDatagram,
          AddClient, ReplyFind,
           ReplySend, LeaveBlock, NoReply, Pipe, Goto, loopVars
  <2>2. CASE PollFails \/ CallbackStops
      BY <2>2 DEF PollFails, PollError, CallbackStops, StopInCallback, loopVars
  <2>3. CASE /\ fault = "none"
             /\ Manage \/ Joins \/ SendThrough \/ GetClientIds \/ \E i \in known : SendFind(i)
      BY <2>3 DEF Manage, Joins, StartServer, StopServer, DtorStop, StopJoin, DtorJoin, SendThrough,
           GetClientIds, SendFind, lifeVars, loopVars, LifeInv, IInv, ThreadGone
  <2>4. CASE Ended \/ \E b \in Addrs : Network(b)
      BY <2>4 DEF Ended, Network, vars, lifeVars, loopVars
  <2>5. QED
      BY <2>1, <2>2, <2>3, <2>4 DEF Next, AppStep
<1>3. ASSUME NEW a \in Addrs
      PROVE  Quiet(a)
  <2>1. Queued(a)' = Queued(a)
    BY <1>1 DEF Queued
  <2>2. InHand(a)' = InHand(a)
    BY <1>2 DEF InHand
  <2>3. QED
    BY <2>1, <2>2 DEF Quiet
<1>4. QED
    BY <1>1, <1>3

\* No step loses or duplicates a datagram.
LEMMA GivenOnceStep ==
    ASSUME IInv, EachGivenOnce, Next
    PROVE  EachGivenOnce'
<1> SUFFICES ASSUME NEW a \in Addrs, apc' # "destroyed"
             PROVE  (arrived[a] = given[a] + InHand(a) + Queued(a))'
    BY DEF EachGivenOnce
<1>1. /\ Queued(a) \in Nat /\ InHand(a) \in 0 .. 1
      /\ arrived \in [Addrs -> Nat] /\ given \in [Addrs -> Nat]
    BY Counts DEF IInv, TypeOK
<1>2. apc # "destroyed"
    BY DEF Next, Ended, vars, lifeVars, ServerStep, Entry, RunServerEntry, Poll, Receive,
        ReceiveFails, NoDatagram,
           AddClient, Callback, ReplyFind, ReplySend, NoReply, Pipe, Goto, PollFails, PollError,
           CallbackStops, StopInCallback, Manage, StartServer, StopServer, DtorStop, AppStep,
           Joins, StopJoin, DtorJoin, Destroy,
           DtorClose, SendThrough, GetClientIds, SendFind, Network
<1>3. arrived[a] = given[a] + InHand(a) + Queued(a)
    BY <1>2 DEF EachGivenOnce
<1>4. CASE fault = "none" /\ Receive
  <2>1. UNCHANGED <<arrived, given>>
    BY <1>4 DEF Receive
  <2>2. InHand(a)' + Queued(a)' = InHand(a) + Queued(a)
    BY <1>4, ReceiveCounts
  <2>3. InHand(a)' \in 0 .. 1 /\ Queued(a)' \in Nat
    <3>1. inbox \in Seq(Datagrams) /\ inbox # <<>> /\ inbox' = Tail(inbox)
      BY <1>4 DEF IInv, TypeOK, Receive, RoundInv, Goto
    <3>2. inbox' \in Seq(Datagrams)
      BY <3>1
    <3>3. Queued(a)' = Cardinality(Places(inbox', a))
      BY DEF Queued, Places
    <3>4. Queued(a)' \in Nat
      BY <3>2, <3>3, FinitePlaces
    <3>5. QED
      BY <3>4 DEF InHand
  <2>4. QED
    BY <1>1, <1>3, <2>1, <2>2, <2>3
<1>5. CASE Callback
  <2>1. /\ from \in Addrs /\ arrived' = arrived
        /\ given' = IF got >= 0 THEN [given EXCEPT ![from] = @ + 1] ELSE given
    BY <1>5 DEF IInv, RoundInv, Callback, Goto
  <2>2. given'[a] = given[a] + InHand(a)
    BY <1>1, <1>5, <2>1, CallbackCounts
  <2>3. QED
    BY <1>1, <1>3, <1>5, <2>1, <2>2, CallbackCounts
<1>6. CASE \E b \in Addrs, n \in Lengths : Arrive(b, n) /\ UNCHANGED <<spc, from, got>>
  <2>1. PICK b \in Addrs, n \in Lengths : Arrive(b, n) /\ UNCHANGED <<spc, from, got>>
    BY <1>6
  <2>2. given' = given /\ arrived'[a] = arrived[a] + (IF a = b THEN 1 ELSE 0)
    BY <1>1, <2>1 DEF Arrive
  <2>3. QED
    BY <1>1, <1>3, <2>1, <2>2, ArriveCounts
<1>7. CASE /\ ~Receive /\ ~Callback
           /\ ~\E b \in Addrs, n \in Lengths : Arrive(b, n) /\ UNCHANGED <<spc, from, got>>
  <2>1. ~Destroy
    BY DEF Destroy, DtorClose
  <2>2. QED
    BY <1>3, <1>7, <2>1, OtherCounts DEF Quiet
<1>8. QED
    BY <1>4, <1>5, <1>6, <1>7 DEF Next, Ended, vars, lifeVars, Receive, Goto

(***************************************************************************)
(* Every datagram the socket accepted is given to the callback exactly     *)
(* once, for any queue, number of starts and of datagrams.                 *)
(***************************************************************************)
THEOREM GivenOnce == Spec => []EachGivenOnce
<1>1. Init => EachGivenOnce
  <2> SUFFICES ASSUME Init, NEW a \in Addrs
               PROVE  arrived[a] = given[a] + InHand(a) + Queued(a)
      BY DEF EachGivenOnce
  <2>1. 1 .. Len(inbox) = {}
      BY DEF Init
  <2>2. Queued(a) = 0
      BY <2>1, FS_EmptySet DEF Queued
  <2>3. QED
      BY <2>2 DEF Init, LifeInit, InHand
<1>2. IInv /\ EachGivenOnce /\ [Next]_vars => EachGivenOnce'
  <2>1. CASE UNCHANGED vars
      BY <2>1 DEF EachGivenOnce, Queued, InHand, vars, lifeVars, loopVars, netVars
  <2>2. QED
      BY <2>1, GivenOnceStep
<1>3. QED
    BY <1>1, <1>2, Invariance, PTL DEF Spec

-----------------------------------------------------------------------------
(* The refinement.                                                         *)

\* What Pending is, by address.
PendingOK ==
    /\ Pending \in [Addrs -> Nat]
    /\ \A a \in Addrs : apc # "destroyed" => Pending[a] = InHand(a) + Queued(a)
    /\ \A a \in Addrs : apc = "destroyed" => Pending[a] = 0
    /\ \A a \in Addrs : Queued(a) \in Nat /\ InHand(a) \in 0 .. 1

\* It is a count.
LEMMA PendingValue == IInv => PendingOK
<1> SUFFICES ASSUME IInv PROVE PendingOK
    OBVIOUS
<1>1. \A a \in Addrs : Queued(a) \in Nat /\ InHand(a) \in 0 .. 1
    BY Counts
<1> HIDE DEF Queued, InHand
<1>2. QED
    BY <1>1 DEF Pending, PendingOK

\* So it is after a step.
LEMMA PendingNext == IInv' => PendingOK'
<1>1. QED
    BY PendingValue, PTL

\* Only the destruction makes a server destroyed.
LEMMA DestroyedBy ==
    ASSUME Next, ~Destroy
    PROVE  apc' = "destroyed" <=> apc = "destroyed"
<1>1. QED
    BY DEF Next, Ended, vars, lifeVars, ServerStep, Entry, RunServerEntry, Poll, Receive,
        ReceiveFails, NoDatagram,
           AddClient, Callback, ReplyFind, ReplySend, NoReply, Pipe, Goto, PollFails, PollError,
           CallbackStops, StopInCallback, Manage, StartServer, StopServer, DtorStop, AppStep,
           Joins, StopJoin, DtorJoin,
           SendThrough, GetClientIds, SendFind, Network

\* Only addClient and the destruction change clients_.
LEMMA TableChangedBy ==
    ASSUME Next, ~AddClient, ~Destroy
    PROVE  clients' = clients
<1>1. QED
    BY DEF Next, Ended, vars, ServerStep, Entry, Poll, Receive, ReceiveFails, NoDatagram, Callback,
           ReplyFind, ReplySend, NoReply, Pipe, PollFails, CallbackStops, Manage, AppStep, Joins,
           GetClientIds, SendFind, SendThrough, Network

\* The initial states of the server are initial states of the book.
LEMMA BookInit == Init => Book!Init
<1> SUFFICES ASSUME Init PROVE Book!Init
    OBVIOUS
<1>1. \A a \in Addrs : Queued(a) = 0 /\ InHand(a) = 0
  <2>1. 1 .. Len(inbox) = {}
      BY DEF Init
  <2>2. QED
      BY <2>1, FS_EmptySet DEF Queued, InHand, Init, LifeInit
<1>2. Pending = [a \in Addrs |-> 0]
    BY <1>1 DEF Pending
<1>3. QED
    BY <1>2 DEF Book!Init, Init, LifeInit

\* Every step of the server is a step of the book, or none.
LEMMA BookStep ==
    ASSUME IInv, IInv', Next
    PROVE  Book!Next \/ UNCHANGED Book!bookVars
<1>1. PendingOK /\ PendingOK'
    BY PendingValue, PendingNext
<1>2. given \in [Addrs -> Nat]
    BY DEF IInv, TypeOK
<1>3. ASSUME NEW b \in Addrs, NEW n \in Lengths, Arrive(b, n), UNCHANGED <<spc, from, got>>,
             apc' = apc, clients' = clients
      PROVE  Book!Arrive(b) \/ UNCHANGED Book!bookVars
  <2>1. given' = given
    BY <1>3 DEF Arrive
  <2>2. CASE apc = "destroyed"
    <3>1. \A a \in Addrs : Pending'[a] = Pending[a]
      BY <1>1, <1>3, <2>2 DEF PendingOK
    <3>2. Pending' = Pending
      BY <1>1, <3>1 DEF PendingOK
    <3>3. QED
      BY <1>3, <2>1, <3>2 DEF Book!bookVars
  <2>3. CASE apc # "destroyed"
    <3>1. \A a \in Addrs : Pending'[a] = Pending[a] + (IF a = b THEN 1 ELSE 0)
      <4> TAKE a \in Addrs
      <4>1. Queued(a)' = Queued(a) + (IF a = b THEN 1 ELSE 0) /\ InHand(a)' = InHand(a)
        BY <1>3, ArriveCounts
      <4>2. /\ Pending'[a] = InHand(a)' + Queued(a)' /\ Pending[a] = InHand(a) + Queued(a)
            /\ Queued(a) \in Nat /\ InHand(a) \in Nat
        BY <1>1, <1>3, <2>3 DEF PendingOK
      <4>3. QED
        BY <4>1, <4>2
    <3>2. Pending' = [Pending EXCEPT ![b] = @ + 1]
      <4> HIDE DEF Pending
      <4>1. QED
        BY <1>1, <3>1 DEF PendingOK
    <3>3. QED
      BY <1>3, <2>1, <2>3, <3>2 DEF Book!Arrive
  <2>4. QED
    BY <2>2, <2>3
<1>4. CASE fault = "none" /\ Receive
  <2>1. \A a \in Addrs : InHand(a)' + Queued(a)' = InHand(a) + Queued(a)
    BY <1>4, ReceiveCounts
  <2>2. apc' = apc /\ clients' = clients /\ given' = given
    BY <1>4 DEF Receive, Goto
  <2>3. \A a \in Addrs : Pending'[a] = Pending[a]
    BY <1>1, <2>1, <2>2 DEF PendingOK
  <2>4. Pending' = Pending
    BY <1>1, <2>3 DEF PendingOK
  <2>5. QED
    BY <2>2, <2>4 DEF Book!bookVars
<1>5. got \in Int
  BY DgramAssumption DEF IInv, TypeOK, DgramAssumption
<1>6. CASE Callback /\ fault = "none" /\ got < 0
  <2>1. given' = given /\ clients' = clients /\ apc' = apc
    BY <1>6, <1>5 DEF Callback, Goto
  <2>2. \A a \in Addrs : InHand(a)' = InHand(a) /\ Queued(a)' = Queued(a)
    BY <1>6, <1>5, CallbackCounts
  <2>3. \A a \in Addrs : Pending'[a] = Pending[a]
    BY <1>1, <2>1, <2>2 DEF PendingOK
  <2>4. Pending' = Pending
    BY <1>1, <2>3 DEF PendingOK
  <2>5. QED
    BY <2>1, <2>4 DEF Book!bookVars
<1>7. CASE Callback /\ fault = "none" /\ got >= 0
  <2>1. /\ from \in Addrs /\ clientId \in DOMAIN clients /\ clients[clientId] = from
        /\ given' = [given EXCEPT ![from] = @ + 1] /\ clients' = clients
        /\ apc' = apc /\ apc # "destroyed"
    BY <1>7 DEF IInv, RoundInv, CallbackNamesSender, LifeInv, ThreadGone, Callback, Goto
  <2>2. \A a \in Addrs : /\ Queued(a)' = Queued(a)
                         /\ InHand(a) = IF a = from THEN 1 ELSE 0
                         /\ InHand(a)' = 0
    BY <1>7, CallbackCounts
  <2>3. \A a \in Addrs : Pending'[a] = Pending[a] - (IF a = from THEN 1 ELSE 0)
    BY <1>1, <2>1, <2>2 DEF PendingOK
  <2>4. Pending[from] > 0
    BY <1>1, <2>1, <2>2 DEF PendingOK
  <2>5. Pending' = [Pending EXCEPT ![from] = @ - 1]
    <3> HIDE DEF Pending
    <3>1. QED
      BY <1>1, <2>3 DEF PendingOK
  <2>6. from \in Book!Range(clients)
    BY <2>1 DEF Book!Range
  <2>7. Book!Deliver(from)
    BY <2>1, <2>4, <2>5, <2>6 DEF Book!Deliver
  <2>8. QED
    BY <2>1, <2>7 DEF Book!Next
<1>8. CASE Destroy
  <2>1. /\ apc # "destroyed" /\ apc' = "destroyed" /\ given' = given
        /\ clients' \in {<<>>, clients}
    BY <1>8 DEF Destroy, DtorClose
  <2>2. \A a \in Addrs : Pending'[a] = 0
    BY <1>1, <2>1 DEF PendingOK
  <2>3. Pending' = [a \in Addrs |-> 0]
    BY <1>1, <2>2 DEF PendingOK
  <2>4. QED
    BY <2>1, <2>3 DEF Book!Next, Book!Close
<1>9. CASE /\ ~Receive /\ ~Callback /\ ~Destroy
           /\ ~\E b \in Addrs, n \in Lengths : Arrive(b, n) /\ UNCHANGED <<spc, from, got>>
  <2>1. given' = given /\ \A a \in Addrs : Quiet(a)
    BY <1>9, OtherCounts
  <2>2. apc' = "destroyed" <=> apc = "destroyed"
    BY <1>9, DestroyedBy
  <2>3. \A a \in Addrs : Pending'[a] = Pending[a]
    BY <1>1, <2>1, <2>2 DEF PendingOK, Quiet
  <2>4. Pending' = Pending
    BY <1>1, <2>3 DEF PendingOK
  <2>5. CASE clients' = clients
    BY <2>1, <2>2, <2>4, <2>5 DEF Book!bookVars
  <2>6. CASE AddClient /\ clients' # clients
    <3>1. /\ fault = "none" => apc # "destroyed"
          /\ from \in Addrs /\ Match(from) = {} /\ Emplace(NextId, from)
      BY <2>6 DEF AddClient, Goto, IInv, RoundInv, LifeInv, ThreadGone
    <3>2. /\ NextId \in Nat /\ NextId \notin DOMAIN clients
          /\ DOMAIN clients' = DOMAIN clients \cup {NextId}
          /\ clients' = [j \in DOMAIN clients \cup {NextId} |->
                           IF j = NextId THEN from ELSE clients[j]]
      <4>1. NextId \in Nat /\ NextId \notin DOMAIN clients
        BY <3>1, Added DEF IInv, DenseIds
      <4>2. QED
        BY <3>1, <4>1 DEF Emplace
    <3>3. from \notin Book!Range(clients)
      BY <3>1 DEF Match, Book!Range
    <3>4. fault = "none" /\ spc = "add"
      BY <2>6 DEF Next, Ended, vars, AddClient, Goto
    <3>5. Pending[from] > 0 \/ from = Unnamed
      <4>0. SUFFICES ASSUME got >= 0 PROVE Pending[from] > 0
        <5>1. got \in Int
          BY DgramAssumption DEF IInv, TypeOK, DgramAssumption
        <5>2. QED
          BY <3>4, <5>1 DEF IInv, RoundInv
      <4>1. InHand(from) = 1
        BY <3>4, <4>0 DEF InHand
      <4>2. QED
        BY <1>1, <3>1, <3>4, <4>1 DEF PendingOK
    <3>6. Book!Register(from)
      BY <2>1, <2>2, <2>4, <3>2, <3>3, <3>5 DEF Book!Register
    <3>7. QED
      BY <3>1, <3>4, <3>6 DEF Book!Next
  <2>7. QED
    BY <1>9, <2>5, <2>6, TableChangedBy
<1>10. QED
  <2>1. CASE \E b \in Addrs, n \in Lengths : Arrive(b, n) /\ UNCHANGED <<spc, from, got>>
    <3>1. PICK b \in Addrs, n \in Lengths : Arrive(b, n) /\ UNCHANGED <<spc, from, got>>
      BY <2>1
    <3>2. inbox' # inbox /\ inbox' # <<>>
      <4>1. inbox' = Append(inbox, [from |-> b, len |-> n]) /\ inbox \in Seq(Datagrams)
        BY <3>1 DEF Arrive, IInv, TypeOK
      <4>2. Len(inbox') = Len(inbox) + 1 /\ Len(inbox) \in Nat
        BY <4>1
      <4>3. QED
        BY <4>2
    <3>3. \E a \in Addrs : Network(a)
      BY <3>1, <3>2 DEF Next, Ended, vars, ServerStep, Entry, Poll, Receive, ReceiveFails,
          NoDatagram, AddClient,
           Callback, ReplyFind, ReplySend, NoReply, Pipe, Goto, PollFails, CallbackStops, Manage,
           AppStep, Joins,
           Destroy, GetClientIds, SendFind, SendThrough, SendTo, loopVars, netVars
    <3>4. apc' = apc /\ clients' = clients
      BY <3>3 DEF Network, lifeVars
    <3>5. CASE apc = "destroyed"
      <4>1. \A a \in Addrs : Pending'[a] = Pending[a]
        BY <1>1, <3>4, <3>5 DEF PendingOK
      <4>2. Pending' = Pending
        BY <1>1, <4>1 DEF PendingOK
      <4>3. given' = given
        BY <3>1 DEF Arrive
      <4>4. QED
        BY <3>4, <4>2, <4>3 DEF Book!bookVars
    <3>6. QED
      BY <1>3, <3>1, <3>4, <3>5 DEF Book!Next
  <2>2. CASE fault # "none"
    <3>1. UNCHANGED vars
      BY <2>2 DEF Next, Ended
    <3>2. QED
      BY <3>1 DEF vars, lifeVars, loopVars, netVars, Book!bookVars, Pending, InHand, Queued
  <2>3. QED
    BY <1>4, <1>5, <1>6, <1>7, <1>8, <1>9, <2>1, <2>2

(***************************************************************************)
(* The datagram servers, UDP and Unix, implement AddressBook, for any      *)
(* addresses, lengths, queues and starts.                                  *)
(***************************************************************************)
THEOREM BookRefinement == Spec => ImplementsBook
<1>1. IInv /\ IInv' /\ [Next]_vars => [Book!Next]_(Book!bookVars)
  <2>1. CASE UNCHANGED vars
      BY <2>1 DEF vars, lifeVars, loopVars, netVars, Book!bookVars, Pending, InHand, Queued
  <2>2. QED
      BY <2>1, BookStep
<1>2. QED
    BY <1>1, BookInit, Invariance, PTL DEF Spec, ImplementsBook, Book!Spec

-----------------------------------------------------------------------------
(* The pipe, and the steps of a thread that is told to end.                *)

\* No step leaves the pipe open for a caller that waits, or a stopped thread unjoined.
LEMMA StopInvStep ==
    ASSUME IInv, StopInv, [Next]_vars
    PROVE  StopInv'
<1> USE DEF StopInv, Stopping, TerminatesUnstoppedOnly
<1>1. CASE StartServer
    BY <1>1 DEF StartServer
<1>2. CASE StopServer
    BY <1>2 DEF StopServer
<1>3. CASE DtorStop
    BY <1>3 DEF DtorStop
<1>4. CASE Joins
    BY <1>4 DEF Joins, StopJoin, DtorJoin, Joined
<1>5. CASE fault = "none" /\ Destroy
    BY <1>5 DEF Destroy, DtorClose
<1>6. CASE fault = "none" /\ CallbackStops
    BY <1>6 DEF CallbackStops, StopInCallback, IInv, LifeInv, ThreadGone
<1>7. CASE ~(StartServer \/ StopServer \/ DtorStop \/ Joins \/ Destroy \/ CallbackStops)
  <2>1. /\ UNCHANGED <<pipeOpen, joinable, fault>>
        /\ UNCHANGED apc \/ (apc = "idle" /\ apc' = "send") \/ (apc = "send" /\ apc' = "idle")
    BY <1>7 DEF Next, vars, lifeVars, Ended, ServerStep, Entry, RunServerEntry, Poll, Receive,
        ReceiveFails,
       NoDatagram, AddClient, Callback, ReplyFind, ReplySend, NoReply, Pipe, Goto, PollFails,
       PollError, Manage, AppStep, GetClientIds, SendFind, SendThrough, Network
  <2>2. QED
    BY <2>1
<1>8. CASE UNCHANGED vars
    BY <1>8 DEF vars, lifeVars
<1>9. fault = "none" \/ UNCHANGED vars
    BY DEF Next, Ended
<1>10. QED
    BY <1>1, <1>2, <1>3, <1>4, <1>5, <1>6, <1>7, <1>8, <1>9

\* The pipe of a running server is open until somebody waits for the thread.
LEMMA StopInvariance == Spec => []StopInv
<1>1. Init => StopInv
    BY DEF Init, LifeInit, StopInv, Stopping, TerminatesUnstoppedOnly
<1>2. QED
    BY <1>1, StopInvStep, Invariance, PTL DEF Spec

(***************************************************************************)
(* The destructor of a datagram server ends the process only over a thread *)
(* that nobody has told to end.                                            *)
(***************************************************************************)
THEOREM Unstopped == Spec => []TerminatesUnstoppedOnly
    BY StopInvariance, PTL DEF StopInv

(***************************************************************************)
(* A step of the server thread that somebody waits for takes it nearer to  *)
(* its end: the only poll() it may still make reports the pipe.            *)
(***************************************************************************)
LEMMA StepsLeftStep ==
    ASSUME StopInv, fault = "none", Next, Stopping, spc' # spc
    PROVE  StepsLeft' < StepsLeft
<1>1. RestOfRound \in {1, 8}
    BY DEF RestOfRound
<1>2. ASSUME UNCHANGED revents
      PROVE  RestOfRound' = RestOfRound
    BY <1>2 DEF RestOfRound
<1>3. CASE Entry \/ PollFails
  <2>1. \/ spc = "entry" /\ spc' \in {"poll", "exited"}
        \/ spc = "poll" /\ spc' = "exited"
    BY <1>3 DEF Entry, RunServerEntry, LoopHead, PollFails, PollError
  <2>2. QED
    BY <2>1 DEF StepsLeft
<1>4. CASE Poll
  <2>1. spc = "poll" /\ spc' = "listen" /\ revents' = Reported /\ ~pipeOpen
    BY <1>4 DEF Poll, Goto, StopInv
  <2>2. revents'.pipe = TRUE
    BY <2>1 DEF Reported
  <2>3. RestOfRound' = 1
    BY <2>2 DEF RestOfRound
  <2>4. QED
    BY <2>1, <2>3 DEF StepsLeft
<1>5. CASE \/ Receive \/ ReceiveFails \/ NoDatagram \/ AddClient \/ Callback \/ (\E i \in known : ReplyFind(i))
           \/ ReplySend \/ NoReply
  <2>1. /\ UNCHANGED revents
        /\ \/ spc = "listen" /\ spc' \in {"add", "pipe"}
           \/ spc = "add" /\ spc' = "callback"
           \/ spc = "callback" /\ spc' = "reply"
           \/ spc = "reply" /\ spc' \in {"replySend", "pipe"}
           \/ spc = "replySend" /\ spc' = "pipe"
    BY <1>5 DEF Receive, ReceiveFails, NoDatagram, AddClient, Callback, ReplyFind, ReplySend,
        NoReply, LeaveBlock,
       Goto, loopVars
  <2>2. RestOfRound' = RestOfRound
    BY <2>1, <1>2
  <2>3. QED
    BY <2>1, <2>2, <1>1 DEF StepsLeft
<1>6. CASE Pipe
  <2>1. spc = "pipe" /\ (spc' = "exited" \/ (spc' = "poll" /\ ~revents.pipe))
    BY <1>6 DEF Pipe, LoopHead
  <2>2. QED
    BY <2>1 DEF StepsLeft, RestOfRound
<1>7. CASE ~ServerStep /\ ~PollFails
  <2>1. spc' = spc
    BY <1>7 DEF Next, vars, lifeVars, Ended, CallbackStops, StopInCallback, Manage, Stopping,
       AppStep, StartServer, StopServer, DtorStop, Destroy, DtorClose, Joins, StopJoin, DtorJoin,
       GetClientIds, SendFind, SendThrough, Network
  <2>2. QED
    BY <2>1
<1>8. QED
    BY <1>3, <1>4, <1>5, <1>6, <1>7 DEF ServerStep

\* StepsLeft is a natural number, 13 at the most.
LEMMA StepsLeftBound == StepsLeft \in 0 .. 13
<1>1. RestOfRound \in {1, 8}
    BY DEF RestOfRound
<1>2. QED
    BY <1>1 DEF StepsLeft

(***************************************************************************)
(* A stop of a datagram server is not held up by what is queued: each step *)
(* of the thread that is waited for lowers StepsLeft, 13 at the most.      *)
(***************************************************************************)
THEOREM StopNears == Spec => [](StepsLeft \in 0 .. 13) /\ StopComesNearer
<1>1. StopInv /\ [Next]_vars => [Stopping /\ spc' # spc => StepsLeft' < StepsLeft]_vars
  <2>1. fault # "none" /\ Next => UNCHANGED vars
    BY DEF Next, Ended
  <2>2. QED
    BY <2>1, StepsLeftStep
<1>2. QED
    BY <1>1, StepsLeftBound, StopInvariance, PTL DEF Spec, StopComesNearer

=============================================================================
