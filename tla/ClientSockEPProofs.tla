------------------------- MODULE ClientSockEPProofs -------------------------
(***************************************************************************)
(* Proofs about ClientSockEP, for every transport, buffer length, number   *)
(* of starts and number of units sent.  The argument: threadRunning_ says  *)
(* whether the thread lives (LifeInv), so what the owner does when it      *)
(* reads false happens without a thread, and a stop closes the pipe of a   *)
(* thread that is there.  IInv of ClientSockEP collects what that needs    *)
(* and is inductive.                                                       *)
(***************************************************************************)
EXTENDS ClientSockEP, TLAPS

\* recv() takes no more than is queued, and no more than the buffer holds.
LEMMA ResultBounds ==
    ASSUME TypeOK, CountInv, NEW n \in RecvResults
    PROVE  /\ n \in -1 .. (IF Stream THEN BufLen ELSE 1)
           /\ Units(n) \in Nat
           /\ Units(n) <= Unread
<1> USE ClientAssumption DEF ClientAssumption, Units, Unread, TypeOK, NetTypeOK, CountInv
<1>1. Unread \in Nat
    OBVIOUS
<1>2. CASE err
    BY DEF RecvResults
<1>3. CASE ~err /\ Unread > 0
    BY DEF RecvResults
<1>4. CASE ~err /\ Unread = 0 /\ link = "reset"
  <2>1. n \in {-1, 0}
    BY <1>4 DEF RecvResults
  <2>2. QED
    BY <2>1
<1>5. CASE ~err /\ Unread = 0 /\ link # "reset"
  <2>1. n = 0
    BY <1>5 DEF RecvResults
  <2>2. QED
    BY <2>1
<1>6. QED
    BY <1>2, <1>3, <1>4, <1>5

\* No step of the receive thread breaks the inductive invariant.
LEMMA ThreadStepInv ==
    ASSUME IInv, fault = "none", ThreadStep
    PROVE  IInv'
<1> USE ClientAssumption DEF ClientAssumption, IInv, Alive, NoEvents,
            lifeVars, loopVars, netVars
<1>1. CASE Entry
  <2> USE <1>1 DEF Entry, Goto, Quit
  <2>1. TypeOK'
    <3>1. LifeTypeOK'
      BY DEF TypeOK, LifeTypeOK
    <3>2. LoopTypeOK'
      BY DEF TypeOK, LoopTypeOK
    <3>3. NetTypeOK'
      BY DEF TypeOK, NetTypeOK
    <3>4. QED
      BY <3>1, <3>2, <3>3 DEF TypeOK
  <2>2. LifeInv'
    BY DEF LifeInv
  <2>3. CountInv'
    BY DEF CountInv, DeliveredOnce
  <2>4. ReaderInv'
    BY DEF ReaderInv, BufferKept
  <2>5. QED
    BY <2>1, <2>2, <2>3, <2>4
<1>2. CASE Poll
  <2> USE <1>2 DEF Poll, Goto
  <2>0. revents' \in [pipe : BOOLEAN, hup : BOOLEAN, in : BOOLEAN, err : BOOLEAN]
    <3>1. CASE stale
      BY <3>1 DEF Strange
    <3>2. CASE ~stale
      <4>1. HungUp \in BOOLEAN
        BY DEF HungUp
      <4>2. (Unread > 0 \/ AtEnd) \in BOOLEAN
        OBVIOUS
      <4>3. (~pipeOpen) \in BOOLEAN
        OBVIOUS
      <4>4. err \in BOOLEAN
        BY DEF TypeOK, NetTypeOK
      <4>5. Reported \in [pipe : BOOLEAN, hup : BOOLEAN, in : BOOLEAN, err : BOOLEAN]
        BY <4>1, <4>4 DEF Reported
      <4>6. QED
        BY <3>2, <4>5
    <3>3. QED
      BY <3>1, <3>2
  <2>1. TypeOK'
    <3>1. LifeTypeOK'
      BY DEF TypeOK, LifeTypeOK
    <3>2. LoopTypeOK'
      BY <2>0 DEF TypeOK, LoopTypeOK
    <3>3. NetTypeOK'
      BY DEF TypeOK, NetTypeOK
    <3>4. QED
      BY <3>1, <3>2, <3>3 DEF TypeOK
  <2>2. LifeInv'
    BY DEF LifeInv
  <2>3. CountInv'
    BY DEF CountInv, DeliveredOnce
  <2>4. ReaderInv'
    BY DEF ReaderInv, BufferKept
  <2>5. QED
    BY <2>1, <2>2, <2>3, <2>4
<1>3. CASE PipeHup
  <2> USE <1>3 DEF PipeHup, Quit
  <2>1. TypeOK'
    <3>1. LifeTypeOK'
      BY DEF TypeOK, LifeTypeOK
    <3>2. LoopTypeOK'
      BY DEF TypeOK, LoopTypeOK
    <3>3. NetTypeOK'
      BY DEF TypeOK, NetTypeOK
    <3>4. QED
      BY <3>1, <3>2, <3>3 DEF TypeOK
  <2>2. LifeInv'
    BY DEF LifeInv
  <2>3. CountInv'
    BY DEF CountInv, DeliveredOnce
  <2>4. ReaderInv'
    BY DEF ReaderInv, BufferKept
  <2>5. QED
    BY <2>1, <2>2, <2>3, <2>4
<1>4. CASE SockHup
  <2> USE <1>4 DEF SockHup, Quit
  <2>1. TypeOK'
    <3>1. LifeTypeOK'
      BY DEF TypeOK, LifeTypeOK
    <3>2. LoopTypeOK'
      BY DEF TypeOK, LoopTypeOK
    <3>3. NetTypeOK'
      BY DEF TypeOK, NetTypeOK
    <3>4. QED
      BY <3>1, <3>2, <3>3 DEF TypeOK
  <2>2. LifeInv'
    BY DEF LifeInv
  <2>3. CountInv'
    BY DEF CountInv, DeliveredOnce
  <2>4. ReaderInv'
    BY DEF ReaderInv, BufferKept
  <2>5. QED
    BY <2>1, <2>2, <2>3, <2>4
<1>5. CASE HandleIncoming
  <2> USE <1>5 DEF HandleIncoming, Incoming, Goto
  <2>0. PICK n \in RecvResults : Recv(n, "thread") /\ got' = n
    OBVIOUS
  <2>a. /\ n \in -1 .. (IF Stream THEN BufLen ELSE 1)
        /\ Units(n) \in Nat
        /\ Units(n) <= Unread
    BY ResultBounds
  <2>b. taken' = taken + Units(n) /\ UNCHANGED <<link, sent, lost>> /\ err' = FALSE
    BY <2>0 DEF Recv
  <2>c. msg' \in {"none", "thread", "owner"} /\ taken' \in 0 .. MaxSent
    BY <2>a, <2>b DEF Recv, Unread, TypeOK, NetTypeOK
  <2>d. n > 0 => msg' = "thread"
    BY <2>0 DEF Recv
  <2>1. TypeOK'
    <3>1. LifeTypeOK'
      BY DEF TypeOK, LifeTypeOK
    <3>2. LoopTypeOK'
      BY <2>0, <2>a DEF TypeOK, LoopTypeOK
    <3>3. NetTypeOK'
      BY <2>b, <2>c DEF TypeOK, NetTypeOK
    <3>4. QED
      BY <3>1, <3>2, <3>3 DEF TypeOK
  <2>2. LifeInv'
    BY DEF LifeInv
  <2>3. CountInv'
    BY <2>0, <2>a, <2>b DEF TypeOK, NetTypeOK, CountInv, DeliveredOnce, Units, Unread
  <2>4. ReaderInv'
    BY <2>0, <2>d DEF ReaderInv, BufferKept
  <2>5. QED
    BY <2>1, <2>2, <2>3, <2>4
<1>6. CASE PureCall
  <2> USE <1>6 DEF PureCall, Incoming
  <2>1. TypeOK'
    <3>1. LifeTypeOK'
      BY DEF TypeOK, LifeTypeOK
    <3>2. LoopTypeOK'
      BY DEF TypeOK, LoopTypeOK
    <3>3. NetTypeOK'
      BY DEF TypeOK, NetTypeOK
    <3>4. QED
      BY <3>1, <3>2, <3>3 DEF TypeOK
  <2>2. LifeInv'
    BY DEF LifeInv
  <2>3. CountInv'
    BY DEF CountInv, DeliveredOnce
  <2>4. ReaderInv'
    BY DEF ReaderInv, BufferKept
  <2>5. QED
    BY <2>1, <2>2, <2>3, <2>4
<1>7. CASE Callback
  <2> USE <1>7 DEF Callback, Goto
  <2>0. given' \in 0 .. MaxSent
    BY DEF TypeOK, NetTypeOK, LoopTypeOK, CountInv, DeliveredOnce, Units
  <2>1. TypeOK'
    <3>1. LifeTypeOK'
      BY DEF TypeOK, LifeTypeOK
    <3>2. LoopTypeOK'
      BY DEF TypeOK, LoopTypeOK
    <3>3. NetTypeOK'
      BY <2>0 DEF TypeOK, NetTypeOK
    <3>4. QED
      BY <3>1, <3>2, <3>3 DEF TypeOK
  <2>2. LifeInv'
    BY DEF LifeInv
  <2>3. CountInv'
    BY DEF TypeOK, LoopTypeOK, NetTypeOK, CountInv, DeliveredOnce, Units
  <2>4. ReaderInv'
    BY DEF ReaderInv, BufferKept
  <2>5. QED
    BY <2>1, <2>2, <2>3, <2>4
<1>8. CASE Reconnect
  <2> USE <1>8 DEF Reconnect, HandlesError, Failing, Goto, Disconnect
  <2>0. lost' \in 0 .. MaxSent
    BY DEF TypeOK, NetTypeOK, CountInv, Unread
  <2>1. TypeOK'
    <3>1. LifeTypeOK'
      BY DEF TypeOK, LifeTypeOK
    <3>2. LoopTypeOK'
      BY DEF TypeOK, LoopTypeOK
    <3>3. NetTypeOK'
      BY <2>0 DEF TypeOK, NetTypeOK
    <3>4. QED
      BY <3>1, <3>2, <3>3 DEF TypeOK
  <2>2. LifeInv'
    BY DEF LifeInv
  <2>3. CountInv'
    BY DEF TypeOK, NetTypeOK, CountInv, DeliveredOnce, Unread
  <2>4. ReaderInv'
    BY DEF ReaderInv, BufferKept
  <2>5. QED
    BY <2>1, <2>2, <2>3, <2>4
<1>9. CASE ErrorEnds
  <2> USE <1>9 DEF ErrorEnds, Failing, Quit, Disconnect
  <2>0. (lost' = lost \/ lost' = lost + Unread) /\ err' \in BOOLEAN /\ link' \in {link, "none"}
    BY DEF TypeOK, NetTypeOK
  <2>1. TypeOK'
    <3>1. LifeTypeOK'
      BY DEF TypeOK, LifeTypeOK
    <3>2. LoopTypeOK'
      BY DEF TypeOK, LoopTypeOK
    <3>3. NetTypeOK'
      BY <2>0 DEF TypeOK, NetTypeOK, CountInv, Unread
    <3>4. QED
      BY <3>1, <3>2, <3>3 DEF TypeOK
  <2>2. LifeInv'
    BY DEF LifeInv
  <2>3. CountInv'
    BY DEF TypeOK, NetTypeOK, CountInv, DeliveredOnce, Unread
  <2>4. ReaderInv'
    BY DEF ReaderInv, BufferKept
  <2>5. QED
    BY <2>1, <2>2, <2>3, <2>4
<1>10. QED
    BY <1>1, <1>2, <1>3, <1>4, <1>5, <1>6, <1>7, <1>8, <1>9 DEF ThreadStep

\* Neither does a poll() that fails, a callback that stops the thread, nor anything
\* the owner does.
LEMMA OwnerStepInv ==
    ASSUME IInv, fault = "none", PollError \/ CallbackStops \/ Manage \/ OwnerStep
    PROVE  IInv'
<1> USE ClientAssumption DEF ClientAssumption, IInv, Alive, NoEvents,
            lifeVars, loopVars, netVars
<1>1. CASE PollError
  <2> USE <1>1 DEF PollError, Quit
  <2>1. TypeOK'
    <3>1. LifeTypeOK'
      BY DEF TypeOK, LifeTypeOK
    <3>2. LoopTypeOK'
      BY DEF TypeOK, LoopTypeOK
    <3>3. NetTypeOK'
      BY DEF TypeOK, NetTypeOK
    <3>4. QED
      BY <3>1, <3>2, <3>3 DEF TypeOK
  <2>2. LifeInv'
    BY DEF LifeInv
  <2>3. CountInv'
    BY DEF CountInv, DeliveredOnce
  <2>4. ReaderInv'
    BY DEF ReaderInv, BufferKept
  <2>5. QED
    BY <2>1, <2>2, <2>3, <2>4
<1>2. CASE Start
  <2> USE <1>2 DEF Start
  <2>0. starts' \in 0 .. MaxStarts
    BY DEF TypeOK, LifeTypeOK
  <2>a. /\ joinable' \in BOOLEAN /\ tpc' \in {tpc, "entry"}
        /\ fault' \in {"none", "terminate"}
    OBVIOUS
  <2>1. TypeOK'
    <3>1. LifeTypeOK'
      BY <2>a DEF TypeOK, LifeTypeOK
    <3>2. LoopTypeOK'
      BY DEF TypeOK, LoopTypeOK
    <3>3. NetTypeOK'
      BY DEF TypeOK, NetTypeOK
    <3>4. QED
      BY <3>1, <3>2, <3>3 DEF TypeOK
  <2>2. LifeInv'
    BY DEF LifeInv
  <2>3. CountInv'
    BY DEF LifeInv, CountInv, DeliveredOnce
  <2>4. ReaderInv'
    BY DEF ReaderInv, BufferKept
  <2>5. QED
    BY <2>1, <2>2, <2>3, <2>4
<1>3. CASE Stop("idle", "stopJoin") \/ Stop("dtor", "dtorJoin")
  <2> USE <1>3 DEF Stop
  <2>1. TypeOK'
    <3>1. LifeTypeOK'
      BY DEF TypeOK, LifeTypeOK
    <3>2. LoopTypeOK'
      BY DEF TypeOK, LoopTypeOK
    <3>3. NetTypeOK'
      BY DEF TypeOK, NetTypeOK
    <3>4. QED
      BY <3>1, <3>2, <3>3 DEF TypeOK
  <2>2. LifeInv'
    BY DEF LifeInv
  <2>3. CountInv'
    BY DEF CountInv, DeliveredOnce
  <2>4. ReaderInv'
    BY DEF ReaderInv, BufferKept
  <2>5. QED
    BY <2>1, <2>2, <2>3, <2>4
<1>4. CASE Join("stopJoin", "idle") \/ Join("dtorJoin", "dtorEnd")
  <2> USE <1>4 DEF Join, Joined
  <2>1. TypeOK'
    <3>1. LifeTypeOK'
      BY DEF TypeOK, LifeTypeOK
    <3>2. LoopTypeOK'
      BY DEF TypeOK, LoopTypeOK
    <3>3. NetTypeOK'
      BY DEF TypeOK, NetTypeOK
    <3>4. QED
      BY <3>1, <3>2, <3>3 DEF TypeOK
  <2>2. LifeInv'
    BY DEF LifeInv
  <2>3. CountInv'
    BY DEF CountInv, DeliveredOnce
  <2>4. ReaderInv'
    BY DEF ReaderInv, BufferKept
  <2>5. QED
    BY <2>1, <2>2, <2>3, <2>4
<1>5. CASE DtorStep("idle", "dtor") \/ DtorStep("dtorEnd", "destroyed")
  <2> USE <1>5 DEF DtorStep
  <2>0. fault' \in {fault, "terminate"} /\ apc' \in {"dtor", "destroyed"}
    OBVIOUS
  <2>1. TypeOK'
    <3>1. LifeTypeOK'
      BY DEF TypeOK, LifeTypeOK
    <3>2. LoopTypeOK'
      BY DEF TypeOK, LoopTypeOK
    <3>3. NetTypeOK'
      BY DEF TypeOK, NetTypeOK
    <3>4. QED
      BY <3>1, <3>2, <3>3 DEF TypeOK
  <2>2. LifeInv'
    BY DEF LifeInv
  <2>3. CountInv'
    BY DEF CountInv, DeliveredOnce
  <2>4. ReaderInv'
    BY DEF ReaderInv, BufferKept
  <2>5. QED
    BY <2>1, <2>2, <2>3, <2>4
<1>6. CASE ~running /\ DtorStep("dtor", "dtorEnd")
  <2> USE <1>6 DEF DtorStep
  <2>1. TypeOK'
    <3>1. LifeTypeOK'
      BY DEF TypeOK, LifeTypeOK
    <3>2. LoopTypeOK'
      BY DEF TypeOK, LoopTypeOK
    <3>3. NetTypeOK'
      BY DEF TypeOK, NetTypeOK
    <3>4. QED
      BY <3>1, <3>2, <3>3 DEF TypeOK
  <2>2. LifeInv'
    BY DEF LifeInv
  <2>3. CountInv'
    BY DEF CountInv, DeliveredOnce
  <2>4. ReaderInv'
    BY DEF ReaderInv, BufferKept
  <2>5. QED
    BY <2>1, <2>2, <2>3, <2>4
<1>7. CASE SendMessage
  <2> USE <1>7 DEF SendMessage, Sent
  <2>0. link' \in {link, "reset"} /\ err' \in BOOLEAN
    OBVIOUS
  <2>1. TypeOK'
    <3>1. LifeTypeOK'
      BY DEF TypeOK, LifeTypeOK
    <3>2. LoopTypeOK'
      BY DEF TypeOK, LoopTypeOK
    <3>3. NetTypeOK'
      BY DEF TypeOK, NetTypeOK
    <3>4. QED
      BY <3>1, <3>2, <3>3 DEF TypeOK
  <2>2. LifeInv'
    BY DEF LifeInv
  <2>3. CountInv'
    BY DEF CountInv, DeliveredOnce
  <2>4. ReaderInv'
    BY DEF ReaderInv, BufferKept
  <2>5. QED
    BY <2>1, <2>2, <2>3, <2>4
<1>8. ASSUME NEW str \in BOOLEAN, GetMessage(str) PROVE IInv'
  <2> USE <1>8 DEF GetMessage, Owner
  <2>0. valid' \in BOOLEAN /\ apc' \in {"idle", "recv", "recvStr"} /\ UNCHANGED netVars
    BY DEF AfterError, Receiving, TypeOK, LifeTypeOK
  <2>r. Transport # "unixDgram" /\ apc' # "idle" => ~running
    BY DEF Refuses
  <2>1. TypeOK'
    <3>1. LifeTypeOK'
      BY <2>0 DEF TypeOK, LifeTypeOK
    <3>2. LoopTypeOK'
      BY DEF TypeOK, LoopTypeOK
    <3>3. NetTypeOK'
      BY DEF TypeOK, NetTypeOK
    <3>4. QED
      BY <3>1, <3>2, <3>3 DEF TypeOK
  <2>2. LifeInv'
    BY <2>0 DEF LifeInv
  <2>3. CountInv'
    BY DEF CountInv, DeliveredOnce
  <2>4. ReaderInv'
    BY <2>0, <2>r DEF LifeInv, ReaderInv, BufferKept
  <2>5. QED
    BY <2>1, <2>2, <2>3, <2>4
<1>9. ASSUME NEW str \in BOOLEAN, GotMessage(str) PROVE IInv'
  <2>0. PICK n \in RecvResults :
          /\ Recv(n, IF str THEN "owner" ELSE "")
          /\ returned' = returned + Units(n)
          /\ valid' = IF n = -1 THEN AfterError(str) ELSE valid
          /\ Owner(Receiving(str), IF str /\ n > 0 THEN "copy" ELSE "idle")
          /\ given' = given
    BY <1>9 DEF GotMessage
  <2>a. /\ n \in -1 .. (IF Stream THEN BufLen ELSE 1)
        /\ Units(n) \in Nat
        /\ Units(n) <= Unread
    BY ResultBounds
  <2>b. taken' = taken + Units(n) /\ UNCHANGED <<link, sent, lost>> /\ err' = FALSE
    BY <2>0 DEF Recv
  <2>c. /\ apc \in {"recv", "recvStr"} /\ apc' \in {"idle", "copy"}
        /\ apc' = "copy" => msg' = "owner"
        /\ msg' \in {msg, "owner"}
        /\ valid' \in BOOLEAN
        /\ returned' = returned + Units(n) /\ given' = given
        /\ UNCHANGED <<running, joinable, pipeOpen, tpc, starts, fault, loopVars>>
    BY <2>0 DEF Recv, Owner, Receiving, AfterError, TypeOK, LifeTypeOK
  <2>d. /\ Units(got) \in Nat /\ Units(got)' = Units(got)
        /\ taken' + lost <= sent
        /\ taken' \in 0 .. MaxSent
        /\ returned' \in 0 .. MaxSent
    <3>1. Units(got) \in Nat /\ Units(got)' = Units(got)
      BY <2>c DEF Units, TypeOK, LoopTypeOK
    <3>2. taken' + lost <= sent /\ taken' \in 0 .. MaxSent
      BY <2>a, <2>b DEF TypeOK, NetTypeOK, Unread
    <3>3. returned' \in 0 .. MaxSent
      BY <2>a, <2>b, <2>c, <3>1, <3>2 DEF TypeOK, NetTypeOK, CountInv, DeliveredOnce
    <3>4. QED
      BY <3>1, <3>2, <3>3
  <2>1. TypeOK'
    <3>1. LifeTypeOK'
      BY <2>c DEF TypeOK, LifeTypeOK
    <3>2. LoopTypeOK'
      BY <2>c DEF TypeOK, LoopTypeOK
    <3>3. NetTypeOK'
      BY <2>b, <2>c, <2>d DEF TypeOK, NetTypeOK
    <3>4. QED
      BY <3>1, <3>2, <3>3 DEF TypeOK
  <2>2. LifeInv'
    BY <2>c DEF LifeInv
  <2>3. CountInv'
    BY <2>a, <2>b, <2>c, <2>d DEF TypeOK, NetTypeOK, CountInv, DeliveredOnce
  <2>4. ReaderInv'
    BY <2>c DEF ReaderInv, BufferKept
  <2>5. QED
    BY <2>1, <2>2, <2>3, <2>4
<1>10. ASSUME NEW str \in BOOLEAN, GetMessageFails(str) PROVE IInv'
  <2> USE <1>10 DEF GetMessageFails, Owner, Receiving
  <2>0. valid' \in BOOLEAN
    BY DEF AfterError
  <2>1. TypeOK'
    <3>1. LifeTypeOK'
      BY <2>0 DEF TypeOK, LifeTypeOK
    <3>2. LoopTypeOK'
      BY DEF TypeOK, LoopTypeOK
    <3>3. NetTypeOK'
      BY DEF TypeOK, NetTypeOK
    <3>4. QED
      BY <3>1, <3>2, <3>3 DEF TypeOK
  <2>2. LifeInv'
    BY DEF LifeInv
  <2>3. CountInv'
    BY DEF CountInv, DeliveredOnce
  <2>4. ReaderInv'
    BY DEF ReaderInv, BufferKept
  <2>5. QED
    BY <2>1, <2>2, <2>3, <2>4
<1>11. CASE MakeString
  <2> USE <1>11 DEF MakeString, Owner
  <2>1. TypeOK'
    <3>1. LifeTypeOK'
      BY DEF TypeOK, LifeTypeOK
    <3>2. LoopTypeOK'
      BY DEF TypeOK, LoopTypeOK
    <3>3. NetTypeOK'
      BY DEF TypeOK, NetTypeOK
    <3>4. QED
      BY <3>1, <3>2, <3>3 DEF TypeOK
  <2>2. LifeInv'
    BY DEF LifeInv
  <2>3. CountInv'
    BY DEF CountInv, DeliveredOnce
  <2>4. ReaderInv'
    BY DEF ReaderInv, BufferKept
  <2>5. QED
    BY <2>1, <2>2, <2>3, <2>4
<1>12. CASE CallbackStops
  <2> USE <1>12 DEF CallbackStops
  <2>1. TypeOK'
    <3>1. LifeTypeOK'
      BY DEF TypeOK, LifeTypeOK
    <3>2. LoopTypeOK'
      BY DEF TypeOK, LoopTypeOK
    <3>3. NetTypeOK'
      BY DEF TypeOK, NetTypeOK
    <3>4. QED
      BY <3>1, <3>2, <3>3 DEF TypeOK
  <2>2. LifeInv'
    BY DEF LifeInv
  <2>3. CountInv'
    BY DEF CountInv, DeliveredOnce
  <2>4. ReaderInv'
    BY DEF ReaderInv, BufferKept
  <2>5. QED
    BY <2>1, <2>2, <2>3, <2>4
<1>13. QED
    BY <1>1, <1>2, <1>3, <1>4, <1>5, <1>6, <1>7, <1>8, <1>9, <1>10, <1>11, <1>12
       DEF Manage, OwnerStep, Dtor

\* Neither does the server.
LEMMA ServerInv ==
    ASSUME IInv, Server
    PROVE  IInv'
<1> USE ClientAssumption DEF ClientAssumption, IInv, Alive, NoEvents,
            lifeVars, loopVars, netVars
<1> USE DEF Server
<1>1. sent' \in {sent, sent + 1} /\ sent' <= MaxSent
      /\ link' \in {"open", "finished", "closed", "reset"} /\ err' = err
    BY DEF ServerSend, ServerFinish, ServerClose, ServerReturns, TypeOK, NetTypeOK
<1>2. UNCHANGED <<lifeVars, loopVars, taken, lost, given, returned, msg>>
    OBVIOUS
<1>3. TypeOK'
    BY <1>1 DEF TypeOK, LifeTypeOK, LoopTypeOK, NetTypeOK
<1>4. LifeInv'
    BY DEF LifeInv
<1>5. CountInv'
    BY <1>1 DEF TypeOK, NetTypeOK, CountInv, DeliveredOnce
<1>6. ReaderInv'
    BY DEF ReaderInv, BufferKept
<1>7. QED
    BY <1>3, <1>4, <1>5, <1>6

\* A client starts with nothing read, counted or running.
LEMMA InitInv == Init => IInv
<1> SUFFICES ASSUME Init PROVE IInv
    OBVIOUS
<1> USE ClientAssumption DEF ClientAssumption, Init, NoEvents, Alive
<1>1. TypeOK
  <2>1. /\ valid \in BOOLEAN /\ running \in BOOLEAN /\ joinable \in BOOLEAN
        /\ pipeOpen \in BOOLEAN /\ stale \in BOOLEAN /\ err \in BOOLEAN
        /\ link \in {"none", "open"}
    OBVIOUS
  <2>2. revents \in [pipe : BOOLEAN, hup : BOOLEAN, in : BOOLEAN, err : BOOLEAN]
    OBVIOUS
  <2>3. /\ starts = 0 /\ got = 0 /\ sent = 0 /\ taken = 0 /\ lost = 0 /\ given = 0
        /\ returned = 0 /\ tpc = "none" /\ apc = "idle" /\ fault = "none" /\ msg = "none"
    OBVIOUS
  <2> HIDE DEF Init
  <2>4. 0 \in 0 .. MaxStarts /\ 0 \in 0 .. MaxSent /\ 0 \in -1 .. (IF Stream THEN BufLen ELSE 1)
    OBVIOUS
  <2>5. LifeTypeOK
    BY <2>1, <2>3, <2>4 DEF LifeTypeOK
  <2>6. LoopTypeOK
    BY <2>1, <2>2, <2>3, <2>4 DEF LoopTypeOK
  <2>7. NetTypeOK
    BY <2>1, <2>3, <2>4 DEF NetTypeOK
  <2>8. QED
    BY <2>5, <2>6, <2>7 DEF TypeOK
<1>2. LifeInv /\ CountInv /\ ReaderInv
    BY DEF LifeInv, CountInv, DeliveredOnce, Units, ReaderInv, BufferKept
<1>3. QED
    BY <1>1, <1>2 DEF IInv

\* The invariant reads nothing but the variables of the client.
LEMMA StutterInv == IInv /\ UNCHANGED vars => IInv'
<1> SUFFICES ASSUME IInv, UNCHANGED vars PROVE IInv'
    OBVIOUS
<1> USE DEF vars, lifeVars, loopVars, netVars, IInv, Alive
<1>1. TypeOK'
    BY DEF TypeOK, LifeTypeOK, LoopTypeOK, NetTypeOK
<1>2. LifeInv'
    BY DEF LifeInv
<1>3. CountInv'
    BY DEF CountInv, DeliveredOnce
<1>4. ReaderInv'
    BY DEF ReaderInv, BufferKept
<1>5. QED
    BY <1>1, <1>2, <1>3, <1>4

\* One step of the system, or none.
LEMMA NextInv == IInv /\ [Next]_vars => IInv'
<1> SUFFICES ASSUME IInv, [Next]_vars PROVE IInv'
    OBVIOUS
<1>1. CASE fault = "none" /\ ThreadStep
    BY <1>1, ThreadStepInv
<1>2. CASE fault = "none" /\ (PollError \/ CallbackStops \/ Manage \/ OwnerStep)
    BY <1>2, OwnerStepInv
<1>3. CASE Server
    BY <1>3, ServerInv
<1>4. CASE UNCHANGED vars
    BY <1>4, StutterInv
<1>5. QED
    BY <1>1, <1>2, <1>3, <1>4 DEF Next, Over

(***************************************************************************)
(* The inductive invariant: the state of the receive thread, the owner and *)
(* the counts stay consistent, whatever both and the server do.            *)
(***************************************************************************)
THEOREM Invariance == Spec => []IInv
<1>1. QED
    BY InitInv, NextInv, PTL DEF Spec

\* Type correctness: no result of recv() exceeds its buffer, no count what was sent.
THEOREM Types == Spec => []TypeOK
<1>1. IInv => TypeOK
    BY DEF IInv
<1>2. QED
    BY Invariance, <1>1, PTL

\* Every unit read by the thread or by getMessage is handed over exactly once.
THEOREM Delivery == Spec => []DeliveredOnce
<1>1. IInv => DeliveredOnce
    BY DEF IInv, CountInv
<1>2. QED
    BY Invariance, <1>1, PTL

\* msg_ has one user at a time in the clients whose getMessage both test
\* threadRunning_, that is in all but the Unix datagram client.
THEOREM OneReader ==
    ASSUME Transport # "unixDgram"
    PROVE  Spec => []BufferKept
<1>1. IInv => BufferKept
    BY DEF IInv, ReaderInv
<1>2. QED
    BY Invariance, <1>1, PTL

\* A stop or the destruction of a client leaves no receive thread behind.
THEOREM Quiet == Spec => []QuietWhenStopped
<1>1. IInv => QuietWhenStopped
    BY DEF IInv, LifeInv, Alive, TypeOK, LifeTypeOK, QuietWhenStopped
<1>2. QED
    BY Invariance, <1>1, PTL

\* Every close(pipeFd_[1]) of stopRecvThread closes a pipe that is open.
THEOREM PipeOnce == Spec => []PipeClosedOnce
<1>1. IInv => PipeClosedOnce
    BY DEF IInv, LifeInv, PipeClosedOnce
<1>2. QED
    BY Invariance, <1>1, PTL

-----------------------------------------------------------------------------
(* The end of a thread: what a stop waits for, and what std::terminate     *)
(* is called over.                                                         *)

\* A step of the receive thread or a poll() that fails, with the pipe of a stop closed.
LEMMA StopInvStep ==
    ASSUME IInv, StopInv, [Next]_vars
    PROVE  StopInv'
<1> USE DEF IInv, LifeInv, Alive, StopInv, Stopping, TerminatesUnjoinedOnly,
            vars, lifeVars, loopVars, netVars
<1>1. CASE fault = "none" /\ ThreadStep
  <2> USE <1>1
  <2>1. CASE PureCall
    BY <2>1 DEF PureCall
  <2>2. CASE Entry
    <3>1. CASE valid /\ Goto("entry", "poll")
      BY <3>1 DEF Goto
    <3>2. CASE ~valid /\ Quit(FALSE)
      BY <2>2, <3>2 DEF Entry, Quit
    <3>3. QED
      BY <2>2, <3>1, <3>2 DEF Entry
  <2>3. CASE PipeHup \/ SockHup \/ ErrorEnds
    BY <2>3 DEF PipeHup, SockHup, ErrorEnds, Quit
  <2>4. CASE Poll \/ HandleIncoming \/ Callback \/ Reconnect
    BY <2>4 DEF Poll, HandleIncoming, Incoming, Callback, Reconnect, Goto
  <2>5. QED
    BY <2>1, <2>2, <2>3, <2>4 DEF ThreadStep
<1>2. CASE fault = "none" /\ (PollError \/ CallbackStops)
    BY <1>2 DEF PollError, CallbackStops, Quit
<1>3. CASE fault = "none" /\ (Manage \/ OwnerStep)
  <2> USE <1>3
  <2>1. CASE Start
    BY <2>1 DEF Start, TypeOK, LifeTypeOK
  <2>2. CASE Stop("idle", "stopJoin") \/ Stop("dtor", "dtorJoin")
    BY <2>2 DEF Stop
  <2>3. CASE Join("stopJoin", "idle") \/ Join("dtorJoin", "dtorEnd")
    BY <2>3 DEF Join, Joined
  <2>4. CASE DtorStep("idle", "dtor") \/ (~running /\ DtorStep("dtor", "dtorEnd"))
    BY <2>4 DEF DtorStep
  <2>5. CASE DtorStep("dtorEnd", "destroyed")
    BY <2>5 DEF DtorStep, TypeOK, LifeTypeOK
  <2>6. CASE SendMessage
    BY <2>6 DEF SendMessage
  <2>7. CASE \E str \in BOOLEAN : GetMessage(str) \/ GetMessageFails(str) \/ GotMessage(str)
    <3>1. PICK a, b \in {"idle", "recv", "recvStr", "copy"} : Owner(a, b)
      BY <2>7 DEF GetMessage, GetMessageFails, GotMessage, Receiving
    <3>2. QED
      BY <3>1 DEF Owner
  <2>8. CASE MakeString
    BY <2>8 DEF MakeString, Owner
  <2>9. QED
    BY <2>1, <2>2, <2>3, <2>4, <2>5, <2>6, <2>7, <2>8 DEF Manage, OwnerStep, Dtor
<1>4. CASE Server
    BY <1>4 DEF Server
<1>5. CASE UNCHANGED vars
    BY <1>5
<1>6. QED
    BY <1>1, <1>2, <1>3, <1>4, <1>5 DEF Next, Over

\* The pipe of a thread is closed while, and only while, somebody waits for it.
LEMMA StopInvariance == Spec => []StopInv
<1>1. Init => StopInv
    BY DEF Init, StopInv, Stopping, TerminatesUnjoinedOnly
<1>2. QED
    BY <1>1, StopInvStep, Invariance, PTL DEF Spec

(***************************************************************************)
(* std::terminate is called over a thread that ended by itself and was not *)
(* joined, or stopped itself, never over one at work or one stopped.       *)
(***************************************************************************)
THEOREM Unjoined == Spec => []TerminatesUnjoinedOnly
<1>1. StopInv => TerminatesUnjoinedOnly
    BY DEF StopInv
<1>2. QED
    BY <1>1, StopInvariance, PTL

(***************************************************************************)
(* Once the pipe is closed every step of the thread brings its end nearer. *)
(***************************************************************************)
LEMMA StepsLeftStep ==
    ASSUME IInv, StopInv, [Next]_vars, Stopping, tpc' # tpc
    PROVE  StepsLeft' < StepsLeft
<1>1. ~pipeOpen
    BY DEF StopInv
<1>2. PICK from \in {"entry", "poll", "dispatch", "callback"}, to \in {"poll", "dispatch", "callback", "exited"} :
          /\ tpc = from /\ tpc' = to
          /\ from = "entry" => to \in {"poll", "exited"}
          /\ from = "poll" => to = "exited" \/ (to = "dispatch" /\ revents'.pipe)
          /\ from = "dispatch" => to \in {"exited", "callback", "poll"}
          /\ from = "dispatch" /\ revents.pipe => to = "exited"
          /\ from = "callback" => to = "poll"
  <2> USE DEF Stopping, lifeVars
  <2>1. CASE ThreadStep
    <3>1. CASE Entry
      BY <3>1 DEF Entry, Goto, Quit
    <3>2. CASE Poll
      <4>1. revents' \in Strange \/ revents' = Reported
        BY <3>2 DEF Poll
      <4>2. ASSUME revents' \in Strange PROVE revents'.pipe = ~pipeOpen
        BY <4>2, Zenon DEF Strange
      <4>3. ASSUME revents' = Reported PROVE revents'.pipe = ~pipeOpen
        BY <4>3 DEF Reported
      <4>4. revents'.pipe
        BY <1>1, <4>1, <4>2, <4>3, Zenon
      <4>5. QED
        BY <3>2, <4>4 DEF Poll, Goto
    <3>3. CASE PipeHup \/ SockHup \/ ErrorEnds
      BY <3>3 DEF PipeHup, SockHup, ErrorEnds, Failing, Quit
    <3>4. CASE HandleIncoming \/ Callback \/ Reconnect
      BY <3>4 DEF HandleIncoming, Incoming, Callback, Reconnect, HandlesError, Failing, Goto
    <3>5. CASE PureCall
      BY <3>5 DEF PureCall
    <3>6. QED
      BY <2>1, <3>1, <3>2, <3>3, <3>4, <3>5 DEF ThreadStep
  <2>2. CASE PollError
    BY <2>2 DEF PollError, Quit
  <2>3. CASE CallbackStops \/ Manage \/ OwnerStep \/ Server \/ UNCHANGED vars
    BY <2>3 DEF CallbackStops, Manage, OwnerStep, Start, Stop, Join, Dtor, DtorStep,
                SendMessage, GetMessage, GetMessageFails, GotMessage, MakeString, Owner,
                Server, vars
  <2>4. QED
    BY <2>1, <2>2, <2>3 DEF Next, Over
<1>3. QED
    BY <1>2 DEF StepsLeft

\* Four is what the definition of the steps left says; the thread that has none is gone.
LEMMA StepsLeftBound ==
    ASSUME TypeOK
    PROVE  StepsLeft \in 0 .. 4 /\ (StepsLeft = 0 <=> ~Alive)
<1>1. tpc \in {"none", "entry", "poll", "dispatch", "callback", "exited"}
    BY DEF TypeOK, LifeTypeOK
<1>2. QED
    BY <1>1 DEF StepsLeft, Alive

\* stopRecvThread waits for four steps of the thread, of which one calls back, at most.
THEOREM StopNears == Spec => [](StepsLeft \in 0 .. 4) /\ StopComesNearer
<1>1. IInv /\ StopInv /\ [Next]_vars => [Stopping /\ tpc' # tpc => StepsLeft' < StepsLeft]_vars
    BY StepsLeftStep
<1>2. TypeOK => StepsLeft \in 0 .. 4
    BY StepsLeftBound
<1>3. QED
    BY <1>1, <1>2, Types, StopInvariance, Invariance, PTL DEF Spec, StopComesNearer

-----------------------------------------------------------------------------
(* Polling and receiving.                                                  *)

\* What there is to receive is not taken away by a step of the server or by a send.
LEMMA StillReady ==
    ASSUME IInv, Unread > 0 \/ AtEnd, Server \/ SendMessage
    PROVE  (Unread > 0 \/ AtEnd)'
<1> USE DEF AtEnd, Stream
<1>1. /\ taken' = taken /\ lost' = lost
      /\ sent' \in {sent, sent + 1}
      /\ Stream /\ link \in {"finished", "closed", "reset"}
            => link' \in {"finished", "closed", "reset"}
    BY DEF Server, ServerSend, ServerFinish, ServerClose, ServerReturns, SendMessage, Sent
<1>2. sent \in Nat /\ taken \in Nat /\ lost \in Nat
    BY ClientAssumption DEF ClientAssumption, IInv, TypeOK, NetTypeOK
<1>3. CASE AtEnd
    BY <1>1, <1>3
<1>4. CASE Unread > 0
  <2>1. Unread' = Unread \/ Unread' = Unread + 1
    <3>1. CASE sent' = sent
      BY <1>1, <3>1 DEF Unread
    <3>2. CASE sent' = sent + 1
      <4>1. Unread' = (sent + 1) - taken - lost
        BY <1>1, <3>2 DEF Unread
      <4>2. QED
        BY <1>2, <4>1 DEF Unread
    <3>3. QED
      BY <1>1, <3>1, <3>2
  <2>2. Unread \in Int
    BY <1>2 DEF Unread
  <2>3. QED
    BY <1>4, <2>1, <2>2
<1>5. QED
    BY <1>3, <1>4

\* Nor by a step of the owner, who does not receive while the thread lives.
LEMMA ReadyInvStep ==
    ASSUME IInv, ReadyInv, [Next]_vars
    PROVE  ReadyInv'
<1> SUFFICES ASSUME Transport # "unixDgram", ~stale', (tpc = "dispatch")', revents'.in
             PROVE  (Unread > 0 \/ AtEnd)'
    BY DEF ReadyInv
<1> USE DEF lifeVars, loopVars, netVars
<1>1. CASE fault = "none" /\ Poll
  <2>1. revents' = Reported /\ UNCHANGED netVars
    BY <1>1 DEF Poll, Goto
  <2>2. Unread > 0 \/ AtEnd
    BY <2>1 DEF Reported
  <2>3. QED
    BY <2>1, <2>2 DEF Unread, AtEnd
<1>2. CASE fault = "none" /\ (PureCall \/ CallbackStops \/ PollError)
    BY <1>2 DEF PureCall, CallbackStops, PollError, Quit, ReadyInv, Unread, AtEnd
<1>3. CASE fault = "none" /\ ThreadStep /\ ~Poll /\ ~PureCall
  <2>1. tpc' # "dispatch"
    BY <1>3 DEF ThreadStep, Entry, PipeHup, SockHup, HandleIncoming, Incoming, Callback,
                Reconnect, ErrorEnds, Goto, Quit
  <2>2. QED
    BY <2>1
<1>4. CASE fault = "none" /\ (Manage \/ OwnerStep) /\ ~SendMessage
  <2>1. CASE UNCHANGED <<tpc, loopVars, netVars>>
    BY <2>1 DEF ReadyInv, Unread, AtEnd
  <2>2. CASE \E str \in BOOLEAN : GotMessage(str)
    <3>1. apc \in {"recv", "recvStr"} /\ UNCHANGED tpc
      BY <2>2 DEF GotMessage, Owner, Receiving
    <3>2. QED
      BY <3>1 DEF IInv, ReaderInv, Alive
  <2>3. CASE Start
    BY <2>3 DEF Start, IInv, LifeInv, Alive, ReadyInv, Unread, AtEnd
  <2>4. CASE ~Start /\ ~\E str \in BOOLEAN : GotMessage(str)
    BY <1>4, <2>1, <2>4
       DEF Manage, OwnerStep, Stop, DtorStep, GetMessage, GetMessageFails, Join, Dtor,
           MakeString, Owner
  <2>5. QED
    BY <2>2, <2>3, <2>4
<1>5. CASE Server \/ SendMessage
  <2>1. UNCHANGED <<tpc, loopVars>>
    BY <1>5 DEF Server, SendMessage
  <2>2. Unread > 0 \/ AtEnd
    BY <2>1 DEF ReadyInv
  <2>3. QED
    BY <1>5, <2>2, StillReady
<1>6. CASE UNCHANGED vars
    BY <1>6 DEF vars, ReadyInv, Unread, AtEnd
<1>7. QED
    BY <1>1, <1>2, <1>3, <1>4, <1>5, <1>6 DEF Next, Over

(***************************************************************************)
(* The recv() of the receive thread never waits for what poll() reported,  *)
(* in a TCP, Unix stream or UDP client: no stop is held up there.          *)
(***************************************************************************)
THEOREM NoWait == Spec => []RecvNeverWaits
<1>1. Init => ReadyInv
    BY DEF Init, ReadyInv
<1>2. IInv /\ ReadyInv => RecvNeverWaits
  <2> SUFFICES ASSUME IInv, Unread > 0 \/ AtEnd PROVE RecvResults # {}
    BY DEF ReadyInv, RecvNeverWaits, Incoming
  <2>0. Unread \in Nat
    BY ClientAssumption DEF ClientAssumption, IInv, TypeOK, NetTypeOK, CountInv, Unread
  <2>1. CASE err
    BY <2>1 DEF RecvResults
  <2>2. CASE ~err /\ Unread > 0
    BY <2>2 DEF RecvResults
  <2>3. CASE ~err /\ ~(Unread > 0) /\ AtEnd
    <3>1. Unread = 0
      BY <2>0, <2>3
    <3>2. QED
      BY <2>3, <3>1 DEF RecvResults
  <2>4. QED
    BY <2>1, <2>2, <2>3
<1>3. QED
    BY <1>1, <1>2, ReadyInvStep, Invariance, PTL DEF Spec

-----------------------------------------------------------------------------
(* The mailbox.                                                            *)

BoxWaiting == sent - lost - given - returned

\* What waits in the box is what is queued and what is in the thread's msg_.
LEMMA WaitingIs ==
    ASSUME IInv
    PROVE  BoxWaiting = Unread + Units(got) /\ BoxWaiting \in Nat
<1> USE ClientAssumption DEF ClientAssumption, IInv, TypeOK, NetTypeOK, LoopTypeOK
<1>1. Units(got) \in Nat
    BY DEF Units
<1>2. QED
    BY <1>1 DEF BoxWaiting, Unread, CountInv, DeliveredOnce

LEMMA BoxStep ==
    ASSUME IInv, IInv', [Next]_vars
    PROVE  [Box!Next]_Box!boxVars
<1> USE DEF lifeVars, loopVars, netVars
<1>1. CASE fault = "none" /\ Callback
  <2>1. /\ Alive /\ Alive' /\ given' = given + Units(got)
        /\ UNCHANGED <<sent, lost, returned>>
    BY <1>1 DEF Callback, Goto, Alive
  <2>2. Units(got) \in Nat /\ Units(got) <= BoxWaiting
    BY WaitingIs, ClientAssumption
       DEF ClientAssumption, Units, Unread, IInv, TypeOK, NetTypeOK, LoopTypeOK, CountInv
  <2>3. BoxWaiting' = BoxWaiting - Units(got)
    BY <2>1, <2>2, ClientAssumption
       DEF BoxWaiting, ClientAssumption, IInv, TypeOK, NetTypeOK
  <2>4. CASE Units(got) = 0
    BY <2>1, <2>3, <2>4, WaitingIs, ClientAssumption
       DEF Box!boxVars, BoxWaiting, ClientAssumption, IInv, TypeOK, NetTypeOK
  <2>5. CASE Units(got) # 0
    <3>1. Units(got) \in 1 .. BoxWaiting
      BY <2>2, <2>5, WaitingIs
    <3>2. Box!Call(Units(got))
      BY <2>1, <2>3 DEF Box!Call, BoxWaiting
    <3>3. QED
      BY <3>1, <3>2 DEF Box!Next, BoxWaiting
  <2>6. QED
    BY <2>4, <2>5
<1>2. CASE \E str \in BOOLEAN : fault = "none" /\ GotMessage(str)
  <2>1. PICK n \in RecvResults :
          /\ returned' = returned + Units(n)
          /\ apc \in {"recv", "recvStr"}
          /\ UNCHANGED <<tpc, got, given, sent, lost>>
    BY <1>2 DEF GotMessage, Recv, Owner, Receiving
  <2>2. Units(n) \in Nat /\ Units(n) <= BoxWaiting
    BY ResultBounds, WaitingIs, ClientAssumption
       DEF ClientAssumption, Units, Unread, IInv, TypeOK, NetTypeOK, LoopTypeOK, CountInv
  <2>3. BoxWaiting' = BoxWaiting - Units(n)
    BY <2>1, <2>2, ClientAssumption
       DEF BoxWaiting, ClientAssumption, IInv, TypeOK, NetTypeOK
  <2>4. UNCHANGED Alive
    BY <2>1 DEF Alive
  <2>5. CASE Units(n) = 0
    BY <2>1, <2>3, <2>4, <2>5, WaitingIs, ClientAssumption
       DEF Box!boxVars, BoxWaiting, ClientAssumption, IInv, TypeOK, NetTypeOK
  <2>6. CASE Units(n) # 0
    <3>1. Units(n) \in 1 .. BoxWaiting
      BY <2>2, <2>6, WaitingIs
    <3>2. Transport = "unixDgram" \/ ~Alive
      BY <2>1 DEF IInv, ReaderInv
    <3>3. Box!Return(Units(n))
      BY <2>1, <2>3, <2>4, <3>2 DEF Box!Return, BoxWaiting
    <3>4. QED
      BY <3>1, <3>3 DEF Box!Next, BoxWaiting
  <2>7. QED
    BY <2>5, <2>6
<1>3. CASE fault = "none" /\ (Entry \/ PipeHup \/ SockHup \/ PollError)
  <2>1. /\ Alive /\ UNCHANGED netVars
        /\ tpc' \in {"poll", "exited"}
    BY <1>3 DEF Entry, PipeHup, SockHup, PollError, Quit, Goto, Alive
  <2>2. CASE tpc' = "poll"
    BY <2>1, <2>2 DEF Alive, Box!boxVars
  <2>3. CASE tpc' = "exited"
    BY <2>1, <2>3 DEF Alive, Box!Next, Box!Close
  <2>4. QED
    BY <2>1, <2>2, <2>3
<1>4. CASE fault = "none" /\ (Reconnect \/ ErrorEnds)
  <2>1. /\ Alive /\ tpc' \in {"poll", "exited"} /\ Units(got) = 0
        /\ UNCHANGED <<sent, got, given, returned>>
        /\ tpc' = "poll" => Transport = "udp" /\ lost' = lost + Unread
        /\ lost' = lost \/ (Transport = "udp" /\ lost' = lost + Unread)
    BY <1>4 DEF Reconnect, ErrorEnds, HandlesError, Failing, Disconnect, Goto, Quit, Alive,
                Units, IInv, CountInv
  <2>2. Alive' = (tpc' = "poll")
    BY <2>1 DEF Alive
  <2>3. lost' = lost + Unread => BoxWaiting' = 0
    BY <2>1, WaitingIs, ClientAssumption
       DEF BoxWaiting, Unread, ClientAssumption, IInv, TypeOK, NetTypeOK
  <2>4. lost' = lost => BoxWaiting' = BoxWaiting
    BY <2>1 DEF BoxWaiting
  <2>5. CASE tpc' = "poll"
    <3>1. Box!Empty
      BY <2>1, <2>2, <2>3, <2>5 DEF Box!Empty, BoxWaiting
    <3>2. QED
      BY <3>1 DEF Box!Next
  <2>6. CASE tpc' = "exited"
    <3>1. Box!Close
      BY <2>1, <2>2, <2>3, <2>4, <2>6 DEF Box!Close, BoxWaiting
    <3>2. QED
      BY <3>1 DEF Box!Next
  <2>7. QED
    BY <2>1, <2>5, <2>6
<1>5. CASE Server
  <2>1. UNCHANGED <<tpc, lost, given, returned>> /\ sent' \in {sent, sent + 1}
    BY <1>5 DEF Server, ServerSend, ServerFinish, ServerClose, ServerReturns
  <2>2. CASE sent' = sent + 1
    <3>1. BoxWaiting' = BoxWaiting + 1
      BY <2>1, <2>2, ClientAssumption
         DEF BoxWaiting, ClientAssumption, IInv, TypeOK, NetTypeOK
    <3>2. Box!Arrive
      BY <2>1, <3>1 DEF Box!Arrive, Alive, BoxWaiting
    <3>3. QED
      BY <3>2 DEF Box!Next
  <2>3. CASE sent' = sent
    BY <2>1, <2>3 DEF Box!boxVars, Alive
  <2>4. QED
    BY <2>1, <2>2, <2>3
<1>6. CASE fault = "none" /\ Start
  <2>1. UNCHANGED netVars /\ tpc' \in {tpc, "entry"} /\ ~Alive
    BY <1>6 DEF Start, IInv, LifeInv
  <2>2. CASE tpc' = tpc
    BY <2>1, <2>2 DEF Box!boxVars, Alive
  <2>3. CASE tpc' = "entry"
    BY <2>1, <2>3 DEF Box!Next, Box!Open, Alive
  <2>4. QED
    BY <2>1, <2>2, <2>3
<1>7. CASE fault = "none" /\ (Poll \/ HandleIncoming \/ PureCall)
  <2>1. Alive /\ Alive' /\ UNCHANGED <<sent, lost, given, returned>>
    BY <1>7 DEF Poll, HandleIncoming, Incoming, PureCall, Recv, Goto, Alive
  <2>2. QED
    BY <2>1 DEF Box!boxVars
<1>8. CASE /\ fault = "none"
           /\ CallbackStops \/ Manage \/ OwnerStep
           /\ ~Start /\ ~\E str \in BOOLEAN : GotMessage(str)
  <2>1. UNCHANGED <<tpc, sent, lost, given, returned>>
    BY <1>8 DEF CallbackStops, Manage, OwnerStep, Stop, DtorStep, SendMessage, Sent,
                GetMessage, GetMessageFails, Join, Dtor, MakeString, Owner
  <2>2. QED
    BY <2>1 DEF Box!boxVars, Alive
<1>9. CASE UNCHANGED vars
    BY <1>9 DEF vars, Box!boxVars, Alive
<1>10. QED
    BY <1>1, <1>2, <1>3, <1>4, <1>5, <1>6, <1>7, <1>8, <1>9 DEF Next, Over, ThreadStep

(***************************************************************************)
(* Every client implements the mailbox: what arrives is handed over once,  *)
(* by the callback while the thread lives and by getMessage while it does  *)
(* not (but for the Unix datagram client), and only UDP loses any of it.   *)
(***************************************************************************)
THEOREM MailboxRefinement == Spec => ImplementsMailbox
<1>1. Init => Box!Init
    BY DEF Init, Box!Init, Alive
<1>2. IInv /\ IInv' /\ [Next]_vars => [Box!Next]_Box!boxVars
    BY BoxStep
<1>3. QED
    BY <1>1, <1>2, Invariance, PTL DEF Spec, ImplementsMailbox, Box!Spec
=============================================================================
