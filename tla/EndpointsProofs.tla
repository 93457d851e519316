-------------------------- MODULE EndpointsProofs --------------------------
(***************************************************************************)
(* Proofs about Endpoints, for any number of endpoints, processes, names   *)
(* and descriptors.                                                        *)
(***************************************************************************)
EXTENDS Endpoints, SequenceTheorems, WellFoundedInduction, TLAPS

-----------------------------------------------------------------------------
(* Facts about the operators.                                              *)

\* The lowest free number is free.
LEMMA LowestIsFree ==
    ASSUME NEW p \in Procs, FreeFds(p) # {}
    PROVE  Lowest(p) \in Fds /\ table[p][Lowest(p)] = Free
<1> DEFINE R == {ss \in Nat \X Nat : ss[1] < ss[2]}
<1>1. FreeFds(p) \subseteq Nat
  BY EndpointAssumption DEF FreeFds
<1>2. IsWellFoundedOn(R, Nat)
  BY NatLessThanWellFounded DEF OpToRel
<1>3. PICK fd \in FreeFds(p) : \A g \in FreeFds(p) : ~(<<g, fd>> \in R)
  <2> HIDE DEF R
  <2> QED
    BY <1>1, <1>2, WFMin
<1>4. Lowest(p) \in FreeFds(p)
  <2>1. ASSUME NEW g \in FreeFds(p)
        PROVE  fd <= g
    <3>1. <<g, fd>> \notin R
      BY <1>3
    <3>2. <<g, fd>> \in Nat \X Nat /\ <<g, fd>>[1] = g /\ <<g, fd>>[2] = fd
      BY <1>1
    <3>3. ~(g < fd)
      BY <3>1, <3>2
    <3> QED
      BY <1>1, <3>3
  <2> QED
    BY <2>1 DEF Lowest
<1> QED
  BY <1>4 DEF FreeFds

\* What is left of a list of calls after the first.
LEMMA Shift ==
    ASSUME NEW s \in Seq(Call), s # <<>>
    PROVE  /\ Head(s) \in Call
           /\ Tail(s) \in Seq(Call)
           /\ Range(s) = Range(Tail(s)) \cup {Head(s)}
           /\ Len(s) > 1 <=> Tail(s) # <<>>
<1>1. Len(s) \in Nat /\ Len(s) > 0 /\ DOMAIN s = 1 .. Len(s) /\ Head(s) = s[1]
  BY EmptySeq, LenProperties
<1>2. Head(s) \in Call /\ Tail(s) \in Seq(Call) /\ Len(Tail(s)) = Len(s) - 1
      /\ \A i \in 1 .. Len(s) - 1 : Tail(s)[i] = s[i + 1]
  BY HeadTailProperties
<1>3. DOMAIN Tail(s) = 1 .. Len(s) - 1
  BY <1>2, LenProperties
<1>4. Range(Tail(s)) \cup {Head(s)} \subseteq Range(s)
  BY <1>1, <1>2, <1>3 DEF Range
<1>5. ASSUME NEW i \in 1 .. Len(s)
      PROVE  s[i] \in Range(Tail(s)) \cup {Head(s)}
  <2>1. CASE i = 1
    BY <1>1, <2>1
  <2>2. CASE i # 1
    <3>1. i - 1 \in 1 .. Len(s) - 1 /\ (i - 1) + 1 = i
      BY <1>1, <2>2
    <3>2. Tail(s)[i - 1] = s[i]
      BY <1>2, <3>1
    <3> QED
      BY <1>3, <3>1, <3>2 DEF Range
  <2> QED
    BY <2>1, <2>2
<1>6. Range(s) \subseteq Range(Tail(s)) \cup {Head(s)}
  BY <1>1, <1>5 DEF Range
<1>7. Len(s) > 1 <=> Tail(s) # <<>>
  <2>1. Tail(s) # <<>> => Len(Tail(s)) \in Nat \ {0}
    BY <1>2, EmptySeq
  <2>2. Len(<<>>) = 0
    OBVIOUS
  <2>3. Tail(s) = <<>> => Len(Tail(s)) = 0
    BY <2>2
  <2> QED
    BY <1>1, <1>2, <2>1, <2>3
<1> QED
  BY <1>2, <1>4, <1>6, <1>7

\* In a list of calls that is in order the first comes before all others.
LEMMA ShiftInOrder ==
    ASSUME NEW s \in Seq(Call), s # <<>>, InOrder(s)
    PROVE  /\ InOrder(Tail(s))
           /\ \A c \in Range(Tail(s)) : Rank[Head(s)] < Rank[c]
<1>1. Len(s) \in Nat /\ Len(s) > 0 /\ DOMAIN s = 1 .. Len(s) /\ Head(s) = s[1]
  BY EmptySeq, LenProperties
<1>2. DOMAIN Tail(s) = 1 .. Len(s) - 1 /\ \A i \in 1 .. Len(s) - 1 : Tail(s)[i] = s[i + 1]
  BY HeadTailProperties, LenProperties
<1>3. InOrder(Tail(s))
  BY <1>1, <1>2 DEF InOrder
<1>4. \A c \in Range(Tail(s)) : Rank[Head(s)] < Rank[c]
  BY <1>1, <1>2 DEF InOrder, Range
<1> QED
  BY <1>3, <1>4

\* What is left of the end of a list is an end of it.
LEMMA ShiftEnd ==
    ASSUME NEW s \in Seq(Call), NEW t \in Seq(Call), s # <<>>, EndOf(s, t)
    PROVE  EndOf(Tail(s), t)
<1>1. Len(s) \in Nat /\ Len(s) > 0 /\ Len(t) \in Nat /\ Len(Tail(s)) = Len(s) - 1
  BY EmptySeq, LenProperties, HeadTailProperties
<1>2. \A i \in 1 .. Len(s) - 1 : Tail(s)[i] = s[i + 1]
  BY <1>1, HeadTailProperties
<1> QED
  BY <1>1, <1>2 DEF EndOf

LEMMA HeadOfEnd ==
    ASSUME NEW s \in Seq(Call), NEW t \in Seq(Call), s # <<>>, EndOf(s, t)
    PROVE  \E i \in DOMAIN t : Head(s) = t[i]
<1>1. Len(s) \in Nat /\ Len(s) > 0 /\ Len(t) \in Nat /\ Len(s) <= Len(t)
  BY EmptySeq, LenProperties DEF EndOf
<1>2. Head(s) = s[1] /\ DOMAIN t = 1 .. Len(t)
  BY <1>1, LenProperties
<1>3. s[1] = t[1 + Len(t) - Len(s)]
  BY <1>1 DEF EndOf
<1>4. 1 + Len(t) - Len(s) \in 1 .. Len(t)
  BY <1>1
<1> QED
  BY <1>2, <1>3, <1>4

\* The calls of the constructors.
LEMMA ConstructorCalls ==
    ASSUME NEW k \in Servers \cup Clients
    PROVE  /\ Constructor(k) \in Seq(Call)
           /\ Constructor(k) # <<>>
           /\ InOrder(Constructor(k))
           /\ "socket" \in Range(Constructor(k))
           /\ Range(Constructor(k)) \subseteq {"socket", "option", "unlink", "bind", "listen", "connect"}
           /\ k \in UnixKinds => {"unlink", "bind"} \subseteq Range(Constructor(k))
           /\ "unlink" \in Range(Constructor(k)) => "bind" \in Range(Constructor(k))
           /\ "unlink" \in Range(Constructor(k)) => k \in UnixKinds
           /\ "listen" \in Range(Constructor(k)) => k \in Servers
           /\ k = "tcpServer" => "option" \in Range(Constructor(k))
           /\ "connect" \in Range(Constructor(k)) =>
                 k \in {"tcpClient", "udpClient", "unixStreamClient"}
<1>1. CASE k = "tcpServer"
  <2>1. Constructor(k) = <<"socket", "option", "bind", "listen">>
    BY <1>1 DEF Constructor
  <2>2. DOMAIN Constructor(k) = 1 .. 4
    BY <2>1
  <2>3. Constructor(k) \in Seq(Call)
    BY <2>1 DEF Call
  <2>4. InOrder(Constructor(k))
    BY <2>1, <2>2 DEF InOrder, Rank
  <2>5. Range(Constructor(k)) = {"socket", "option", "bind", "listen"}
    BY <2>1, <2>2 DEF Range
  <2>6. k \notin UnixKinds
    BY <1>1 DEF UnixKinds
  <2>7. Constructor(k) # <<>>
    BY <2>1
  <2> QED
    BY <1>1, <2>3, <2>4, <2>5, <2>6, <2>7 DEF Servers
<1>2. CASE k = "udpServer"
  <2>1. Constructor(k) = <<"socket", "option", "bind">>
    BY <1>2 DEF Constructor
  <2>2. DOMAIN Constructor(k) = 1 .. 3
    BY <2>1
  <2>3. Constructor(k) \in Seq(Call)
    BY <2>1 DEF Call
  <2>4. InOrder(Constructor(k))
    BY <2>1, <2>2 DEF InOrder, Rank
  <2>5. Range(Constructor(k)) = {"socket", "option", "bind"}
    BY <2>1, <2>2 DEF Range
  <2>6. k \notin UnixKinds
    BY <1>2 DEF UnixKinds
  <2>7. Constructor(k) # <<>>
    BY <2>1
  <2> QED
    BY <1>2, <2>3, <2>4, <2>5, <2>6, <2>7 DEF Servers
<1>3. CASE k = "unixStreamServer"
  <2>1. Constructor(k) = <<"socket", "unlink", "bind", "listen">>
    BY <1>3 DEF Constructor
  <2>2. DOMAIN Constructor(k) = 1 .. 4
    BY <2>1
  <2>3. Constructor(k) \in Seq(Call)
    BY <2>1 DEF Call
  <2>4. InOrder(Constructor(k))
    BY <2>1, <2>2 DEF InOrder, Rank
  <2>5. Range(Constructor(k)) = {"socket", "unlink", "bind", "listen"}
    BY <2>1, <2>2 DEF Range
  <2>7. Constructor(k) # <<>>
    BY <2>1
  <2> QED
    BY <1>3, <2>3, <2>4, <2>5, <2>7 DEF Servers, UnixKinds
<1>4. CASE k = "unixDgramServer"
  <2>1. Constructor(k) = <<"socket", "unlink", "bind">>
    BY <1>4 DEF Constructor
  <2>2. DOMAIN Constructor(k) = 1 .. 3
    BY <2>1
  <2>3. Constructor(k) \in Seq(Call)
    BY <2>1 DEF Call
  <2>4. InOrder(Constructor(k))
    BY <2>1, <2>2 DEF InOrder, Rank
  <2>5. Range(Constructor(k)) = {"socket", "unlink", "bind"}
    BY <2>1, <2>2 DEF Range
  <2>7. Constructor(k) # <<>>
    BY <2>1
  <2> QED
    BY <1>4, <2>3, <2>4, <2>5, <2>7 DEF Servers, UnixKinds
<1>5. CASE k = "tcpClient"
  <2>1. Constructor(k) = <<"socket", "connect">>
    BY <1>5 DEF Constructor
  <2>2. DOMAIN Constructor(k) = 1 .. 2
    BY <2>1
  <2>3. Constructor(k) \in Seq(Call)
    BY <2>1 DEF Call
  <2>4. InOrder(Constructor(k))
    BY <2>1, <2>2 DEF InOrder, Rank
  <2>5. Range(Constructor(k)) = {"socket", "connect"}
    BY <2>1, <2>2 DEF Range
  <2>6. k \notin UnixKinds
    BY <1>5 DEF UnixKinds
  <2>7. Constructor(k) # <<>>
    BY <2>1
  <2> QED
    BY <1>5, <2>3, <2>4, <2>5, <2>6, <2>7 DEF Servers
<1>6. CASE k = "udpClient"
  <2>1. Constructor(k) = <<"socket", "connect">>
    BY <1>6 DEF Constructor
  <2>2. DOMAIN Constructor(k) = 1 .. 2
    BY <2>1
  <2>3. Constructor(k) \in Seq(Call)
    BY <2>1 DEF Call
  <2>4. InOrder(Constructor(k))
    BY <2>1, <2>2 DEF InOrder, Rank
  <2>5. Range(Constructor(k)) = {"socket", "connect"}
    BY <2>1, <2>2 DEF Range
  <2>6. k \notin UnixKinds
    BY <1>6 DEF UnixKinds
  <2>7. Constructor(k) # <<>>
    BY <2>1
  <2> QED
    BY <1>6, <2>3, <2>4, <2>5, <2>6, <2>7 DEF Servers
<1>7. CASE k = "unixStreamClient"
  <2>1. Constructor(k) = <<"socket", "unlink", "bind", "connect">>
    BY <1>7 DEF Constructor
  <2>2. DOMAIN Constructor(k) = 1 .. 4
    BY <2>1
  <2>3. Constructor(k) \in Seq(Call)
    BY <2>1 DEF Call
  <2>4. InOrder(Constructor(k))
    BY <2>1, <2>2 DEF InOrder, Rank
  <2>5. Range(Constructor(k)) = {"socket", "unlink", "bind", "connect"}
    BY <2>1, <2>2 DEF Range
  <2>7. Constructor(k) # <<>>
    BY <2>1
  <2> QED
    BY <1>7, <2>3, <2>4, <2>5, <2>7 DEF Servers, UnixKinds
<1>8. CASE k = "unixDgramClient"
  <2>1. Constructor(k) = <<"socket", "unlink", "bind">>
    BY <1>8 DEF Constructor
  <2>2. DOMAIN Constructor(k) = 1 .. 3
    BY <2>1
  <2>3. Constructor(k) \in Seq(Call)
    BY <2>1 DEF Call
  <2>4. InOrder(Constructor(k))
    BY <2>1, <2>2 DEF InOrder, Rank
  <2>5. Range(Constructor(k)) = {"socket", "unlink", "bind"}
    BY <2>1, <2>2 DEF Range
  <2>7. Constructor(k) # <<>>
    BY <2>1
  <2> QED
    BY <1>8, <2>3, <2>4, <2>5, <2>7 DEF Servers, UnixKinds
<1> QED
  BY <1>1, <1>2, <1>3, <1>4, <1>5, <1>6, <1>7, <1>8 DEF Servers, Clients

\* The calls of the destructors: a server closes twice, a client never.
LEMMA DestructorCalls ==
    ASSUME NEW k \in Servers \cup Clients
    PROVE  /\ Destructor(k) \in Seq(Call)
           /\ k \in Servers => Len(Destructor(k)) > 2 /\ Head(Destructor(k)) = "close"
           /\ k \in Clients => Len(Destructor(k)) < 2
           /\ \A i \in DOMAIN Destructor(k) :
                 /\ Destructor(k)[i] \in {"close", "unlink", "peers"}
                 /\ k \in Clients => Destructor(k)[i] = "unlink"
                 /\ Destructor(k)[i] = "unlink" => k \in UnixKinds
<1>1. CASE k \in {"tcpServer", "udpServer"}
  <2>1. Destructor(k) = <<"close", "close", "peers">>
    BY <1>1 DEF Destructor
  <2> QED
    BY <1>1, <2>1 DEF Call, Clients
<1>2. CASE k \in {"unixStreamServer", "unixDgramServer"}
  <2>1. Destructor(k) = <<"close", "unlink", "close", "peers">>
    BY <1>2 DEF Destructor
  <2> QED
    BY <1>2, <2>1 DEF Call, Clients, UnixKinds
<1>3. CASE k \in {"unixStreamClient", "unixDgramClient"}
  <2>1. Destructor(k) = <<"unlink">>
    BY <1>3 DEF Destructor
  <2> QED
    BY <1>3, <2>1 DEF Call, Servers, UnixKinds
<1>4. CASE k \in {"tcpClient", "udpClient"}
  <2>1. Destructor(k) = <<>>
    BY <1>4 DEF Destructor
  <2> QED
    BY <1>4, <2>1 DEF Call, Servers
<1> QED
  BY <1>1, <1>2, <1>3, <1>4 DEF Servers, Clients

\* A close() of a destructor is its first call, or only "peers" comes after it.
LEMMA Closings ==
    ASSUME NEW k \in Servers \cup Clients, NEW s \in Seq(Call), s # <<>>,
           EndOf(s, Destructor(k)), Head(s) = "close"
    PROVE  k \in Servers /\ (s = Destructor(k) \/ Tail(s) = <<"peers">>)
<1>1. Len(s) \in Nat /\ Len(s) > 0
  BY EmptySeq
<1>2. Head(s) = s[1] /\ s[1] = "close"
  BY <1>1
<1>3. Destructor(k) \in Seq(Call) /\ Len(s) <= Len(Destructor(k))
      /\ \A i \in 1 .. Len(s) : s[i] = Destructor(k)[i + Len(Destructor(k)) - Len(s)]
  BY DestructorCalls DEF EndOf
<1>4. ASSUME Len(s) = 2, s[2] = "peers"
      PROVE  Tail(s) = <<"peers">>
  <2>1. Tail(s) \in Seq(Call) /\ Len(Tail(s)) = 1 /\ Tail(s)[1] = "peers"
    BY <1>4, HeadTailProperties
  <2> DEFINE t == <<"peers">>
  <2>2. t \in Seq(Call) /\ Len(t) = 1 /\ t[1] = "peers"
    BY DEF Call
  <2> HIDE DEF t
  <2>3. \A i \in 1 .. Len(Tail(s)) : Tail(s)[i] = t[i]
    <3>1. SUFFICES ASSUME NEW i \in 1 .. 1 PROVE Tail(s)[i] = t[i]
      BY <2>1
    <3>2. i = 1
      OBVIOUS
    <3> QED
      BY <2>1, <2>2, <3>2
  <2>4. Tail(s) = t
    BY <2>1, <2>2, <2>3, SeqEqual
  <2> QED
    BY <2>4 DEF t
<1>5. ASSUME Len(s) = Len(Destructor(k))
      PROVE  s = Destructor(k)
  BY <1>1, <1>2, <1>3, <1>5, SeqEqual
<1>6. CASE k \in {"tcpServer", "udpServer"}
  <2>1. Destructor(k) = <<"close", "close", "peers">>
    BY <1>6 DEF Destructor
  <2>2. Len(s) = 3 \/ (Len(s) = 2 /\ s[2] = "peers")
    <3>1. Len(Destructor(k)) = 3
          /\ Destructor(k)[1] = "close" /\ Destructor(k)[2] = "close" /\ Destructor(k)[3] = "peers"
      BY <2>1
    <3>2. Len(s) \in 1 .. 3
      <4>1. Len(s) <= 3
        BY <1>3, <3>1
      <4>2. \A n \in Nat : n > 0 /\ n <= 3 => n \in 1 .. 3
        OBVIOUS
      <4> QED
        BY <1>1, <4>1, <4>2
    <3>3. ASSUME Len(s) = 1 PROVE FALSE
      <4>1. s[1] = Destructor(k)[1 + Len(Destructor(k)) - Len(s)]
        BY <1>1, <1>3, <3>3
      <4> QED
        BY <1>2, <3>1, <3>3, <4>1
    <3>4. ASSUME Len(s) = 2 PROVE s[2] = "peers"
      <4>1. s[2] = Destructor(k)[2 + Len(Destructor(k)) - Len(s)]
        BY <1>1, <1>3, <3>4
      <4> QED
        BY <3>1, <3>4, <4>1
    <3> QED
      BY <3>2, <3>3, <3>4
  <2> QED
    BY <1>4, <1>5, <1>6, <2>1, <2>2 DEF Servers
<1>7. CASE k \in {"unixStreamServer", "unixDgramServer"}
  <2>1. Destructor(k) = <<"close", "unlink", "close", "peers">>
    BY <1>7 DEF Destructor
  <2>2. Len(s) = 4 \/ (Len(s) = 2 /\ s[2] = "peers")
    <3>1. Len(Destructor(k)) = 4
          /\ Destructor(k)[1] = "close" /\ Destructor(k)[2] = "unlink" /\ Destructor(k)[3] = "close" /\ Destructor(k)[4] = "peers"
      BY <2>1
    <3>2. Len(s) \in 1 .. 4
      <4>1. Len(s) <= 4
        BY <1>3, <3>1
      <4>2. \A n \in Nat : n > 0 /\ n <= 4 => n \in 1 .. 4
        OBVIOUS
      <4> QED
        BY <1>1, <4>1, <4>2
    <3>3. ASSUME Len(s) = 1 PROVE FALSE
      <4>1. s[1] = Destructor(k)[1 + Len(Destructor(k)) - Len(s)]
        BY <1>1, <1>3, <3>3
      <4> QED
        BY <1>2, <3>1, <3>3, <4>1
    <3>5. ASSUME Len(s) = 3 PROVE FALSE
      <4>1. s[1] = Destructor(k)[1 + Len(Destructor(k)) - Len(s)]
        BY <1>1, <1>3, <3>5
      <4> QED
        BY <1>2, <3>1, <3>5, <4>1
    <3>4. ASSUME Len(s) = 2 PROVE s[2] = "peers"
      <4>1. s[2] = Destructor(k)[2 + Len(Destructor(k)) - Len(s)]
        BY <1>1, <1>3, <3>4
      <4> QED
        BY <3>1, <3>4, <4>1
    <3> QED
      BY <3>2, <3>3, <3>4, <3>5
  <2> QED
    BY <1>4, <1>5, <1>7, <2>1, <2>2 DEF Servers
<1>8. CASE k \in Clients
  BY <1>1, <1>2, <1>3, <1>8, DestructorCalls
<1> QED
  BY <1>6, <1>7, <1>8 DEF Servers

-----------------------------------------------------------------------------
(* Steps in general.                                                       *)

\* Where an endpoint is that has a call to make.
LEMMA CallFacts ==
    ASSUME TypeOK, NEW e \in Ids, PhaseInv(e), NEW c \in Call, Calls(e, c)
    PROVE  /\ todo[e] \in Seq(Call) /\ todo[e] # <<>> /\ Head(todo[e]) = c
           /\ c \in Ahead(e)
           /\ phase[e] \in {"constructing", "reconnecting", "destructing"}
           /\ kind[e] \in Kinds /\ kind[e] \in Servers \cup Clients
           /\ proc[e] \in Procs \ spoiled
           /\ c \in {"socket", "connect"} => Making(e)
           /\ c \in {"option", "bind", "listen"} => phase[e] = "constructing"
           /\ c = "unlink" => phase[e] # "reconnecting" /\ Unix(e)
           /\ c = "listen" => kind[e] \in Servers
           /\ c = "connect" => kind[e] \in {"tcpClient", "udpClient", "unixStreamClient"}
           /\ c = "close" => phase[e] # "constructing"
           /\ c = "peers" => phase[e] = "destructing"
<1>1. todo[e] \in Seq(Call) /\ todo[e] # <<>> /\ Head(todo[e]) = c /\ proc[e] \notin spoiled
  BY DEF TypeOK, Calls
<1>2. phase[e] \in {"constructing", "reconnecting", "destructing"}
  BY <1>1 DEF TypeOK
<1>3. kind[e] \in Kinds /\ kind[e] \in Servers \cup Clients /\ proc[e] \in Procs
  BY <1>2, EndpointAssumption DEF PhaseInv
<1>4. c \in Ahead(e)
  BY <1>1, Shift DEF Ahead
<1>5. ASSUME phase[e] = "destructing"
      PROVE  c \in {"close", "unlink", "peers"} /\ (c = "unlink" => Unix(e))
  <2>1. EndOf(todo[e], Destructor(kind[e])) /\ Destructor(kind[e]) \in Seq(Call)
    BY <1>3, <1>5, DestructorCalls DEF PhaseInv
  <2>2. PICK i \in DOMAIN Destructor(kind[e]) : Head(todo[e]) = Destructor(kind[e])[i]
    BY <1>1, <2>1, HeadOfEnd
  <2> QED
    BY <1>1, <1>3, <2>2, DestructorCalls DEF Unix
<1>6. phase[e] = "constructing" =>
        /\ c \in {"socket", "option", "unlink", "bind", "listen", "connect"}
        /\ c = "unlink" => Unix(e)
        /\ c = "listen" => kind[e] \in Servers
        /\ c = "connect" => kind[e] \in {"tcpClient", "udpClient", "unixStreamClient"}
  BY <1>3, <1>4, ConstructorCalls DEF PhaseInv, Unix
<1>7. phase[e] = "reconnecting" =>
        c \in {"close", "socket", "connect"} /\ kind[e] = "udpClient"
  BY <1>4 DEF PhaseInv
<1> QED
  BY <1>1, <1>2, <1>3, <1>4, <1>5, <1>6, <1>7 DEF Making

\* What Done does to the phases and to the calls that remain.
LEMMA DoneFacts ==
    ASSUME TypeOK, NEW e \in Ids, PhaseInv(e), NEW c \in Call, Calls(e, c), Done(e)
    PROVE  /\ todo' \in [Ids -> Seq(Call)]
           /\ phase' \in [Ids -> {"new", "constructing", "live", "reconnecting", "destructing", "dead"}]
           /\ \A r \in Ids :
                 todo'[r] # <<>> <=> phase'[r] \in {"constructing", "reconnecting", "destructing"}
           /\ \A r \in Ids \ {e} : todo'[r] = todo[r] /\ phase'[r] = phase[r]
           /\ todo'[e] = Tail(todo[e])
           /\ \/ phase'[e] = phase[e]
              \/ phase[e] = "destructing" /\ phase'[e] = "dead" /\ todo'[e] = <<>>
              \/ Making(e) /\ phase'[e] = "live" /\ Ahead(e)' = {}
           /\ Ahead(e) = Ahead(e)' \cup {c}
           /\ Making(e) => InOrder(todo'[e]) /\ \A d \in Ahead(e)' : Rank[c] < Rank[d]
<1>1. /\ todo[e] \in Seq(Call) /\ todo[e] # <<>> /\ Head(todo[e]) = c
      /\ phase[e] \in {"constructing", "reconnecting", "destructing"}
  BY CallFacts
<1>2. todo'[e] = Tail(todo[e]) /\ \A r \in Ids \ {e} : todo'[r] = todo[r]
  BY DEF Done, TypeOK
<1>3. Tail(todo[e]) \in Seq(Call) /\ Range(todo[e]) = Range(Tail(todo[e])) \cup {c}
      /\ (Len(todo[e]) > 1 <=> Tail(todo[e]) # <<>>)
  BY <1>1, Shift
<1>4. todo' \in [Ids -> Seq(Call)]
  BY <1>3 DEF Done, TypeOK
<1>5. phase' = [phase EXCEPT ![e] = IF Tail(todo[e]) # <<>> THEN phase[e]
                                    ELSE IF phase[e] = "destructing" THEN "dead" ELSE "live"]
  BY <1>3 DEF Done
<1>6. phase' \in [Ids -> {"new", "constructing", "live", "reconnecting", "destructing", "dead"}]
  BY <1>5 DEF TypeOK
<1>7. \A r \in Ids \ {e} : phase'[r] = phase[r]
  BY <1>5 DEF TypeOK
<1>8. phase'[e] = IF Tail(todo[e]) # <<>> THEN phase[e]
                  ELSE IF phase[e] = "destructing" THEN "dead" ELSE "live"
  BY <1>5 DEF TypeOK
<1>9. \A r \in Ids :
         todo'[r] # <<>> <=> phase'[r] \in {"constructing", "reconnecting", "destructing"}
  BY <1>1, <1>2, <1>7, <1>8 DEF TypeOK
<1>10. Ahead(e) = Ahead(e)' \cup {c} /\ Ahead(e)' = Range(Tail(todo[e]))
  BY <1>2, <1>3 DEF Ahead
<1>11. Range(<<>>) = {}
  BY DEF Range
<1>12. \/ phase'[e] = phase[e]
       \/ phase[e] = "destructing" /\ phase'[e] = "dead" /\ todo'[e] = <<>>
       \/ Making(e) /\ phase'[e] = "live" /\ Ahead(e)' = {}
  BY <1>1, <1>2, <1>8, <1>10, <1>11 DEF Making
<1>13. Making(e) => InOrder(todo'[e]) /\ \A d \in Ahead(e)' : Rank[c] < Rank[d]
  BY <1>1, <1>2, <1>10, ShiftInOrder DEF PhaseInv
<1> QED
  BY <1>2, <1>4, <1>6, <1>7, <1>9, <1>10, <1>12, <1>13

\* What close(sock_) does to the process's numbers and to the sockets.
LEMMA CloseFacts ==
    ASSUME TypeOK, TableInv, \A r \in Ids : PhaseInv(r),
           NEW e \in Ids, proc[e] \in Procs \ spoiled, Close(e, proc[e], sock[e])
    PROVE  /\ table' \in [Procs -> [Fds -> Ids \cup {Free, Other}]]
           /\ socket' \in [Ids -> {"none", "open", "listening", "closed"}]
           /\ lingering' \subseteq Names
           /\ spoiled \subseteq spoiled' /\ spoiled' \subseteq Procs
           /\ spoiled' = spoiled \/
                 (spoiled' = spoiled \cup {proc[e]} /\ sock[e] # -1
                    /\ table[proc[e]][sock[e]] # e)
           /\ \A p \in Procs, fd \in Fds, r \in Ids :
                 table'[p][fd] = r => table[p][fd] = r /\ r # e /\ socket'[r] = socket[r]
           /\ \A r \in Ids : socket'[r] \in {socket[r], "closed"}
           /\ socket'[e] \notin {"open", "listening"}
           /\ \A r \in Ids : socket'[r] \in {"open", "listening"} => table'[proc[r]][sock[r]] = r
           /\ \A r \in Ids \ {e} :
                 proc[r] \in Procs /\ proc[r] \notin spoiled' /\ sock[r] \in Fds
                    /\ table[proc[r]][sock[r]] = r
                 => table'[proc[r]][sock[r]] = r
<1> DEFINE p == proc[e]
           fd == sock[e]
           owner == IF fd \in Fds THEN table[p][fd] ELSE Free
<1>1. /\ table' = IF fd \in Fds THEN [table EXCEPT ![p][fd] = Free] ELSE table
      /\ socket' = IF owner \in Ids THEN [socket EXCEPT ![owner] = "closed"] ELSE socket
      /\ spoiled' = IF owner \in {e, Free} THEN spoiled ELSE spoiled \cup {p}
      /\ Linger(owner)
  BY DEF Close
<1>2. fd \in Fds \cup {-1} /\ -1 \notin Fds /\ p \in Procs \ spoiled
  BY EndpointAssumption DEF TypeOK
<1>3. owner \in Ids \cup {Free, Other} /\ Free \notin Ids /\ Other \notin Ids
  <2>1. table \in [Procs -> [Fds -> Ids \cup {Free, Other}]]
    BY DEF TypeOK
  <2>2. fd \in Fds => table[p][fd] \in Ids \cup {Free, Other}
    BY <1>2, <2>1
  <2> QED
    BY <2>2, EndpointAssumption
<1>4. table' \in [Procs -> [Fds -> Ids \cup {Free, Other}]]
  BY <1>1, <1>2 DEF TypeOK
<1>5. socket' \in [Ids -> {"none", "open", "listening", "closed"}]
  BY <1>1, <1>3 DEF TypeOK
<1>6. lingering' \subseteq Names
  <2>1. ASSUME NEW r \in Ids, kind[r] = "tcpServer"
        PROVE  name[r] \in Names
    <3>1. phase[r] # "new"
      BY <2>1 DEF PhaseInv
    <3>2. name[r] # NoName
      BY <2>1, <3>1 DEF PhaseInv
    <3>3. name[r] \in Names \cup {NoName}
      BY DEF TypeOK
    <3> QED
      BY <3>2, <3>3
  <2>2. lingering \subseteq Names
    BY DEF TypeOK
  <2> HIDE DEF owner
  <2> QED
    BY <1>1, <2>1, <2>2 DEF Linger
<1>7. /\ spoiled \subseteq spoiled' /\ spoiled' \subseteq Procs
      /\ spoiled' = spoiled \/
            (spoiled' = spoiled \cup {p} /\ fd # -1 /\ table[p][fd] # e)
  BY <1>1, <1>2, <1>3 DEF TypeOK
<1>8. \A q \in Procs, g \in Fds :
         table'[q][g] = IF q = p /\ g = fd THEN Free ELSE table[q][g]
  BY <1>1, <1>2 DEF TypeOK
<1>9. \A r \in Ids : socket'[r] = IF fd \in Fds /\ r = table[p][fd] THEN "closed" ELSE socket[r]
  BY <1>1, <1>3 DEF TypeOK
<1>10. \A q \in Procs, g \in Fds, r \in Ids :
          table'[q][g] = r => table[q][g] = r /\ r # e /\ socket'[r] = socket[r]
  <2> SUFFICES ASSUME NEW q \in Procs, NEW g \in Fds, NEW r \in Ids, table'[q][g] = r
               PROVE  table[q][g] = r /\ r # e /\ socket'[r] = socket[r]
    OBVIOUS
  <2>1. table[q][g] = r /\ ~(q = p /\ g = fd)
    BY <1>3, <1>8
  <2>2. proc[r] = q /\ sock[r] = g
    BY <2>1 DEF TableInv
  <2>3. r # e
    BY <2>1, <2>2
  <2>4. fd \in Fds => r # table[p][fd]
    BY <1>2, <2>1, <2>2 DEF TableInv
  <2> QED
    BY <1>9, <2>1, <2>3, <2>4
<1>11. \A r \in Ids : socket'[r] \in {socket[r], "closed"}
  BY <1>9
<1>12. socket'[e] \notin {"open", "listening"}
  BY <1>9 DEF TableInv
<1>13. \A r \in Ids : socket'[r] \in {"open", "listening"} => table'[proc[r]][sock[r]] = r
  <2> SUFFICES ASSUME NEW r \in Ids, socket'[r] \in {"open", "listening"}
               PROVE  table'[proc[r]][sock[r]] = r
    OBVIOUS
  <2>1. socket[r] = socket'[r]
    BY <1>11
  <2>2. sock[r] \in Fds /\ table[proc[r]][sock[r]] = r
    BY <2>1 DEF TableInv
  <2>3. phase[r] # "new"
    BY <1>2, <2>2 DEF PhaseInv
  <2>4. proc[r] \in Procs
    BY <2>3 DEF PhaseInv
  <2>5. ~(proc[r] = p /\ sock[r] = fd)
    BY <1>9, <2>2
  <2> QED
    BY <1>8, <2>2, <2>4, <2>5
<1>14. \A r \in Ids \ {e} :
          proc[r] \in Procs /\ proc[r] \notin spoiled' /\ sock[r] \in Fds
             /\ table[proc[r]][sock[r]] = r
          => table'[proc[r]][sock[r]] = r
  <2> SUFFICES ASSUME NEW r \in Ids \ {e}, proc[r] \in Procs, proc[r] \notin spoiled',
                      sock[r] \in Fds, table[proc[r]][sock[r]] = r
               PROVE  table'[proc[r]][sock[r]] = r
    OBVIOUS
  <2>1. ~(proc[r] = p /\ sock[r] = fd)
    BY <1>1, <1>3
  <2> QED
    BY <1>8, <2>1
<1> QED
  BY <1>4, <1>5, <1>6, <1>7, <1>10, <1>11, <1>12, <1>13, <1>14

\* An endpoint that takes no part in a step.
LEMMA Bystander ==
    ASSUME TypeOK, TypeOK', NEW r \in Ids,
           PhaseInv(r), SockInv(r), OwnInv(r), FileInv(r),
           kind'[r] = kind[r], proc'[r] = proc[r], name'[r] = name[r],
           todo'[r] = todo[r], phase'[r] = phase[r], failed'[r] = failed[r],
           sock'[r] = sock[r], reuse'[r] = reuse[r], alone'[r] => alone[r],
           socket'[r] \in {socket[r], "closed"},
           spoiled \cap {proc[r]} \subseteq spoiled',
           proc[r] \in Procs /\ proc[r] \notin spoiled' /\ sock[r] \in Fds
              /\ table[proc[r]][sock[r]] = r => table'[proc[r]][sock[r]] = r,
           Unix(r) /\ alone'[r] /\ Lives(r) => file'[name[r]] = file[name[r]]
    PROVE  PhaseInv(r)' /\ SockInv(r)' /\ OwnInv(r)' /\ FileInv(r)'
<1>1. kind'[r] = kind[r] /\ proc'[r] = proc[r] /\ name'[r] = name[r]
  OBVIOUS
<1>2. Ahead(r)' = Ahead(r)
  BY DEF Ahead
<1>3. PhaseInv(r)'
  BY <1>1, <1>2 DEF PhaseInv, Making
<1>4. SockInv(r)'
  BY <1>1, <1>2 DEF SockInv, Making
<1>5. OwnInv(r)'
  <2>1. phase[r] # "new" => proc[r] \in Procs
    BY DEF PhaseInv
  <2>2. sock[r] \in Fds \cup {-1}
    BY DEF TypeOK
  <2> QED
    BY <1>1, <2>1, <2>2 DEF OwnInv, Whole
<1>6. FileInv(r)'
  BY <1>1, <1>2 DEF FileInv, Unix, Lives
<1> QED
  BY <1>3, <1>4, <1>5, <1>6

\* Endpoints that do not come to life leave each other alone.
LEMMA AloneKept ==
    ASSUME AloneInv, UNCHANGED <<shape, alone>>,
           \A r \in Ids : Lives(r)' => Lives(r)
    PROVE  AloneInv'
BY DEF AloneInv, Rivals, shape, Lives

LEMMA NotEmpty ==
    ASSUME NEW s \in Seq(Call), s # <<>>
    PROVE  Range(s) # {}
BY Shift

\* What a call that is done keeps, for the endpoint that makes it.
LEMMA DoneKeeps ==
    ASSUME TypeOK, NEW e \in Ids, PhaseInv(e), FileInv(e), NEW c \in Call, Calls(e, c), Done(e),
           failed' = failed,
           Unix(e) /\ phase[e] = "constructing" =>
              file'[name[e]] = CASE c = "unlink" -> NoId
                                 [] c = "bind" -> e
                                 [] OTHER -> file[name[e]]
    PROVE  /\ PhaseInv(e)' /\ FileInv(e)'
           /\ Making(e)' => Making(e) /\ Ahead(e)' # {}
           /\ Whole(e)' => Making(e)
           /\ \A r \in Ids : Lives(r)' => Lives(r)
<1>1. /\ todo[e] \in Seq(Call) /\ todo[e] # <<>> /\ Head(todo[e]) = c /\ c \in Ahead(e)
      /\ phase[e] \in {"constructing", "reconnecting", "destructing"}
      /\ kind[e] \in Kinds /\ kind[e] \in Servers \cup Clients
      /\ proc[e] \in Procs \ spoiled
      /\ c \in {"option", "bind", "listen"} => phase[e] = "constructing"
      /\ c = "unlink" => phase[e] # "reconnecting"
  BY CallFacts
<1>2. /\ todo' \in [Ids -> Seq(Call)]
      /\ \A r \in Ids :
            todo'[r] # <<>> <=> phase'[r] \in {"constructing", "reconnecting", "destructing"}
      /\ \A r \in Ids \ {e} : todo'[r] = todo[r] /\ phase'[r] = phase[r]
      /\ todo'[e] = Tail(todo[e])
      /\ \/ phase'[e] = phase[e]
         \/ phase[e] = "destructing" /\ phase'[e] = "dead" /\ todo'[e] = <<>>
         \/ Making(e) /\ phase'[e] = "live" /\ Ahead(e)' = {}
      /\ Ahead(e) = Ahead(e)' \cup {c}
      /\ Making(e) => InOrder(todo'[e]) /\ \A d \in Ahead(e)' : Rank[c] < Rank[d]
  BY DoneFacts
<1>3. UNCHANGED <<shape, alone>> /\ UNCHANGED <<kind, proc, name, target>>
  BY DEF Done, shape
<1>4. Making(e) => c \notin Ahead(e)'
  BY <1>2 DEF Rank, Call
<1>5. \A r \in Ids : Lives(r)' => Lives(r)
  BY <1>1, <1>2 DEF Lives
<1>6. PhaseInv(e)'
  <2>1. ASSUME phase'[e] = "destructing"
        PROVE  EndOf(todo'[e], Destructor(kind[e]))
    <3>1. phase[e] = "destructing"
      BY <1>1, <1>2, <2>1
    <3>2. EndOf(todo[e], Destructor(kind[e])) /\ Destructor(kind[e]) \in Seq(Call)
      BY <1>1, <3>1, DestructorCalls DEF PhaseInv
    <3> QED
      BY <1>1, <1>2, <3>2, ShiftEnd
  <2>3. ASSUME phase'[e] = "reconnecting", "close" \in Ahead(e)'
        PROVE  FALSE
    <3>1. phase[e] = "reconnecting" /\ Making(e)
      BY <1>1, <1>2, <2>3 DEF Making
    <3>2. Rank[c] < Rank["close"] /\ c \in {"close", "socket", "connect"}
      BY <1>1, <1>2, <2>3, <3>1 DEF PhaseInv
    <3> QED
      BY <3>2 DEF Rank
  <2>2. ASSUME phase'[e] = "constructing", "unlink" \in Ahead(e)'
        PROVE  "bind" \in Ahead(e)'
    <3>1. phase[e] = "constructing" /\ Making(e)
      BY <1>1, <1>2, <2>2 DEF Making
    <3>2. Rank[c] < Rank["unlink"] /\ Rank["unlink"] = 2 /\ Rank["bind"] = 3
      BY <1>2, <2>2, <3>1 DEF Rank
    <3>3. c # "bind"
      BY <3>2
    <3>4. "bind" \in Ahead(e)
      BY <1>2, <2>2, <3>1 DEF PhaseInv
    <3> QED
      BY <1>2, <3>3, <3>4
  <2> QED
    BY <1>1, <1>2, <1>3, <2>1, <2>2, <2>3 DEF PhaseInv, Making
<1>7. ASSUME Making(e)' PROVE Making(e) /\ Ahead(e)' # {}
  <2>1. todo'[e] # <<>> /\ todo'[e] \in Seq(Call)
    BY <1>2, <1>7 DEF Making
  <2> QED
    BY <1>1, <1>2, <1>7, <2>1, NotEmpty DEF Making, Ahead
<1>8. ASSUME phase[e] = "destructing" PROVE ~Whole(e)'
  <2>1. Len(todo[e]) \in Nat /\ Len(todo'[e]) = Len(todo[e]) - 1
    BY <1>1, <1>2, HeadTailProperties, LenProperties
  <2>2. Len(todo[e]) <= Len(Destructor(kind[e])) /\ Len(Destructor(kind[e])) \in Nat
    BY <1>1, <1>8, DestructorCalls, LenProperties DEF PhaseInv, EndOf
  <2>3. todo'[e] # Destructor(kind[e])
    BY <2>1, <2>2
  <2> QED
    BY <1>2, <1>3, <1>8, <2>3 DEF Whole, Making
<1>9. FileInv(e)'
  <2> SUFFICES ASSUME Unix(e)', alone'[e]
               PROVE  /\ phase'[e] = "constructing" =>
                            /\ "bind" \in Ahead(e)' /\ "unlink" \notin Ahead(e)'
                                  => file'[name'[e]] = NoId
                            /\ "bind" \notin Ahead(e)' => file'[name'[e]] = e
                      /\ phase'[e] = "live" /\ failed'[e] = "none" => file'[name'[e]] = e
    BY DEF FileInv
  <2>1. Unix(e) /\ alone[e] /\ name'[e] = name[e]
    BY <1>3 DEF Unix
  <2>2. ASSUME phase'[e] \in {"constructing", "live"} PROVE phase[e] = "constructing"
    <3>1. Making(e)
      BY <1>1, <1>2, <2>2 DEF Making
    <3>2. kind[e] # "udpClient"
      BY <2>1 DEF Unix, UnixKinds
    <3> QED
      BY <3>1, <3>2 DEF PhaseInv, Making
  <2>3. ASSUME phase[e] = "constructing"
        PROVE  /\ "bind" \in Ahead(e)' /\ "unlink" \notin Ahead(e)' => file'[name[e]] = NoId
               /\ "bind" \notin Ahead(e)' => file'[name[e]] = e
    <3>1. Making(e)
      BY <2>3 DEF Making
    <3>2. CASE c = "unlink"
      <4>1. "bind" \in Ahead(e)'
        BY <1>1, <1>2, <2>3, <3>2 DEF PhaseInv
      <4> QED
        BY <2>1, <2>3, <3>2, <4>1
    <3>3. CASE c = "bind"
      BY <1>4, <2>1, <2>3, <3>1, <3>3
    <3>4. CASE c \notin {"unlink", "bind"}
      BY <1>2, <2>1, <2>3, <3>4 DEF FileInv
    <3> QED
      BY <3>2, <3>3, <3>4
  <2> QED
    BY <1>2, <2>1, <2>2, <2>3
<1> QED
  BY <1>1, <1>5, <1>6, <1>7, <1>8, <1>9 DEF Making

(***************************************************************************)
(* A call that is done and that neither gives nor takes a number: what it  *)
(* has to do about SO_REUSEADDR and the file is in the assumptions.        *)
(***************************************************************************)
LEMMA DoneStep ==
    ASSUME IInv, NEW e \in Ids, NEW c \in Call, Calls(e, c), c \notin {"socket", "close"},
           Done(e),
           UNCHANGED <<failed, sock, table, lingering, spoiled>>,
           IF c = "listen" THEN socket' = [socket EXCEPT ![e] = "listening"] ELSE UNCHANGED socket,
           IF c = "option" THEN reuse' = [reuse EXCEPT ![e] = TRUE] ELSE UNCHANGED reuse,
           file' \in [Names -> Ids \cup {NoId}],
           \A r \in Ids \ {e} :
              Unix(r) /\ alone[r] /\ Lives(r) => file'[name[r]] = file[name[r]],
           Unix(e) /\ phase[e] = "constructing" =>
              file'[name[e]] = CASE c = "unlink" -> NoId
                                 [] c = "bind" -> e
                                 [] OTHER -> file[name[e]]
    PROVE  IInv'
<1>1. TypeOK /\ TableInv /\ AloneInv /\ BindFailsOnlyToARival
      /\ \A r \in Ids : PhaseInv(r) /\ SockInv(r) /\ OwnInv(r) /\ FileInv(r)
  BY DEF IInv
<1>2. /\ todo[e] \in Seq(Call) /\ todo[e] # <<>> /\ Head(todo[e]) = c /\ c \in Ahead(e)
      /\ phase[e] \in {"constructing", "reconnecting", "destructing"}
      /\ kind[e] \in Kinds /\ kind[e] \in Servers \cup Clients
      /\ proc[e] \in Procs \ spoiled
      /\ c = "connect" => Making(e)
      /\ c \in {"option", "bind", "listen"} => phase[e] = "constructing"
      /\ c = "unlink" => phase[e] # "reconnecting"
      /\ c = "peers" => phase[e] = "destructing"
      /\ c = "listen" => kind[e] \in Servers
  BY <1>1, CallFacts
<1>3. /\ todo' \in [Ids -> Seq(Call)]
      /\ phase' \in [Ids -> {"new", "constructing", "live", "reconnecting", "destructing", "dead"}]
      /\ \A r \in Ids :
            todo'[r] # <<>> <=> phase'[r] \in {"constructing", "reconnecting", "destructing"}
      /\ \A r \in Ids \ {e} : todo'[r] = todo[r] /\ phase'[r] = phase[r]
      /\ todo'[e] = Tail(todo[e])
      /\ \/ phase'[e] = phase[e]
         \/ phase[e] = "destructing" /\ phase'[e] = "dead" /\ todo'[e] = <<>>
         \/ Making(e) /\ phase'[e] = "live" /\ Ahead(e)' = {}
      /\ Ahead(e) = Ahead(e)' \cup {c}
      /\ Making(e) => InOrder(todo'[e]) /\ \A d \in Ahead(e)' : Rank[c] < Rank[d]
  BY <1>1, DoneFacts
<1>4. UNCHANGED <<shape, alone>> /\ UNCHANGED <<kind, proc, name, target>>
  BY DEF Done, shape
<1>5. TypeOK'
  <2>1. socket \in [Ids -> {"none", "open", "listening", "closed"}] /\ reuse \in [Ids -> BOOLEAN]
    BY <1>1 DEF TypeOK
  <2>2. socket' \in [Ids -> {"none", "open", "listening", "closed"}]
    BY <2>1
  <2>3. reuse' \in [Ids -> BOOLEAN]
    BY <2>1
  <2> QED
    BY <1>1, <1>3, <1>4, <2>2, <2>3 DEF TypeOK
<1>6. Making(e) => c \notin Ahead(e)'
  BY <1>3 DEF Rank, Call
<1>7. ASSUME Making(e), c \in {"unlink", "bind", "listen", "connect"}
      PROVE  "socket" \notin Ahead(e)
  BY <1>3, <1>7 DEF Rank
<1>8. /\ PhaseInv(e)' /\ FileInv(e)'
      /\ Making(e)' => Making(e) /\ Ahead(e)' # {}
      /\ Whole(e)' => Making(e)
      /\ \A r \in Ids : Lives(r)' => Lives(r)
  <2> SUFFICES TypeOK /\ PhaseInv(e) /\ FileInv(e) /\ failed' = failed
    BY DoneKeeps
  <2> QED
    BY <1>1
<1>9. AloneInv'
  BY <1>1, <1>4, <1>8, AloneKept
<1>10. c = "listen" => sock[e] \in Fds /\ table[proc[e]][sock[e]] = e
  <2> SUFFICES ASSUME c = "listen"
               PROVE  sock[e] \in Fds /\ table[proc[e]][sock[e]] = e
    OBVIOUS
  <2>1. phase[e] = "constructing" /\ Making(e) /\ "socket" \notin Ahead(e)
    BY <1>2, <1>7 DEF Making
  <2>2. "close" \notin Ahead(e)
    BY <1>1, <1>2, <2>1, ConstructorCalls DEF PhaseInv
  <2>3. sock[e] # -1
    BY <1>1, <2>1, <2>2 DEF SockInv
  <2>4. failed[e] = "none"
    BY <1>1, <2>1 DEF PhaseInv
  <2>5. sock[e] \in Fds
    BY <1>1, <2>3 DEF TypeOK
  <2> QED
    BY <1>1, <1>2, <2>1, <2>3, <2>4, <2>5 DEF OwnInv, Whole
<1>11. TableInv'
  <2>1. ASSUME NEW p \in Procs, NEW fd \in Fds, NEW r \in Ids, table'[p][fd] = r
        PROVE  /\ proc'[r] = p /\ sock'[r] = fd
               /\ kind'[r] \in Servers => Whole(r)'
               /\ socket'[r] \in {"open", "listening"}
    <3>1. /\ proc[r] = p /\ sock[r] = fd
          /\ kind[r] \in Servers => Whole(r)
          /\ socket[r] \in {"open", "listening"}
      BY <1>1, <2>1 DEF TableInv
    <3>2. socket'[r] \in {"open", "listening"}
      BY <1>1, <3>1 DEF TypeOK
    <3>3. ASSUME r # e PROVE Whole(r)' <=> Whole(r)
      BY <1>3, <1>4, <3>3 DEF Whole
    <3>4. ASSUME r = e, kind[e] \in Servers, Whole(e) PROVE Whole(e)'
      <4>1. phase[e] # "destructing"
        BY <1>2, <3>4, DestructorCalls DEF Whole
      <4> QED
        BY <1>2, <1>3, <4>1 DEF Whole
    <3> QED
      BY <1>4, <3>1, <3>2, <3>3, <3>4
  <2>2. ASSUME NEW r \in Ids, socket'[r] \in {"open", "listening"}
        PROVE  sock'[r] \in Fds /\ table'[proc'[r]][sock'[r]] = r
    <3>1. CASE socket'[r] = socket[r]
      BY <1>1, <1>4, <2>2, <3>1 DEF TableInv
    <3>2. CASE c = "listen" /\ r = e
      BY <1>4, <1>10, <3>2
    <3>3. c # "listen" => socket'[r] = socket[r]
      OBVIOUS
    <3>4. r # e => socket'[r] = socket[r]
      BY <1>1 DEF TypeOK
    <3> QED
      BY <3>1, <3>2, <3>3, <3>4
  <2> QED
    BY <2>1, <2>2 DEF TableInv
<1>12. ASSUME NEW r \in Ids \ {e}
       PROVE  PhaseInv(r)' /\ SockInv(r)' /\ OwnInv(r)' /\ FileInv(r)'
  <2>1. socket'[r] = socket[r] /\ reuse'[r] = reuse[r]
    BY <1>1 DEF TypeOK
  <2> QED
    BY <1>1, <1>3, <1>4, <1>5, <2>1, Bystander
<1>13. SockInv(e)'
  <2>2. Making(e)' /\ "close" \notin Ahead(e)' => (sock'[e] = -1 <=> "socket" \in Ahead(e)')
    BY <1>1, <1>3, <1>8 DEF SockInv
  <2>3. phase'[e] = "live" /\ failed'[e] = "none" => sock'[e] # -1
    BY <1>1, <1>2, <1>3 DEF SockInv, Making
  <2>4. Making(e)' => socket'[e] # "listening"
    <3> SUFFICES ASSUME Making(e)' PROVE socket'[e] # "listening"
      OBVIOUS
    <3>1. c # "listen"
      <4> SUFFICES ASSUME c = "listen" PROVE FALSE
        OBVIOUS
      <4>1. phase[e] = "constructing" /\ Making(e)
        BY <1>2 DEF Making
      <4>2. Ahead(e)' \subseteq {"socket", "option", "unlink", "bind", "listen", "connect"}
        BY <1>1, <1>2, <1>3, <4>1, ConstructorCalls DEF PhaseInv
      <4>3. PICK d \in Ahead(e)' : TRUE
        BY <1>8
      <4>4. /\ Rank["listen"] = 4 /\ Rank["socket"] = 1 /\ Rank["option"] = 2
            /\ Rank["unlink"] = 2 /\ Rank["bind"] = 3 /\ Rank["connect"] = 4
        BY DEF Rank
      <4>5. Rank["listen"] < Rank[d]
        BY <1>3, <4>1, <4>3
      <4>6. d \in {"socket", "option", "unlink", "bind", "listen", "connect"}
        BY <4>2, <4>3
      <4> QED
        BY <4>4, <4>5, <4>6
    <3> QED
      BY <1>1, <1>8, <3>1 DEF SockInv
  <2>5. kind'[e] = "tcpServer" /\ Making(e)' => reuse'[e] \/ "option" \in Ahead(e)'
    <3>1. CASE c = "option"
      BY <1>1, <3>1 DEF TypeOK
    <3>2. CASE c # "option"
      BY <1>1, <1>3, <1>4, <1>8, <3>2 DEF SockInv
    <3> QED
      BY <3>1, <3>2
  <2>6. socket'[e] = "listening" => kind'[e] \in Servers
    BY <1>1, <1>2, <1>4 DEF SockInv
  <2> QED
    BY <2>2, <2>3, <2>4, <2>5, <2>6 DEF SockInv
<1>14. OwnInv(e)'
  BY <1>1, <1>4, <1>8 DEF OwnInv, Whole, Making
<1>15. BindFailsOnlyToARival'
  BY <1>1, <1>4 DEF BindFailsOnlyToARival
<1> QED
  BY <1>5, <1>9, <1>11, <1>12, <1>8, <1>13, <1>14, <1>15 DEF IInv

(***************************************************************************)
(* A call that fails, in a constructor or in handleError.                  *)
(***************************************************************************)
LEMMA FailStep ==
    ASSUME IInv, NEW e \in Ids, NEW h \in {"socket", "option", "bind", "listen", "connect"},
           Calls(e, h),
           NEW c \in {"socket", "option", "bind", "denied", "listen", "connect"},
           c = "connect" => h = "connect",
           c \in {"bind", "listen"} => ~alone[e],
           Fail(e, c)
    PROVE  /\ IInv'
           /\ spoiled' = spoiled
<1>1. TypeOK /\ TableInv /\ AloneInv /\ BindFailsOnlyToARival
      /\ \A r \in Ids : PhaseInv(r) /\ SockInv(r) /\ OwnInv(r) /\ FileInv(r)
  BY DEF IInv
<1>2. /\ Making(e)
      /\ kind[e] \in Kinds /\ kind[e] \in Servers \cup Clients
      /\ proc[e] \in Procs \ spoiled
      /\ h = "connect" => kind[e] \in {"tcpClient", "udpClient", "unixStreamClient"}
  BY <1>1, CallFacts DEF Making, Call
<1>3. failed[e] = "none" /\ phase[e] # "new"
  BY <1>1, <1>2 DEF PhaseInv, Making
<1> DEFINE closes == ClosesOnFailure(kind[e], c)
<1>4. /\ UNCHANGED <<kind, proc, name, target, alone, reuse, file>>
      /\ todo' = [todo EXCEPT ![e] = <<>>]
      /\ phase' = [phase EXCEPT ![e] = "live"]
      /\ failed' = [failed EXCEPT ![e] = c]
      /\ IF closes THEN Close(e, proc[e], sock[e])
                   ELSE UNCHANGED <<table, socket, spoiled, lingering>>
      /\ sock' = IF closes /\ Forgets(kind[e]) THEN [sock EXCEPT ![e] = -1] ELSE sock
  BY DEF Fail, shape
<1> HIDE DEF closes
<1>5. sock[e] # -1 => sock[e] \in Fds /\ table[proc[e]][sock[e]] = e
  BY <1>1, <1>2, <1>3 DEF OwnInv, Whole, Making, TypeOK
<1>6. /\ table' \in [Procs -> [Fds -> Ids \cup {Free, Other}]]
      /\ socket' \in [Ids -> {"none", "open", "listening", "closed"}]
      /\ lingering' \subseteq Names
      /\ spoiled' = spoiled
      /\ \A p \in Procs, fd \in Fds, r \in Ids :
            table'[p][fd] = r => table[p][fd] = r /\ (closes => r # e) /\ socket'[r] = socket[r]
      /\ \A r \in Ids : socket'[r] \in {socket[r], "closed"}
      /\ closes => socket'[e] \notin {"open", "listening"}
      /\ \A r \in Ids : socket'[r] \in {"open", "listening"} => table'[proc[r]][sock[r]] = r
      /\ \A r \in Ids \ {e} :
            proc[r] \in Procs /\ proc[r] \notin spoiled' /\ sock[r] \in Fds
               /\ table[proc[r]][sock[r]] = r
            => table'[proc[r]][sock[r]] = r
  <2>1. CASE closes
    <3>1. Close(e, proc[e], sock[e])
      BY <1>4, <2>1
    <3>2. proc[e] \in Procs \ spoiled /\ TypeOK /\ TableInv /\ \A r \in Ids : PhaseInv(r)
      BY <1>1, <1>2
    <3> QED
      BY <1>5, <3>1, <3>2, CloseFacts
  <2>2. CASE ~closes
    BY <1>1, <1>4, <2>2 DEF TypeOK, TableInv
  <2> QED
    BY <2>1, <2>2
<1>7. /\ \A r \in Ids \ {e} : /\ todo'[r] = todo[r] /\ phase'[r] = phase[r]
                             /\ failed'[r] = failed[r] /\ sock'[r] = sock[r]
      /\ todo'[e] = <<>> /\ phase'[e] = "live" /\ failed'[e] = c
      /\ sock'[e] = IF closes /\ Forgets(kind[e]) THEN -1 ELSE sock[e]
  BY <1>1, <1>4 DEF TypeOK
<1>8. TypeOK'
  <2>1. todo' \in [Ids -> Seq(Call)]
    BY <1>1, <1>4 DEF TypeOK
  <2>2. \A r \in Ids :
           todo'[r] # <<>> <=> phase'[r] \in {"constructing", "reconnecting", "destructing"}
    BY <1>1, <1>7 DEF TypeOK
  <2>3. sock' \in [Ids -> Fds \cup {-1}]
    BY <1>1, <1>4 DEF TypeOK
  <2>4. phase' \in [Ids -> {"new", "constructing", "live", "reconnecting", "destructing", "dead"}]
    BY <1>1, <1>4 DEF TypeOK
  <2>5. failed' \in [Ids -> {"none", "address", "socket", "option", "bind", "denied",
                          "listen", "connect"}]
    BY <1>1, <1>4 DEF TypeOK
  <2>6. spoiled' \subseteq Procs
    BY <1>1, <1>6 DEF TypeOK
  <2> QED
    BY <1>1, <1>4, <1>6, <2>1, <2>2, <2>3, <2>4, <2>5, <2>6 DEF TypeOK
<1>9. AloneInv'
  <2>1. UNCHANGED <<shape, alone>>
    BY <1>4 DEF shape
  <2>2. \A r \in Ids : Lives(r)' => Lives(r)
    BY <1>2, <1>7 DEF Lives, Making
  <2> QED
    BY <1>1, <2>1, <2>2, AloneKept
<1>10. TableInv'
  <2>1. ASSUME NEW p \in Procs, NEW fd \in Fds, NEW r \in Ids, table'[p][fd] = r
        PROVE  /\ proc'[r] = p /\ sock'[r] = fd
               /\ kind'[r] \in Servers => Whole(r)'
               /\ socket'[r] \in {"open", "listening"}
    <3>1. table[p][fd] = r /\ (closes => r # e) /\ socket'[r] = socket[r]
      BY <1>6, <2>1
    <3>2. /\ proc[r] = p /\ sock[r] = fd
          /\ kind[r] \in Servers => Whole(r)
          /\ socket[r] \in {"open", "listening"}
      BY <1>1, <3>1 DEF TableInv
    <3>3. sock'[r] = sock[r]
      BY <1>7, <3>1
    <3>4. Whole(r) => Whole(r)'
      BY <1>4, <1>7 DEF Whole
    <3> QED
      BY <1>4, <3>1, <3>2, <3>3, <3>4
  <2>2. ASSUME NEW r \in Ids, socket'[r] \in {"open", "listening"}
        PROVE  sock'[r] \in Fds /\ table'[proc'[r]][sock'[r]] = r
    <3>1. socket[r] \in {"open", "listening"} /\ ~(closes /\ r = e)
      BY <1>6, <2>2
    <3>2. sock'[r] = sock[r]
      BY <1>7, <3>1
    <3> QED
      BY <1>1, <1>4, <1>6, <2>2, <3>1, <3>2 DEF TableInv
  <2> QED
    BY <2>1, <2>2 DEF TableInv
<1>11. ASSUME NEW r \in Ids \ {e}
       PROVE  PhaseInv(r)' /\ SockInv(r)' /\ OwnInv(r)' /\ FileInv(r)'
  BY <1>1, <1>4, <1>6, <1>7, <1>8, Bystander
<1>12. PhaseInv(e)'
  BY <1>1, <1>2, <1>3, <1>4, <1>7 DEF PhaseInv, Making, Clients
<1>13. SockInv(e)'
  BY <1>1, <1>4, <1>6, <1>7 DEF SockInv, Making
<1>14. OwnInv(e)'
  <2>1. CASE closes
    <3>1. CASE c = "connect" /\ kind[e] = "udpClient"
      BY <1>7, <2>1, <3>1 DEF OwnInv, Forgets
    <3>2. CASE c = "connect" /\ kind[e] # "udpClient"
      BY <1>2, <1>4, <1>7, <3>2 DEF OwnInv
    <3>3. CASE c # "connect"
      BY <1>4, <1>7, <2>1, <3>3 DEF OwnInv, ClosesOnFailure, closes
    <3> QED
      BY <3>1, <3>2, <3>3
  <2>2. CASE ~closes
    BY <1>4, <1>5, <1>7, <2>2 DEF OwnInv
  <2> QED
    BY <2>1, <2>2
<1>15. FileInv(e)'
  BY <1>7 DEF FileInv
<1>16. BindFailsOnlyToARival'
  BY <1>1, <1>4, <1>7 DEF BindFailsOnlyToARival
<1> QED
  BY <1>6, <1>8, <1>9, <1>10, <1>11, <1>12, <1>13, <1>14, <1>15, <1>16 DEF IInv

\* socket(): the endpoint gets a number that was free.
LEMMA SocketKeeps ==
    ASSUME IInv, NEW e \in Ids, Socket(e)
    PROVE  IInv' /\ spoiled' = spoiled
<1>1. TypeOK /\ TableInv /\ AloneInv /\ BindFailsOnlyToARival
      /\ \A r \in Ids : PhaseInv(r) /\ SockInv(r) /\ OwnInv(r) /\ FileInv(r)
  BY DEF IInv
<1>2. Calls(e, "socket")
  BY DEF Socket
<1>3. CASE Fail(e, "socket")
  BY <1>2, <1>3, FailStep
<1>4. CASE ~Fail(e, "socket")
  <2> DEFINE fd == Lowest(proc[e])
  <2>1. /\ Done(e)
        /\ sock' = [sock EXCEPT ![e] = fd]
        /\ table' = [table EXCEPT ![proc[e]][fd] = e]
        /\ socket' = [socket EXCEPT ![e] = "open"]
        /\ UNCHANGED <<failed, reuse, file, lingering, spoiled>>
        /\ FreeFds(proc[e]) # {}
    BY <1>4 DEF Socket
  <2>2. /\ "socket" \in Ahead(e) /\ proc[e] \in Procs \ spoiled /\ Making(e)
        /\ kind[e] \in Servers \cup Clients
    BY <1>1, <1>2, CallFacts DEF Call
  <2>3. fd \in Fds /\ table[proc[e]][fd] = Free
    BY <2>1, <2>2, LowestIsFree
  <2> HIDE DEF fd
  <2>4. /\ todo' \in [Ids -> Seq(Call)]
        /\ phase' \in [Ids -> {"new", "constructing", "live", "reconnecting", "destructing", "dead"}]
        /\ \A r \in Ids :
              todo'[r] # <<>> <=> phase'[r] \in {"constructing", "reconnecting", "destructing"}
        /\ \A r \in Ids \ {e} : todo'[r] = todo[r] /\ phase'[r] = phase[r]
        /\ \/ phase'[e] = phase[e]
           \/ Making(e) /\ phase'[e] = "live"
        /\ Ahead(e) = Ahead(e)' \cup {"socket"}
        /\ \A d \in Ahead(e)' : Rank["socket"] < Rank[d]
    BY <1>1, <1>2, <2>1, <2>2, DoneFacts DEF Call, Making
  <2>5. /\ PhaseInv(e)' /\ FileInv(e)'
        /\ Making(e)' => Making(e) /\ Ahead(e)' # {}
        /\ \A r \in Ids : Lives(r)' => Lives(r)
    <3>1. "socket" \in Call /\ TypeOK /\ PhaseInv(e) /\ FileInv(e)
      BY <1>1 DEF Call
    <3> QED
      BY <1>2, <2>1, <3>1, DoneKeeps
  <2>6. UNCHANGED <<shape, alone>> /\ UNCHANGED <<kind, proc, name, target>>
    BY <2>1 DEF Done, shape
  <2>7. "socket" \notin Ahead(e)' /\ "close" \notin Ahead(e)
    BY <2>4 DEF Rank
  <2>8. sock[e] = -1 /\ -1 \notin Fds
    BY <1>1, <2>2, <2>7, EndpointAssumption DEF SockInv
  <2>9. \A p \in Procs, g \in Fds : table[p][g] # e
    BY <1>1, <2>8 DEF TableInv
  <2>10. /\ \A r \in Ids \ {e} : sock'[r] = sock[r] /\ socket'[r] = socket[r]
         /\ sock'[e] = fd /\ socket'[e] = "open"
         /\ \A p \in Procs, g \in Fds :
               table'[p][g] = IF p = proc[e] /\ g = fd THEN e ELSE table[p][g]
    BY <1>1, <2>1, <2>2, <2>3 DEF TypeOK
  <2>11. TypeOK'
    <3>1. table' \in [Procs -> [Fds -> Ids \cup {Free, Other}]]
      BY <1>1, <2>1, <2>2, <2>3 DEF TypeOK
    <3>2. sock' \in [Ids -> Fds \cup {-1}]
      BY <1>1, <2>1, <2>3 DEF TypeOK
    <3>3. socket' \in [Ids -> {"none", "open", "listening", "closed"}]
      BY <1>1, <2>1 DEF TypeOK
    <3> QED
      BY <1>1, <2>1, <2>4, <2>6, <3>1, <3>2, <3>3 DEF TypeOK
  <2>12. AloneInv'
    BY <1>1, <2>5, <2>6, AloneKept
  <2>13. TableInv'
    <3>1. ASSUME NEW p \in Procs, NEW g \in Fds, NEW r \in Ids, table'[p][g] = r
          PROVE  /\ proc'[r] = p /\ sock'[r] = g
                 /\ kind'[r] \in Servers => Whole(r)'
                 /\ socket'[r] \in {"open", "listening"}
      <4>1. CASE r = e
        <5>1. p = proc[e] /\ g = fd
          BY <2>9, <2>10, <3>1, <4>1
        <5>2. Whole(e)'
          BY <2>2, <2>4 DEF Whole, Making
        <5> QED
          BY <2>6, <2>10, <4>1, <5>1, <5>2
      <4>2. CASE r # e
        <5>1. table[p][g] = r
          BY <2>10, <3>1, <4>2
        <5>2. /\ proc[r] = p /\ sock[r] = g
              /\ kind[r] \in Servers => Whole(r)
              /\ socket[r] \in {"open", "listening"}
          BY <1>1, <5>1 DEF TableInv
        <5>3. Whole(r) => Whole(r)'
          BY <2>4, <2>6, <4>2 DEF Whole
        <5> QED
          BY <2>6, <2>10, <4>2, <5>2, <5>3
      <4> QED
        BY <4>1, <4>2
    <3>2. ASSUME NEW r \in Ids, socket'[r] \in {"open", "listening"}
          PROVE  sock'[r] \in Fds /\ table'[proc'[r]][sock'[r]] = r
      <4>1. CASE r = e
        BY <2>2, <2>3, <2>6, <2>10, <4>1
      <4>2. CASE r # e
        <5>1. sock[r] \in Fds /\ table[proc[r]][sock[r]] = r
          BY <1>1, <2>10, <3>2, <4>2 DEF TableInv
        <5>2. proc[r] \in Procs
          BY <1>1, <2>8, <5>1 DEF PhaseInv
        <5>3. ~(proc[r] = proc[e] /\ sock[r] = fd)
          BY <2>3, <5>1, EndpointAssumption
        <5> QED
          BY <2>6, <2>10, <4>2, <5>1, <5>2, <5>3
      <4> QED
        BY <4>1, <4>2
    <3> QED
      BY <3>1, <3>2 DEF TableInv
  <2>14. ASSUME NEW r \in Ids \ {e}
         PROVE  PhaseInv(r)' /\ SockInv(r)' /\ OwnInv(r)' /\ FileInv(r)'
    <3>1. proc[r] \in Procs /\ sock[r] \in Fds /\ table[proc[r]][sock[r]] = r
          => table'[proc[r]][sock[r]] = r
      BY <2>3, <2>10, EndpointAssumption
    <3> QED
      BY <1>1, <2>1, <2>4, <2>6, <2>10, <2>11, <3>1, Bystander
  <2>15. SockInv(e)'
    <3>1. sock'[e] # -1 /\ "socket" \notin Ahead(e)'
      BY <2>3, <2>7, <2>8, <2>10
    <3>2. kind'[e] = "tcpServer" /\ Making(e)' => reuse'[e] \/ "option" \in Ahead(e)'
      BY <1>1, <2>1, <2>4, <2>5, <2>6 DEF SockInv
    <3> QED
      BY <2>10, <3>1, <3>2 DEF SockInv
  <2>16. OwnInv(e)'
    BY <2>2, <2>3, <2>6, <2>10 DEF OwnInv
  <2>17. BindFailsOnlyToARival'
    BY <1>1, <2>1, <2>6 DEF BindFailsOnlyToARival
  <2> QED
    BY <2>1, <2>5, <2>11, <2>12, <2>13, <2>14, <2>15, <2>16, <2>17 DEF IInv
<1> QED
  BY <1>3, <1>4

\* close(): the number is free, and the endpoint has no socket any more.
LEMMA CloseSocketKeeps ==
    ASSUME IInv, NEW e \in Ids, CloseSocket(e)
    PROVE  IInv'
<1>1. TypeOK /\ TableInv /\ AloneInv /\ BindFailsOnlyToARival
      /\ \A r \in Ids : PhaseInv(r) /\ SockInv(r) /\ OwnInv(r) /\ FileInv(r)
  BY DEF IInv
<1>2. /\ Calls(e, "close")
      /\ Done(e)
      /\ Close(e, proc[e], sock[e])
      /\ sock' = IF Forgets(kind[e]) THEN [sock EXCEPT ![e] = -1] ELSE sock
      /\ UNCHANGED <<failed, reuse, file>>
  BY DEF CloseSocket
<1>3. /\ proc[e] \in Procs \ spoiled
      /\ "close" \in Ahead(e)
      /\ phase[e] \in {"reconnecting", "destructing"}
  BY <1>1, <1>2, CallFacts DEF Call
<1>4. /\ table' \in [Procs -> [Fds -> Ids \cup {Free, Other}]]
      /\ socket' \in [Ids -> {"none", "open", "listening", "closed"}]
      /\ lingering' \subseteq Names
      /\ spoiled \subseteq spoiled' /\ spoiled' \subseteq Procs
      /\ \A p \in Procs, fd \in Fds, r \in Ids :
            table'[p][fd] = r => table[p][fd] = r /\ r # e /\ socket'[r] = socket[r]
      /\ \A r \in Ids : socket'[r] \in {socket[r], "closed"}
      /\ socket'[e] \notin {"open", "listening"}
      /\ \A r \in Ids : socket'[r] \in {"open", "listening"} => table'[proc[r]][sock[r]] = r
      /\ \A r \in Ids \ {e} :
            proc[r] \in Procs /\ proc[r] \notin spoiled' /\ sock[r] \in Fds
               /\ table[proc[r]][sock[r]] = r
            => table'[proc[r]][sock[r]] = r
  <2> HIDE DEF Close
  <2>1. TypeOK /\ TableInv /\ (\A r \in Ids : PhaseInv(r)) /\ proc[e] \in Procs \ spoiled
        /\ Close(e, proc[e], sock[e])
    BY <1>1, <1>2, <1>3
  <2> QED
    BY <2>1, CloseFacts
<1>5. /\ todo' \in [Ids -> Seq(Call)]
      /\ phase' \in [Ids -> {"new", "constructing", "live", "reconnecting", "destructing", "dead"}]
      /\ \A r \in Ids :
            todo'[r] # <<>> <=> phase'[r] \in {"constructing", "reconnecting", "destructing"}
      /\ \A r \in Ids \ {e} : todo'[r] = todo[r] /\ phase'[r] = phase[r]
      /\ \/ phase'[e] = phase[e]
         \/ phase[e] = "destructing" /\ phase'[e] = "dead"
         \/ Making(e) /\ phase'[e] = "live" /\ Ahead(e)' = {}
      /\ Ahead(e) = Ahead(e)' \cup {"close"}
      /\ Making(e) => \A d \in Ahead(e)' : Rank["close"] < Rank[d]
  BY <1>1, <1>2, DoneFacts DEF Call
<1>6. /\ PhaseInv(e)' /\ FileInv(e)'
      /\ Making(e)' => Making(e) /\ Ahead(e)' # {}
      /\ Whole(e)' => Making(e)
      /\ \A r \in Ids : Lives(r)' => Lives(r)
  <2>1. "close" \in Call /\ TypeOK /\ PhaseInv(e) /\ FileInv(e) /\ failed' = failed
        /\ file' = file
    BY <1>1, <1>2 DEF Call
  <2> QED
    BY <1>2, <2>1, DoneKeeps
<1>7. UNCHANGED <<shape, alone>> /\ UNCHANGED <<kind, proc, name, target>>
  BY <1>2 DEF Done, shape
<1>8. /\ \A r \in Ids \ {e} : sock'[r] = sock[r]
      /\ sock'[e] = IF Forgets(kind[e]) THEN -1 ELSE sock[e]
  BY <1>1, <1>2 DEF TypeOK
<1>9. TypeOK'
  <2>1. sock' \in [Ids -> Fds \cup {-1}]
    BY <1>1, <1>2 DEF TypeOK
  <2> QED
    BY <1>1, <1>2, <1>4, <1>5, <1>7, <2>1 DEF TypeOK
<1>10. AloneInv'
  BY <1>1, <1>6, <1>7, AloneKept
<1>11. TableInv'
  <2>1. ASSUME NEW p \in Procs, NEW fd \in Fds, NEW r \in Ids, table'[p][fd] = r
        PROVE  /\ proc'[r] = p /\ sock'[r] = fd
               /\ kind'[r] \in Servers => Whole(r)'
               /\ socket'[r] \in {"open", "listening"}
    <3>1. table[p][fd] = r /\ r # e /\ socket'[r] = socket[r]
      BY <1>4, <2>1
    <3>2. /\ proc[r] = p /\ sock[r] = fd
          /\ kind[r] \in Servers => Whole(r)
          /\ socket[r] \in {"open", "listening"}
      BY <1>1, <3>1 DEF TableInv
    <3>3. Whole(r) => Whole(r)'
      BY <1>5, <1>7, <3>1 DEF Whole
    <3> QED
      BY <1>7, <1>8, <3>1, <3>2, <3>3
  <2>2. ASSUME NEW r \in Ids, socket'[r] \in {"open", "listening"}
        PROVE  sock'[r] \in Fds /\ table'[proc'[r]][sock'[r]] = r
    <3>1. socket[r] \in {"open", "listening"} /\ r # e
      BY <1>4, <2>2
    <3> QED
      BY <1>1, <1>4, <1>7, <1>8, <2>2, <3>1 DEF TableInv
  <2> QED
    BY <2>1, <2>2 DEF TableInv
<1>12. ASSUME NEW r \in Ids \ {e}
       PROVE  PhaseInv(r)' /\ SockInv(r)' /\ OwnInv(r)' /\ FileInv(r)'
  <2>1. spoiled \cap {proc[r]} \subseteq spoiled'
    BY <1>4
  <2> QED
    BY <1>1, <1>2, <1>4, <1>5, <1>7, <1>8, <1>9, <2>1, Bystander
<1>13. ASSUME phase[e] = "reconnecting"
       PROVE  SockInv(e)' /\ OwnInv(e)'
  <2>1. /\ kind[e] = "udpClient" /\ "socket" \in Ahead(e)
        /\ Making(e)
    BY <1>1, <1>3, <1>13 DEF PhaseInv, Making
  <2>2. sock'[e] = -1 /\ "socket" \in Ahead(e)' /\ phase'[e] = "reconnecting"
    BY <1>5, <1>8, <1>13, <2>1 DEF Forgets
  <2>3. SockInv(e)'
    BY <1>4, <1>7, <2>1, <2>2 DEF SockInv
  <2>4. OwnInv(e)'
    BY <2>2 DEF OwnInv
  <2> QED
    BY <2>3, <2>4
<1>14. ASSUME phase[e] = "destructing"
       PROVE  SockInv(e)' /\ OwnInv(e)'
  <2>1. ~Making(e)
    BY <1>14 DEF Making
  <2>2. phase'[e] # "live"
    BY <1>5, <1>14, <2>1
  <2>3. SockInv(e)'
    BY <1>4, <1>6, <2>1, <2>2 DEF SockInv
  <2>4. OwnInv(e)'
    BY <1>6, <2>1 DEF OwnInv
  <2> QED
    BY <2>3, <2>4
<1>15. BindFailsOnlyToARival'
  BY <1>1, <1>2, <1>7 DEF BindFailsOnlyToARival
<1> QED
  BY <1>3, <1>6, <1>9, <1>10, <1>11, <1>12, <1>13, <1>14, <1>15 DEF IInv

\* Endpoints of the Unix family that live at one path are not alone at it.
LEMMA OneAtAPath ==
    ASSUME AloneInv, NEW e \in Ids, NEW r \in Ids \ {e},
           Unix(e), Lives(e), PhaseInv(e), Unix(r), alone[r], Lives(r)
    PROVE  name[r] # name[e]
<1>1. name[e] # NoName
  <2>1. kind[e] \notin {"tcpClient", "udpClient"} /\ phase[e] # "new"
    BY DEF Unix, UnixKinds, Lives
  <2> QED
    BY <2>1 DEF PhaseInv
<1>2. name[r] = name[e] => e \in Rivals(kind[r], name[r])
  BY <1>1 DEF Rivals, Unix
<1> QED
  BY <1>2 DEF AloneInv

\* A socket that listens at a port is one of a server that lives.
LEMMA ListenerLives ==
    ASSUME TypeOK, TableInv, NEW r \in Ids, PhaseInv(r), kind[r] \in Servers,
           socket[r] = "listening"
    PROVE  Lives(r)
<1>1. sock[r] \in Fds /\ table[proc[r]][sock[r]] = r
  BY DEF TableInv
<1>2. sock[r] # -1
  BY <1>1, EndpointAssumption
<1>3. proc[r] \in Procs
  BY <1>2 DEF PhaseInv
<1> QED
  BY <1>1, <1>3 DEF TableInv, Whole, Lives

\* While an endpoint that is alone is made, nobody listens at its port.
LEMMA NobodyListens ==
    ASSUME IInv, NEW e \in Ids, Making(e), alone[e], kind[e] = "tcpServer"
    PROVE  ~Listening("tcpServer", name[e])
<1> SUFFICES ASSUME NEW r \in Ids, kind[r] = "tcpServer", name[r] = name[e],
                    socket[r] = "listening"
             PROVE  FALSE
  BY DEF Listening
<1>1. Lives(r)
  BY ListenerLives DEF IInv, Servers
<1>2. name[e] # NoName /\ Lives(e)
  BY DEF IInv, PhaseInv, Making, Lives
<1>3. r = e
  BY <1>1, <1>2 DEF IInv, AloneInv, Rivals
<1> QED
  BY <1>3 DEF IInv, SockInv

\* setsockopt(): SO_REUSEADDR is set.
LEMMA SetOptionKeeps ==
    ASSUME IInv, NEW e \in Ids, SetOption(e)
    PROVE  IInv' /\ spoiled' = spoiled
<1>1. CASE Fail(e, "option")
  BY <1>1, FailStep DEF SetOption
<1>2. CASE ~Fail(e, "option")
  <2>1. /\ Calls(e, "option") /\ Done(e) /\ reuse' = [reuse EXCEPT ![e] = TRUE]
        /\ UNCHANGED <<failed, sock, socket, table, file, lingering, spoiled>>
    BY <1>2 DEF SetOption
  <2>2. "option" \in Call /\ file \in [Names -> Ids \cup {NoId}]
    BY DEF Call, IInv, TypeOK
  <2> HIDE DEF Calls, Done, IInv
  <2> QED
    BY <2>1, <2>2, DoneStep
<1> QED
  BY <1>1, <1>2

\* unlink(): the path of this endpoint leads nowhere.
LEMMA UnlinkKeeps ==
    ASSUME IInv, NEW e \in Ids, Unlink(e)
    PROVE  IInv' /\ spoiled' = spoiled
<1>1. /\ Calls(e, "unlink") /\ Done(e)
      /\ file' = [file EXCEPT ![name[e]] = NoId]
      /\ UNCHANGED <<failed, sock, socket, reuse, table, lingering, spoiled>>
  BY DEF Unlink
<1>2. "unlink" \in Call /\ TypeOK /\ AloneInv /\ \A r \in Ids : PhaseInv(r)
  BY DEF Call, IInv
<1>3. Unix(e) /\ phase[e] \in {"constructing", "destructing"}
  BY <1>1, <1>2, CallFacts
<1>4. Lives(e) /\ name[e] \in Names
  BY <1>2, <1>3 DEF Lives, PhaseInv, Unix, UnixKinds, TypeOK
<1>5. file' \in [Names -> Ids \cup {NoId}] /\ file'[name[e]] = NoId
  BY <1>1, <1>2, <1>4 DEF TypeOK
<1>6. \A r \in Ids \ {e} :
         Unix(r) /\ alone[r] /\ Lives(r) => file'[name[r]] = file[name[r]]
  BY <1>1, <1>2, <1>3, <1>4, OneAtAPath DEF TypeOK
<1> QED
  BY <1>1, <1>2, <1>5, <1>6, DoneStep

\* bind(): an endpoint that is alone finds its path or port free.
LEMMA BindKeeps ==
    ASSUME IInv, NEW e \in Ids, Bind(e)
    PROVE  IInv' /\ spoiled' = spoiled
<1>1. "bind" \in Call /\ TypeOK /\ AloneInv
      /\ \A r \in Ids : PhaseInv(r) /\ SockInv(r) /\ FileInv(r)
  BY DEF Call, IInv
<1>2. Calls(e, "bind")
  BY DEF Bind
<1>3. phase[e] = "constructing" /\ "bind" \in Ahead(e) /\ Making(e) /\ Lives(e)
  BY <1>1, <1>2, CallFacts DEF Making, Lives
<1>4. CASE Fail(e, "denied")
  BY <1>2, <1>4, FailStep
<1>5. CASE ~Bindable(e) /\ Fail(e, "bind")
  <2>1. \A d \in Ahead(e) : Rank["bind"] <= Rank[d]
    <3>1. /\ todo[e] \in Seq(Call) /\ todo[e] # <<>> /\ Head(todo[e]) = "bind"
          /\ InOrder(todo[e])
      BY <1>1, <1>2, <1>3, CallFacts DEF PhaseInv
    <3>2. \A d \in Range(Tail(todo[e])) : Rank["bind"] < Rank[d]
      BY <3>1, ShiftInOrder
    <3>3. Ahead(e) = Range(Tail(todo[e])) \cup {"bind"} /\ Tail(todo[e]) \in Seq(Call)
      BY <3>1, Shift DEF Ahead
    <3>4. Ahead(e) \subseteq Call
      <4>1. DOMAIN todo[e] = 1 .. Len(todo[e]) /\ \A i \in 1 .. Len(todo[e]) : todo[e][i] \in Call
        BY <3>1, ElementOfSeq
      <4> QED
        BY <4>1 DEF Ahead, Range
    <3> QED
      BY <3>2, <3>3, <3>4 DEF Rank, Call
  <2>2. "unlink" \notin Ahead(e) /\ "option" \notin Ahead(e)
    BY <2>1 DEF Rank
  <2>3. alone[e] => Bindable(e)
    <3> SUFFICES ASSUME alone[e] PROVE Bindable(e)
      OBVIOUS
    <3>1. Unix(e) => file[name[e]] = NoId
      BY <1>1, <1>3, <2>2 DEF FileInv
    <3>2. kind[e] = "tcpServer" => ~Listening("tcpServer", name[e]) /\ reuse[e]
      BY <1>1, <1>3, <2>2, NobodyListens DEF SockInv
    <3> QED
      BY <3>1, <3>2 DEF Bindable
  <2> QED
    BY <1>2, <1>5, <2>3, FailStep
<1>6. CASE ~Fail(e, "denied") /\ ~(~Bindable(e) /\ Fail(e, "bind"))
  <2>1. /\ Done(e)
        /\ file' = IF Unix(e) THEN [file EXCEPT ![name[e]] = e] ELSE file
        /\ UNCHANGED <<failed, sock, socket, reuse, table, lingering, spoiled>>
    BY <1>6 DEF Bind
  <2>2. Unix(e) => name[e] \in Names
    BY <1>1, <1>3 DEF PhaseInv, Unix, UnixKinds, TypeOK
  <2>3. file' \in [Names -> Ids \cup {NoId}] /\ (Unix(e) => file'[name[e]] = e)
    BY <1>1, <2>1, <2>2 DEF TypeOK
  <2>4. \A r \in Ids \ {e} :
           Unix(r) /\ alone[r] /\ Lives(r) => file'[name[r]] = file[name[r]]
    BY <1>1, <1>3, <2>1, <2>2, OneAtAPath DEF TypeOK
  <2> QED
    BY <1>1, <1>2, <2>1, <2>3, <2>4, DoneStep
<1> QED
  BY <1>4, <1>5, <1>6

\* listen(): an endpoint that is alone may listen.
LEMMA ListenKeeps ==
    ASSUME IInv, NEW e \in Ids, Listen(e)
    PROVE  IInv' /\ spoiled' = spoiled
<1>1. "listen" \in Call /\ TypeOK /\ \A r \in Ids : PhaseInv(r)
  BY DEF Call, IInv
<1>2. Calls(e, "listen")
  BY DEF Listen
<1>3. Making(e)
  BY <1>1, <1>2, CallFacts DEF Making
<1>4. CASE ~Listenable(e) /\ Fail(e, "listen")
  <2>1. ~alone[e]
    BY <1>3, <1>4, NobodyListens DEF Listenable
  <2> QED
    BY <1>2, <1>4, <2>1, FailStep
<1>5. CASE Fail(e, "denied")
  BY <1>2, <1>5, FailStep
<1>6. CASE ~Fail(e, "denied") /\ ~(~Listenable(e) /\ Fail(e, "listen"))
  <2>1. /\ Done(e) /\ socket' = [socket EXCEPT ![e] = "listening"]
        /\ UNCHANGED <<failed, sock, reuse, table, file, lingering, spoiled>>
    BY <1>6 DEF Listen
  <2>2. file \in [Names -> Ids \cup {NoId}]
    BY <1>1 DEF TypeOK
  <2> QED
    BY <1>1, <1>2, <2>1, <2>2, DoneStep
<1> QED
  BY <1>4, <1>5, <1>6

LEMMA ConnectKeeps ==
    ASSUME IInv, NEW e \in Ids, Connect(e)
    PROVE  IInv' /\ spoiled' = spoiled
<1>1. CASE Fail(e, "connect")
  BY <1>1, FailStep DEF Connect
<1>2. CASE ~Fail(e, "connect")
  <2>1. /\ Calls(e, "connect") /\ Done(e)
        /\ UNCHANGED <<failed, sock, socket, reuse, table, file, lingering, spoiled>>
    BY <1>2 DEF Connect, kernel
  <2>2. "connect" \in Call /\ file \in [Names -> Ids \cup {NoId}]
    BY DEF Call, IInv, TypeOK
  <2> QED
    BY <2>1, <2>2, DoneStep
<1> QED
  BY <1>1, <1>2

\* The server-side clients are dropped: no socket file goes with them.
LEMMA DropPeersKeeps ==
    ASSUME IInv, NEW e \in Ids, DropPeers(e)
    PROVE  IInv' /\ spoiled' = spoiled
<1>1. /\ Calls(e, "peers") /\ Done(e)
      /\ UNCHANGED <<failed, sock, socket, reuse, table, lingering, spoiled>>
      /\ file' = [n \in Names |-> file[n]]
  BY DEF DropPeers, OwnsSocketFile
<1>2. "peers" \in Call /\ TypeOK /\ file \in [Names -> Ids \cup {NoId}]
      /\ \A r \in Ids : PhaseInv(r)
  BY DEF Call, IInv, TypeOK
<1>3. file' = file
  BY <1>1, <1>2
<1> QED
  BY <1>1, <1>2, <1>3, DoneStep

-----------------------------------------------------------------------------
(* The other steps.                                                        *)

\* Create: the endpoint has no socket yet, and its rivals are alone no more.
LEMMA CreateKeeps ==
    ASSUME IInv, NEW e \in Ids, Create(e)
    PROVE  IInv' /\ spoiled' = spoiled
<1>1. TypeOK /\ TableInv /\ AloneInv /\ BindFailsOnlyToARival
      /\ \A r \in Ids : PhaseInv(r) /\ SockInv(r) /\ OwnInv(r) /\ FileInv(r)
  BY DEF IInv
<1>2. phase[e] = "new"
  BY DEF Create
<1>3. PICK p \in Procs \ spoiled, k \in Kinds, n \in Names \cup {NoName}, t \in Names \cup {NoName} :
         /\ n = NoName <=> k \in {"tcpClient", "udpClient"}
         /\ t = NoName <=> k \in Servers \cup {"udpClient"}
         /\ kind' = [kind EXCEPT ![e] = k]
         /\ proc' = [proc EXCEPT ![e] = p]
         /\ name' = [name EXCEPT ![e] = n]
         /\ target' = [target EXCEPT ![e] = t]
         /\ \/ /\ phase' = [phase EXCEPT ![e] = "constructing"]
               /\ todo' = [todo EXCEPT ![e] = Constructor(k)]
               /\ UNCHANGED failed
            \/ /\ k \in {"tcpClient", "udpClient"}
               /\ phase' = [phase EXCEPT ![e] = "live"]
               /\ failed' = [failed EXCEPT ![e] = "address"]
               /\ UNCHANGED todo
         /\ alone' = [r \in Ids |-> IF r = e THEN Rivals(k, n) = {}
                                    ELSE alone[r] /\ r \notin Rivals(k, n)]
  BY Zenon DEF Create
<1>4. UNCHANGED <<sock, socket, reuse, table, file, lingering, spoiled>>
  BY DEF Create, kernel
<1>5. /\ sock[e] = -1 /\ failed[e] = "none" /\ todo[e] = <<>>
      /\ socket[e] \notin {"open", "listening"}
      /\ \A q \in Procs, fd \in Fds : table[q][fd] # e
  <2>1. sock[e] = -1 /\ failed[e] = "none" /\ -1 \notin Fds
    BY <1>1, <1>2, EndpointAssumption DEF PhaseInv
  <2>2. todo[e] = <<>>
    BY <1>1, <1>2 DEF TypeOK
  <2>3. socket[e] \notin {"open", "listening"} /\ \A q \in Procs, fd \in Fds : table[q][fd] # e
    BY <1>1, <2>1 DEF TableInv
  <2> QED
    BY <2>1, <2>2, <2>3
<1>6. /\ k \in Servers \cup Clients /\ Constructor(k) \in Seq(Call) /\ Constructor(k) # <<>>
      /\ InOrder(Constructor(k))
      /\ "socket" \in Range(Constructor(k)) /\ "close" \notin Range(Constructor(k))
      /\ "unlink" \in Range(Constructor(k)) => "bind" \in Range(Constructor(k))
      /\ k \in UnixKinds => {"unlink", "bind"} \subseteq Range(Constructor(k))
      /\ k = "tcpServer" => "option" \in Range(Constructor(k))
  BY EndpointAssumption, ConstructorCalls
<1>7. /\ \A r \in Ids \ {e} :
            /\ kind'[r] = kind[r] /\ proc'[r] = proc[r] /\ name'[r] = name[r]
            /\ todo'[r] = todo[r] /\ phase'[r] = phase[r] /\ failed'[r] = failed[r]
            /\ alone'[r] = (alone[r] /\ r \notin Rivals(k, n))
      /\ kind'[e] = k /\ proc'[e] = p /\ name'[e] = n /\ alone'[e] = (Rivals(k, n) = {})
      /\ \/ phase'[e] = "constructing" /\ todo'[e] = Constructor(k) /\ failed'[e] = "none"
         \/ /\ k \in {"tcpClient", "udpClient"} /\ phase'[e] = "live"
            /\ todo'[e] = <<>> /\ failed'[e] = "address"
  BY <1>1, <1>3, <1>5 DEF TypeOK
<1>8. TypeOK'
  <2>1. kind' \in [Ids -> Kinds \cup {"none"}] /\ proc' \in [Ids -> Procs \cup {NoProc}]
        /\ name' \in [Ids -> Names \cup {NoName}] /\ target' \in [Ids -> Names \cup {NoName}]
    BY <1>1, <1>3 DEF TypeOK
  <2>2. phase' \in [Ids -> {"new", "constructing", "live", "reconnecting", "destructing", "dead"}]
    BY <1>1, <1>3 DEF TypeOK
  <2>3. todo' \in [Ids -> Seq(Call)]
    BY <1>1, <1>3, <1>6 DEF TypeOK
  <2>4. \A r \in Ids :
           todo'[r] # <<>> <=> phase'[r] \in {"constructing", "reconnecting", "destructing"}
    BY <1>1, <1>6, <1>7 DEF TypeOK
  <2>5. failed' \in [Ids -> {"none", "address", "socket", "option", "bind", "denied",
                          "listen", "connect"}]
    BY <1>1, <1>3 DEF TypeOK
  <2>6. alone' \in [Ids -> BOOLEAN]
    BY <1>1, <1>3 DEF TypeOK
  <2> QED
    BY <1>1, <1>4, <2>1, <2>2, <2>3, <2>4, <2>5, <2>6 DEF TypeOK
<1>9. TableInv'
  <2>1. ASSUME NEW q \in Procs, NEW fd \in Fds, NEW r \in Ids, table'[q][fd] = r
        PROVE  /\ proc'[r] = q /\ sock'[r] = fd
               /\ kind'[r] \in Servers => Whole(r)'
               /\ socket'[r] \in {"open", "listening"}
    <3>1. table[q][fd] = r /\ r # e
      BY <1>4, <1>5, <2>1
    <3>2. /\ proc[r] = q /\ sock[r] = fd
          /\ kind[r] \in Servers => Whole(r)
          /\ socket[r] \in {"open", "listening"}
      BY <1>1, <3>1 DEF TableInv
    <3>3. Whole(r) => Whole(r)'
      BY <1>7, <3>1 DEF Whole
    <3> QED
      BY <1>4, <1>7, <3>1, <3>2, <3>3
  <2>2. ASSUME NEW r \in Ids, socket'[r] \in {"open", "listening"}
        PROVE  sock'[r] \in Fds /\ table'[proc'[r]][sock'[r]] = r
    <3>1. socket[r] \in {"open", "listening"} /\ r # e
      BY <1>4, <1>5, <2>2
    <3>2. sock[r] \in Fds /\ table[proc[r]][sock[r]] = r
      BY <1>1, <3>1 DEF TableInv
    <3> QED
      BY <1>4, <1>7, <3>1, <3>2
  <2> QED
    BY <2>1, <2>2 DEF TableInv
<1>10. AloneInv'
  <2> SUFFICES ASSUME NEW q \in Ids, NEW r \in Ids, alone'[q], Lives(q)', Lives(r)',
                      name'[q] # NoName, name'[r] = name'[q],
                      kind'[r] = kind'[q] \/ {kind'[r], kind'[q]} \subseteq UnixKinds,
                      r # q
               PROVE  FALSE
    BY DEF AloneInv, Rivals
  <2>1. CASE q = e
    <3>1. Lives(r) /\ name[r] = n /\ n # NoName
      BY <1>7, <2>1 DEF Lives
    <3>2. kind[r] = k \/ {kind[r], k} \subseteq UnixKinds
      BY <1>7, <2>1
    <3>3. r \in Rivals(k, n)
      BY <3>1, <3>2 DEF Rivals
    <3> QED
      BY <1>7, <2>1, <3>3
  <2>2. CASE r = e
    <3>1. Lives(q) /\ name[q] = n /\ n # NoName
      BY <1>7, <2>2 DEF Lives
    <3>2. kind[q] = k \/ {kind[q], k} \subseteq UnixKinds
      BY <1>7, <2>2
    <3>3. q \in Rivals(k, n)
      BY <3>1, <3>2 DEF Rivals
    <3> QED
      BY <1>7, <2>2, <3>3
  <2>3. CASE q # e /\ r # e
    <3>1. Lives(q) /\ Lives(r) /\ alone[q]
      BY <1>7, <2>3 DEF Lives
    <3>2. kind[r] = kind[q] \/ {kind[r], kind[q]} \subseteq UnixKinds
      BY <1>7, <2>3
    <3>3. name[q] # NoName /\ name[r] = name[q]
      BY <1>7, <2>3
    <3>4. r \in Rivals(kind[q], name[q])
      BY <3>1, <3>2, <3>3 DEF Rivals
    <3> QED
      BY <1>1, <2>3, <3>1, <3>4 DEF AloneInv
  <2> QED
    BY <2>1, <2>2, <2>3
<1>11. ASSUME NEW r \in Ids \ {e}
       PROVE  PhaseInv(r)' /\ SockInv(r)' /\ OwnInv(r)' /\ FileInv(r)'
  BY <1>1, <1>4, <1>7, <1>8, Bystander
<1>12. PhaseInv(e)'
  <2>1. Ahead(e)' = Range(todo'[e])
    BY DEF Ahead
  <2> QED
    BY <1>3, <1>6, <1>7, <2>1 DEF PhaseInv, Making
<1>13. SockInv(e)'
  BY <1>4, <1>5, <1>6, <1>7 DEF SockInv, Making, Ahead
<1>14. OwnInv(e)'
  BY <1>4, <1>5 DEF OwnInv
<1>15. FileInv(e)'
  BY <1>6, <1>7 DEF FileInv, Unix, Ahead
<1>16. BindFailsOnlyToARival'
  BY <1>1, <1>7 DEF BindFailsOnlyToARival
<1> QED
  BY <1>4, <1>8, <1>9, <1>10, <1>11, <1>12, <1>13, <1>14, <1>15, <1>16 DEF IInv

(***************************************************************************)
(* An endpoint that is complete starts to do something else; nothing in    *)
(* the kernel changes.                                                     *)
(***************************************************************************)
LEMMA LeaveLive ==
    ASSUME IInv, NEW e \in Ids, phase[e] = "live",
           UNCHANGED <<shape, failed, sock, kernel, alone, spoiled>>,
           NEW ph \in {"reconnecting", "destructing", "dead"}, NEW s \in Seq(Call),
           phase' = [phase EXCEPT ![e] = ph], todo' = [todo EXCEPT ![e] = s],
           s = <<>> <=> ph = "dead",
           ph = "reconnecting" =>
              /\ kind[e] = "udpClient" /\ failed[e] = "none"
              /\ Range(s) = {"close", "socket", "connect"} /\ InOrder(s),
           ph = "destructing" => s = Destructor(kind[e]),
           kind[e] \in Servers => ph = "destructing"
    PROVE  IInv'
<1>1. TypeOK /\ TableInv /\ AloneInv /\ BindFailsOnlyToARival
      /\ \A r \in Ids : PhaseInv(r) /\ SockInv(r) /\ OwnInv(r) /\ FileInv(r)
  BY DEF IInv
<1>2. UNCHANGED <<kind, proc, name, target, socket, reuse, table, file, lingering>>
  BY DEF shape, kernel
<1>3. /\ \A r \in Ids \ {e} : todo'[r] = todo[r] /\ phase'[r] = phase[r]
      /\ todo'[e] = s /\ phase'[e] = ph
  BY <1>1 DEF TypeOK
<1>4. TypeOK'
  <2>1. phase' \in [Ids -> {"new", "constructing", "live", "reconnecting", "destructing", "dead"}]
    BY <1>1 DEF TypeOK
  <2>2. todo' \in [Ids -> Seq(Call)]
    BY <1>1 DEF TypeOK
  <2>3. \A r \in Ids :
           todo'[r] # <<>> <=> phase'[r] \in {"constructing", "reconnecting", "destructing"}
    BY <1>1, <1>3 DEF TypeOK
  <2> QED
    BY <1>1, <1>2, <2>1, <2>2, <2>3 DEF TypeOK
<1>5. Whole(e) /\ \A r \in Ids : Lives(r)' => Lives(r)
  BY <1>3 DEF Whole, Lives
<1>6. AloneInv'
  BY <1>1, <1>5, AloneKept
<1>7. kind[e] \in Servers => Whole(e)'
  BY <1>2, <1>3 DEF Whole
<1>8. TableInv'
  <2>1. \A r \in Ids \ {e} : Whole(r) => Whole(r)'
    BY <1>2, <1>3 DEF Whole
  <2> QED
    BY <1>1, <1>2, <1>7, <2>1 DEF TableInv
<1>9. ASSUME NEW r \in Ids \ {e}
      PROVE  PhaseInv(r)' /\ SockInv(r)' /\ OwnInv(r)' /\ FileInv(r)'
  BY <1>1, <1>2, <1>3, <1>4, Bystander
<1>10. PhaseInv(e)'
  <2>1. \A t \in Seq(Call) : EndOf(t, t)
    BY DEF EndOf
  <2>2. phase'[e] = "destructing" => EndOf(todo'[e], Destructor(kind[e]))
    BY <1>3, <2>1
  <2>3. Ahead(e)' = Range(s)
    BY <1>3 DEF Ahead
  <2> QED
    BY <1>1, <1>2, <1>3, <2>2, <2>3 DEF PhaseInv, Making
<1>11. SockInv(e)'
  <2>1. kind[e] = "udpClient" => socket[e] # "listening"
    BY <1>1 DEF SockInv, Servers
  <2>2. Ahead(e)' = Range(s)
    BY <1>3 DEF Ahead
  <2> QED
    BY <1>1, <1>2, <1>3, <2>1, <2>2 DEF SockInv, Making
<1>12. OwnInv(e)'
  BY <1>1, <1>2, <1>5 DEF OwnInv
<1>13. FileInv(e)'
  BY <1>3 DEF FileInv
<1>14. BindFailsOnlyToARival'
  BY <1>1 DEF BindFailsOnlyToARival
<1> QED
  BY <1>4, <1>6, <1>8, <1>9, <1>10, <1>11, <1>12, <1>13, <1>14 DEF IInv

LEMMA DestroyKeeps ==
    ASSUME IInv, NEW e \in Ids, Destroy(e)
    PROVE  IInv' /\ spoiled' = spoiled
<1>1. /\ phase[e] = "live"
      /\ todo' = [todo EXCEPT ![e] = Destructor(kind[e])]
      /\ phase' = [phase EXCEPT ![e] =
                      IF Destructor(kind[e]) = <<>> THEN "dead" ELSE "destructing"]
      /\ UNCHANGED <<shape, failed, sock, kernel, alone, spoiled>>
  BY DEF Destroy
<1>2. kind[e] \in Servers \cup Clients
  BY <1>1, EndpointAssumption DEF IInv, PhaseInv
<1>3. Destructor(kind[e]) \in Seq(Call) /\ (kind[e] \in Servers => Len(Destructor(kind[e])) > 2)
  BY <1>2, DestructorCalls
<1>4. kind[e] \in Servers => Destructor(kind[e]) # <<>>
  BY <1>3
<1> DEFINE s == Destructor(kind[e])
           ph == IF s = <<>> THEN "dead" ELSE "destructing"
<1>5. /\ ph \in {"reconnecting", "destructing", "dead"} /\ s \in Seq(Call)
      /\ phase' = [phase EXCEPT ![e] = ph] /\ todo' = [todo EXCEPT ![e] = s]
      /\ (s = <<>> <=> ph = "dead") /\ ph # "reconnecting"
      /\ (ph = "destructing" => s = Destructor(kind[e]))
      /\ (kind[e] \in Servers => ph = "destructing")
  BY <1>1, <1>3, <1>4
<1> HIDE DEF s, ph
<1> QED
  BY <1>1, <1>5, LeaveLive

LEMMA HandleErrorKeeps ==
    ASSUME IInv, NEW e \in Ids, HandleError(e)
    PROVE  IInv' /\ spoiled' = spoiled
<1> DEFINE s == <<"close", "socket", "connect">>
<1>1. /\ phase[e] = "live" /\ kind[e] = "udpClient" /\ failed[e] = "none"
      /\ todo' = [todo EXCEPT ![e] = s]
      /\ phase' = [phase EXCEPT ![e] = "reconnecting"]
      /\ UNCHANGED <<shape, failed, sock, kernel, alone, spoiled>>
  BY DEF HandleError
<1>2. s \in Seq(Call) /\ s # <<>> /\ DOMAIN s = 1 .. 3
  BY DEF Call
<1>3. Range(s) = {"close", "socket", "connect"}
  BY <1>2 DEF Range
<1>4. InOrder(s)
  BY <1>2 DEF InOrder, Rank
<1>5. kind[e] \notin Servers
  BY <1>1 DEF Servers
<1> HIDE DEF s
<1> QED
  BY <1>1, <1>2, <1>3, <1>4, <1>5, LeaveLive

\* Other parts of a process open and close files of their own.
LEMMA OthersKeep ==
    ASSUME IInv, NEW p \in Procs, OtherOpens(p) \/ OtherCloses(p)
    PROVE  IInv' /\ spoiled' = spoiled
<1>1. TypeOK /\ TableInv /\ AloneInv /\ BindFailsOnlyToARival
      /\ \A r \in Ids : PhaseInv(r) /\ SockInv(r) /\ OwnInv(r) /\ FileInv(r)
  BY DEF IInv
<1>2. UNCHANGED <<shape, phase, todo, failed, sock, socket, reuse, file, lingering, alone, spoiled>>
      /\ UNCHANGED <<kind, proc, name, target>>
  BY DEF OtherOpens, OtherCloses, shape
<1>3. \E fd \in Fds, x \in {Free, Other} :
         table[p][fd] \in {Free, Other} /\ table' = [table EXCEPT ![p][fd] = x]
  <2>1. CASE OtherOpens(p)
    BY <2>1, LowestIsFree DEF OtherOpens
  <2>2. CASE OtherCloses(p)
    BY <2>2 DEF OtherCloses
  <2> QED
    BY <2>1, <2>2
<1>4. table' \in [Procs -> [Fds -> Ids \cup {Free, Other}]]
  BY <1>1, <1>3 DEF TypeOK
<1>5. \A q \in Procs, fd \in Fds, r \in Ids : table'[q][fd] = r <=> table[q][fd] = r
  BY <1>1, <1>3, EndpointAssumption DEF TypeOK
<1>6. TypeOK'
  BY <1>1, <1>2, <1>4 DEF TypeOK
<1>7. \A r \in Ids : sock[r] \in Fds /\ table[proc[r]][sock[r]] = r => proc[r] \in Procs
  <2> SUFFICES ASSUME NEW r \in Ids, sock[r] \in Fds PROVE proc[r] \in Procs
    OBVIOUS
  <2>1. sock[r] # -1
    BY EndpointAssumption
  <2> QED
    BY <1>1, <2>1 DEF PhaseInv
<1>8. TableInv'
  BY <1>1, <1>2, <1>5, <1>7 DEF TableInv, Whole
<1>9. AloneInv'
  BY <1>1, <1>2, AloneKept DEF Lives
<1>10. \A r \in Ids : PhaseInv(r)' /\ SockInv(r)' /\ OwnInv(r)' /\ FileInv(r)'
  BY <1>1, <1>2, <1>5, <1>6, Bystander
<1>11. BindFailsOnlyToARival'
  BY <1>1, <1>2 DEF BindFailsOnlyToARival
<1> QED
  BY <1>2, <1>6, <1>8, <1>9, <1>10, <1>11 DEF IInv

\* A process ends: its endpoints are gone and its numbers are free.
LEMMA CrashKeeps ==
    ASSUME IInv, NEW p \in Procs, Crash(p)
    PROVE  IInv' /\ spoiled' \subseteq spoiled
<1>1. TypeOK /\ TableInv /\ AloneInv /\ BindFailsOnlyToARival
      /\ \A r \in Ids : PhaseInv(r) /\ SockInv(r) /\ OwnInv(r) /\ FileInv(r)
  BY DEF IInv
<1>2. /\ phase' = [r \in Ids |-> IF r \in In(p) THEN "dead" ELSE phase[r]]
      /\ todo' = [r \in Ids |-> IF r \in In(p) THEN <<>> ELSE todo[r]]
      /\ socket' = [r \in Ids |-> IF r \in In(p) /\ socket[r] # "none" THEN "closed"
                                  ELSE socket[r]]
      /\ table' = [table EXCEPT ![p] = [fd \in Fds |-> Free]]
      /\ lingering' \in {lingering,
                         lingering \cup {name[r] : r \in {x \in In(p) : kind[x] = "tcpServer"
                                                             /\ socket[x] = "listening"}}}
      /\ spoiled' = spoiled \ {p}
      /\ UNCHANGED <<shape, failed, sock, reuse, file, alone>>
      /\ UNCHANGED <<kind, proc, name, target>>
  BY DEF Crash, shape
<1>3. \A r \in Ids : /\ r \in In(p) <=> proc[r] = p
                     /\ proc[r] = p => phase[r] # "new"
  BY <1>1, EndpointAssumption DEF In, PhaseInv
<1>4. lingering' \subseteq Names
  <2>1. ASSUME NEW r \in In(p), kind[r] = "tcpServer" PROVE name[r] \in Names
    BY <1>1, <1>3, <2>1 DEF In, PhaseInv, TypeOK
  <2>2. lingering \subseteq Names
    BY <1>1 DEF TypeOK
  <2> QED
    BY <1>2, <2>1, <2>2
<1>5. table' \in [Procs -> [Fds -> Ids \cup {Free, Other}]]
      /\ \A q \in Procs, fd \in Fds : table'[q][fd] = IF q = p THEN Free ELSE table[q][fd]
  BY <1>1, <1>2 DEF TypeOK
<1>6. TypeOK'
  <2>1. phase' \in [Ids -> {"new", "constructing", "live", "reconnecting", "destructing", "dead"}]
    BY <1>1, <1>2 DEF TypeOK
  <2>2. todo' \in [Ids -> Seq(Call)]
    BY <1>1, <1>2 DEF TypeOK
  <2>3. \A r \in Ids :
           todo'[r] # <<>> <=> phase'[r] \in {"constructing", "reconnecting", "destructing"}
    BY <1>1, <1>2 DEF TypeOK
  <2>4. socket' \in [Ids -> {"none", "open", "listening", "closed"}]
    BY <1>1, <1>2 DEF TypeOK
  <2> QED
    BY <1>1, <1>2, <1>4, <1>5, <2>1, <2>2, <2>3, <2>4 DEF TypeOK
<1>7. AloneInv'
  <2>1. \A r \in Ids : Lives(r)' => Lives(r)
    BY <1>2 DEF Lives
  <2> QED
    BY <1>1, <1>2, <2>1, AloneKept
<1>8. TableInv'
  <2>1. ASSUME NEW q \in Procs, NEW fd \in Fds, NEW r \in Ids, table'[q][fd] = r
        PROVE  /\ proc'[r] = q /\ sock'[r] = fd
               /\ kind'[r] \in Servers => Whole(r)'
               /\ socket'[r] \in {"open", "listening"}
    <3>1. q # p /\ table[q][fd] = r
      BY <1>5, <2>1, EndpointAssumption
    <3>2. /\ proc[r] = q /\ sock[r] = fd
          /\ kind[r] \in Servers => Whole(r)
          /\ socket[r] \in {"open", "listening"}
      BY <1>1, <3>1 DEF TableInv
    <3>3. phase'[r] = phase[r] /\ todo'[r] = todo[r] /\ socket'[r] = socket[r]
      BY <1>2, <1>3, <3>1, <3>2
    <3>4. Whole(r) => Whole(r)'
      BY <1>2, <3>3 DEF Whole
    <3> QED
      BY <1>2, <3>2, <3>3, <3>4
  <2>2. ASSUME NEW r \in Ids, socket'[r] \in {"open", "listening"}
        PROVE  sock'[r] \in Fds /\ table'[proc'[r]][sock'[r]] = r
    <3>1. socket[r] \in {"open", "listening"} /\ proc[r] # p
      BY <1>2, <1>3, <2>2
    <3>2. sock[r] \in Fds /\ table[proc[r]][sock[r]] = r
      BY <1>1, <3>1 DEF TableInv
    <3>3. sock[r] # -1
      BY <3>2, EndpointAssumption
    <3>4. proc[r] \in Procs
      BY <1>1, <3>3 DEF PhaseInv
    <3> QED
      BY <1>2, <1>5, <3>1, <3>2, <3>4
  <2> QED
    BY <2>1, <2>2 DEF TableInv
<1>9. ASSUME NEW r \in Ids
      PROVE  PhaseInv(r)' /\ SockInv(r)' /\ OwnInv(r)' /\ FileInv(r)'
  <2>1. CASE proc[r] = p
    <3>1. phase'[r] = "dead" /\ phase[r] # "new" /\ socket'[r] # "listening"
      BY <1>1, <1>2, <1>3, <2>1 DEF TypeOK
    <3>2. PhaseInv(r)'
      BY <1>1, <1>2, <3>1 DEF PhaseInv, Making
    <3>3. SockInv(r)'
      BY <3>1 DEF SockInv, Making
    <3>4. OwnInv(r)' /\ FileInv(r)'
      BY <3>1 DEF OwnInv, FileInv, Whole
    <3> QED
      BY <3>2, <3>3, <3>4
  <2>2. CASE proc[r] # p
    <3>1. phase'[r] = phase[r] /\ todo'[r] = todo[r] /\ socket'[r] = socket[r]
          /\ spoiled \cap {proc[r]} \subseteq spoiled'
          /\ (proc[r] \in Procs /\ sock[r] \in Fds /\ table[proc[r]][sock[r]] = r
              => table'[proc[r]][sock[r]] = r)
      BY <1>2, <1>3, <1>5, <2>2
    <3> QED
      BY <1>1, <1>2, <1>6, <3>1, Bystander
  <2> QED
    BY <2>1, <2>2
<1>10. BindFailsOnlyToARival'
  BY <1>1, <1>2 DEF BindFailsOnlyToARival
<1> QED
  BY <1>2, <1>6, <1>7, <1>8, <1>9, <1>10 DEF IInv

LEMMA LingerKeeps ==
    ASSUME IInv, LingerEnds
    PROVE  IInv' /\ spoiled' = spoiled
<1>1. TypeOK /\ TableInv /\ AloneInv /\ BindFailsOnlyToARival
      /\ \A r \in Ids : PhaseInv(r) /\ SockInv(r) /\ OwnInv(r) /\ FileInv(r)
  BY DEF IInv
<1>2. /\ UNCHANGED <<shape, phase, todo, failed, sock, socket, reuse, table, file, alone, spoiled>>
      /\ UNCHANGED <<kind, proc, name, target>>
      /\ lingering' \subseteq lingering
  BY DEF LingerEnds, shape
<1>3. TypeOK'
  BY <1>1, <1>2 DEF TypeOK
<1>4. TableInv' /\ BindFailsOnlyToARival'
  BY <1>1, <1>2 DEF TableInv, Whole, BindFailsOnlyToARival
<1>5. AloneInv'
  BY <1>1, <1>2, AloneKept DEF Lives
<1>6. \A r \in Ids : PhaseInv(r)' /\ SockInv(r)' /\ OwnInv(r)' /\ FileInv(r)'
  BY <1>1, <1>2, <1>3, Bystander
<1> QED
  BY <1>2, <1>3, <1>4, <1>5, <1>6 DEF IInv

-----------------------------------------------------------------------------
(* The theorems.                                                           *)

\* Every step but close() leaves alone what it is not the endpoint's own.
LEMMA StepKeeps ==
    ASSUME IInv, Next
    PROVE  /\ IInv'
           /\ spoiled' \subseteq spoiled \/ \E e \in Ids : CloseSocket(e)
<1>1. ASSUME NEW e \in Ids, Step(e)
      PROVE  IInv' /\ (spoiled' \subseteq spoiled \/ CloseSocket(e))
  <2>1. CASE Create(e)
    BY <2>1, CreateKeeps
  <2>2. CASE Socket(e)
    BY <2>2, SocketKeeps
  <2>3. CASE SetOption(e)
    BY <2>3, SetOptionKeeps
  <2>4. CASE Unlink(e)
    BY <2>4, UnlinkKeeps
  <2>5. CASE Bind(e)
    BY <2>5, BindKeeps
  <2>6. CASE Listen(e)
    BY <2>6, ListenKeeps
  <2>7. CASE Connect(e)
    BY <2>7, ConnectKeeps
  <2>8. CASE CloseSocket(e)
    BY <2>8, CloseSocketKeeps
  <2>9. CASE DropPeers(e)
    BY <2>9, DropPeersKeeps
  <2>10. CASE Destroy(e)
    BY <2>10, DestroyKeeps
  <2>11. CASE HandleError(e)
    BY <2>11, HandleErrorKeeps
  <2> QED
    BY <1>1, <2>1, <2>2, <2>3, <2>4, <2>5, <2>6, <2>7, <2>8, <2>9, <2>10, <2>11 DEF Step
<1>2. ASSUME NEW p \in Procs, OtherOpens(p) \/ OtherCloses(p) \/ Crash(p)
      PROVE  IInv' /\ spoiled' \subseteq spoiled
  BY <1>2, OthersKeep, CrashKeeps
<1>3. CASE LingerEnds
  BY <1>3, LingerKeeps
<1> QED
  BY <1>1, <1>2, <1>3 DEF Next

\* The inductive invariant holds in the behaviours of Spec.
LEMMA Invariance == Spec => []IInv
<1>1. Init => IInv
  <2> SUFFICES ASSUME Init PROVE IInv
    OBVIOUS
  <2>1. TypeOK
    BY DEF Init, TypeOK
  <2>2. TableInv
    BY EndpointAssumption DEF Init, TableInv
  <2>3. AloneInv /\ BindFailsOnlyToARival
    BY DEF Init, AloneInv, Lives, BindFailsOnlyToARival
  <2>4. ASSUME NEW e \in Ids
        PROVE  PhaseInv(e) /\ SockInv(e) /\ OwnInv(e) /\ FileInv(e)
    <3>1. phase[e] = "new" /\ kind[e] = "none" /\ proc[e] = NoProc /\ sock[e] = -1
          /\ failed[e] = "none" /\ socket[e] = "none"
      BY DEF Init
    <3> QED
      BY <3>1 DEF PhaseInv, SockInv, OwnInv, FileInv, Making
  <2> QED
    BY <2>1, <2>2, <2>3, <2>4 DEF IInv
<1>2. IInv /\ [Next]_vars => IInv'
  <2>1. ASSUME IInv, Next PROVE IInv'
    BY <2>1, StepKeeps
  <2>2. ASSUME IInv, UNCHANGED vars PROVE IInv'
    <3>1. TypeOK /\ TableInv /\ AloneInv /\ BindFailsOnlyToARival
          /\ \A r \in Ids : PhaseInv(r) /\ SockInv(r) /\ OwnInv(r) /\ FileInv(r)
      BY <2>2 DEF IInv
    <3>2. /\ UNCHANGED <<shape, phase, todo, failed, sock, socket, reuse, table, file,
                         lingering, alone, spoiled>>
          /\ UNCHANGED <<kind, proc, name, target>>
      BY <2>2 DEF vars, shape, kernel
    <3>3. TypeOK'
      BY <3>1, <3>2 DEF TypeOK
    <3>4. TableInv' /\ BindFailsOnlyToARival'
      BY <3>1, <3>2 DEF TableInv, Whole, BindFailsOnlyToARival
    <3>5. AloneInv'
      BY <3>1, <3>2, AloneKept DEF Lives
    <3>6. \A r \in Ids : PhaseInv(r)' /\ SockInv(r)' /\ OwnInv(r)' /\ FileInv(r)'
      BY <3>1, <3>2, <3>3, Bystander
    <3> QED
      BY <3>3, <3>4, <3>5, <3>6 DEF IInv
  <2> QED
    BY <2>1, <2>2
<1> QED
  BY <1>1, <1>2, PTL DEF Spec

\* The variables keep their types, and calls remain to be made exactly while a
\* constructor, handleError or a destructor runs.
THEOREM Types == Spec => []TypeOK
<1>1. IInv => TypeOK
  BY DEF IInv
<1> QED
  BY <1>1, Invariance, PTL

\* What an earlier server left behind, its socket file or its connections in
\* TIME_WAIT, keeps no endpoint from its path or port: bind() and listen() find it in
\* use only when another endpoint had it at the same time.
THEOREM Rival == Spec => []BindFailsOnlyToARival
<1>1. IInv => BindFailsOnlyToARival
  BY DEF IInv
<1> QED
  BY <1>1, Invariance, PTL

\* A valid Unix endpoint that no other endpoint shared its path with is what the path
\* leads to, whatever servers and server-side clients are destroyed meanwhile.
THEOREM Reachable == Spec => []ReachableWhenAlone
<1>1. IInv => ReachableWhenAlone
  <2> SUFFICES ASSUME IInv, NEW e \in Ids, phase[e] = "live", failed[e] = "none",
                      proc[e] \notin spoiled, Unix(e), alone[e]
               PROVE  file[name[e]] = e /\ socket[e] # "closed"
    BY DEF ReachableWhenAlone
  <2>1. file[name[e]] = e
    BY DEF IInv, FileInv
  <2>2. sock[e] # -1 /\ sock[e] \in Fds \cup {-1} /\ proc[e] \in Procs
    BY DEF IInv, SockInv, TypeOK, PhaseInv
  <2>3. table[proc[e]][sock[e]] = e
    BY <2>2 DEF IInv, OwnInv, Whole
  <2> QED
    BY <2>1, <2>2, <2>3 DEF IInv, TableInv
<1> QED
  BY <1>1, Invariance, PTL

\* sock_ is a number of the endpoint's own until its destructor begins, except in an
\* object whose constructor closed the socket and kept the number.
THEOREM Own == Spec => []HoldsItsOwn
<1>1. IInv => HoldsItsOwn
  BY DEF IInv, OwnInv, Whole, HoldsItsOwn
<1> QED
  BY <1>1, Invariance, PTL

\* A server that is gone has closed its socket, wherever its constructor stopped and
\* whatever numbers were given to others meanwhile.
THEOREM ServersClose == Spec => []ServersCloseTheirSocket
<1>1. IInv => ServersCloseTheirSocket
  <2> SUFFICES ASSUME IInv, NEW p \in Procs, NEW fd \in Fds, NEW e \in Ids,
                      table[p][fd] = e, phase[e] = "dead"
               PROVE  kind[e] \in Clients
    BY DEF ServersCloseTheirSocket
  <2>1. kind[e] \in Servers \cup Clients
    BY EndpointAssumption DEF IInv, PhaseInv
  <2>2. kind[e] \in Servers => Whole(e)
    BY DEF IInv, TableInv
  <2> QED
    BY <2>1, <2>2 DEF Whole
<1> QED
  BY <1>1, Invariance, PTL

\* A destructor closes another file than the endpoint's own only where it closes one
\* number twice: in closeSocket of the base destructor, or after the constructor of a
\* TCP or UDP server closed the socket.
THEOREM Twice == Spec => SpoiledOnlyTwice
<1> DEFINE Excused(p) ==
              \E e \in Ids :
                 /\ proc[e] = p
                 /\ Calls(e, "close")
                 /\ \/ Tail(todo[e]) = <<"peers">>
                    \/ kind[e] \in InetServers /\ failed[e] \in {"bind", "denied", "listen"}
<1>1. ASSUME IInv, Next, NEW p \in spoiled' \ spoiled
      PROVE  Excused(p)
  <2>1. PICK e \in Ids : CloseSocket(e)
    BY <1>1, StepKeeps
  <2>2. /\ TypeOK /\ TableInv /\ \A r \in Ids : PhaseInv(r)
        /\ OwnInv(e)
    BY <1>1 DEF IInv
  <2>3. Calls(e, "close") /\ Close(e, proc[e], sock[e])
    BY <2>1 DEF CloseSocket
  <2>4. /\ proc[e] \in Procs \ spoiled /\ todo[e] \in Seq(Call) /\ todo[e] # <<>>
        /\ Head(todo[e]) = "close" /\ phase[e] \in {"reconnecting", "destructing"}
        /\ kind[e] \in Servers \cup Clients
    BY <2>2, <2>3, CallFacts DEF Call
  <2>5. spoiled' = spoiled \/
           (spoiled' = spoiled \cup {proc[e]} /\ sock[e] # -1 /\ table[proc[e]][sock[e]] # e)
    <3> HIDE DEF Close
    <3> QED
      BY <2>2, <2>3, <2>4, CloseFacts
  <2>6. p = proc[e] /\ sock[e] # -1 /\ table[proc[e]][sock[e]] # e
    BY <1>1, <2>5
  <2>7. Whole(e) => /\ kind[e] \in InetServers \cup {"tcpClient", "unixStreamClient"}
                    /\ failed[e] \in {"bind", "denied", "listen", "connect"}
    BY <2>2, <2>4, <2>6 DEF OwnInv
  <2>8. phase[e] = "destructing"
    <3>1. phase[e] = "reconnecting" => failed[e] = "none" /\ Whole(e)
      BY <2>2 DEF PhaseInv, Making, Whole
    <3> QED
      BY <2>4, <2>7, <3>1
  <2>9. kind[e] \in Servers /\ (todo[e] = Destructor(kind[e]) \/ Tail(todo[e]) = <<"peers">>)
    <3>1. EndOf(todo[e], Destructor(kind[e]))
      BY <2>2, <2>8 DEF PhaseInv
    <3> QED
      BY <2>4, <3>1, Closings
  <2>10. CASE todo[e] = Destructor(kind[e])
    <3>1. Whole(e)
      BY <2>8, <2>10 DEF Whole
    <3>2. failed[e] # "connect"
      BY <2>2, <2>9 DEF PhaseInv, Servers, Clients
    <3>3. kind[e] \in InetServers
      BY <2>7, <2>9, <3>1 DEF Servers
    <3> QED
      BY <2>3, <2>6, <2>7, <3>1, <3>2, <3>3
  <2>11. CASE Tail(todo[e]) = <<"peers">>
    BY <2>3, <2>6, <2>11
  <2> QED
    BY <2>9, <2>10, <2>11
<1>2. ASSUME IInv, [Next]_vars
      PROVE  [\A p \in Procs : p \in spoiled' \ spoiled => Excused(p)]_vars
  BY <1>1, <1>2
<1> QED
  BY <1>2, Invariance, PTL DEF Spec, SpoiledOnlyTwice
=============================================================================
