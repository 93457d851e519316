------------------------- MODULE ConnectionService --------------------------
(***************************************************************************)
(* What a stream server promises to the program that uses it, free of      *)
(* poll sets, locks and threads: clients join under an id, their bytes are *)
(* delivered while they are members and the service is up, and they leave. *)
(* An id that has named a peer never names another one.                    *)
(***************************************************************************)
EXTENDS Naturals

CONSTANTS Ids, Peers, NoPeer

VARIABLES
    up,          \* the service is between a start and the following stop
    members,     \* ids listed as connected
    owner,       \* the peer an id names, once it has named one
    delivered    \* bytes of a peer handed to the program

svcVars == <<up, members, owner, delivered>>

Init ==
    /\ up = FALSE
    /\ members = {}
    /\ owner = [i \in Ids |-> NoPeer]
    /\ delivered = [p \in Peers |-> 0]

Start ==
    /\ ~up
    /\ up' = TRUE
    /\ UNCHANGED <<members, owner, delivered>>

Stop ==
    /\ up
    /\ up' = FALSE
    /\ UNCHANGED <<members, owner, delivered>>

Join(i, p) ==
    /\ up
    /\ owner[i] = NoPeer
    /\ \A j \in Ids : owner[j] # p
    /\ owner' = [owner EXCEPT ![i] = p]
    /\ members' = members \cup {i}
    /\ UNCHANGED <<up, delivered>>

\* Any number of further bytes of the peer that i names.
Deliver(i) ==
    /\ up
    /\ i \in members
    /\ delivered' = [delivered EXCEPT ![owner[i]] = delivered'[owner[i]]]
    /\ delivered'[owner[i]] \in Nat
    /\ delivered'[owner[i]] > delivered[owner[i]]
    /\ UNCHANGED <<up, members, owner>>

Leave(i) ==
    /\ up
    /\ i \in members
    /\ members' = members \ {i}
    /\ UNCHANGED <<up, owner, delivered>>

\* The service is destroyed: nobody is a member any more.
Close ==
    /\ ~up
    /\ members' = {}
    /\ UNCHANGED <<up, owner, delivered>>

Next ==
    \/ Start
    \/ Stop
    \/ \E i \in Ids : Deliver(i) \/ Leave(i)
    \/ \E i \in Ids, p \in Peers : Join(i, p)
    \/ Close

Spec == Init /\ [][Next]_svcVars
=============================================================================
