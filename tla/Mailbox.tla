------------------------------- MODULE Mailbox -------------------------------
(***************************************************************************)
(* What a client promises to the program that owns it, free of sockets,    *)
(* pipes and flags: what arrives waits in a box until the program has it,  *)
(* once, either from the callback, which is called only while the box is   *)
(* listened to, or by asking, which answers only while it is not.  Only    *)
(* the box of a client that may reconnect is ever emptied unread.          *)
(***************************************************************************)
EXTENDS Naturals

CONSTANTS
    Lossy,       \* the client reconnects (UDP)
    Shared       \* asking answers while the box is listened to (Unix datagram)

VARIABLES
    listening,   \* the client calls back
    waiting,     \* units that have arrived and are not handed over
    given,       \* units handed to the callback
    returned     \* units handed to who asked

boxVars == <<listening, waiting, given, returned>>

Init ==
    /\ listening = FALSE
    /\ waiting = 0
    /\ given = 0
    /\ returned = 0

Arrive ==
    /\ waiting' = waiting + 1
    /\ UNCHANGED <<listening, given, returned>>

Open ==
    /\ ~listening
    /\ listening' = TRUE
    /\ UNCHANGED <<waiting, given, returned>>

\* A reconnection that fails ends the listening, too.
Close ==
    /\ listening
    /\ listening' = FALSE
    /\ waiting' = waiting \/ (Lossy /\ waiting' = 0)
    /\ UNCHANGED <<given, returned>>

Empty ==
    /\ Lossy
    /\ listening
    /\ waiting' = 0
    /\ UNCHANGED <<listening, given, returned>>

Call(n) ==
    /\ listening
    /\ waiting' = waiting - n
    /\ given' = given + n
    /\ UNCHANGED <<listening, returned>>

Return(n) ==
    /\ Shared \/ ~listening
    /\ waiting' = waiting - n
    /\ returned' = returned + n
    /\ UNCHANGED <<listening, given>>

Next ==
    \/ Arrive
    \/ Open
    \/ Close
    \/ Empty
    \/ \E n \in 1 .. waiting : Call(n) \/ Return(n)

Spec == Init /\ [][Next]_boxVars
=============================================================================
