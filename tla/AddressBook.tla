----------------------------- MODULE AddressBook ----------------------------
(***************************************************************************)
(* What a datagram server promises to the program that uses it, free of    *)
(* poll sets, locks and threads: a book of the addresses that have         *)
(* written, in which an address has one id and an id one address, and a    *)
(* tray of datagrams accepted and not yet handed over.  A datagram goes    *)
(* from the tray to the program once, and only when its sender is in the   *)
(* book.  The book only grows, until the server is destroyed.              *)
(***************************************************************************)
EXTENDS Naturals, Functions

CONSTANTS
    Addrs,
    Unnamed      \* the address of a datagram that could not be received

VARIABLES
    book,        \* a function from ids to addresses
    pending,     \* datagrams of an address in the tray
    given,       \* datagrams of an address handed to the program
    open         \* the server has not been destroyed

bookVars == <<book, pending, given, open>>

Init ==
    /\ book = <<>>
    /\ pending = [a \in Addrs |-> 0]
    /\ given = [a \in Addrs |-> 0]
    /\ open = TRUE

Arrive(a) ==
    /\ pending' = [pending EXCEPT ![a] = @ + 1]
    /\ UNCHANGED <<book, given, open>>

\* An address that is not in the book gets an id that is not in use; that of no
\* socket enters the book without a datagram when one could not be received.
Register(a) ==
    /\ a \notin Range(book)
    /\ pending[a] > 0 \/ a = Unnamed
    /\ \E i \in DOMAIN book' :
          /\ i \in Nat \ DOMAIN book
          /\ book' = [j \in DOMAIN book \cup {i} |-> IF j = i THEN a ELSE book[j]]
    /\ UNCHANGED <<pending, given, open>>

Deliver(a) ==
    /\ a \in Range(book)
    /\ pending[a] > 0
    /\ pending' = [pending EXCEPT ![a] = @ - 1]
    /\ given' = [given EXCEPT ![a] = @ + 1]
    /\ UNCHANGED <<book, open>>

\* The server is destroyed, with what was in the tray and with its book, which
\* stays only when the process ends before the book's turn comes.
Close ==
    /\ book' \in {<<>>, book}
    /\ pending' = [a \in Addrs |-> 0]
    /\ open' = FALSE
    /\ UNCHANGED given

Next ==
    /\ open
    /\ \/ \E a \in Addrs : Arrive(a) \/ Register(a) \/ Deliver(a)
       \/ Close

Spec == Init /\ [][Next]_bookVars
=============================================================================
