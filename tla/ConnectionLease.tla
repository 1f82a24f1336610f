--------------------------- MODULE ConnectionLease ---------------------------
(***************************************************************************)
(* What a connection pool promises its users, without indexes, health      *)
(* flags, waiting or repair: a user is lent a connection nobody else has,  *)
(* the connection stays in the pool, and stays open, for as long as it is  *)
(* lent and the pool runs, and the pool never owns more than MaxSize       *)
(* connections.  Between loans the pool may replace its idle connections   *)
(* as it likes.  Shutting down closes lent connections too.                *)
(***************************************************************************)
EXTENDS Integers, FiniteSets

CONSTANTS Threads, Handles, NoConn, MaxSize

VARIABLES
    owned,      \* the connections the pool owns
    lease,      \* lease[t]: the connection thread t was lent, or NoConn
    closed      \* TRUE once the pool has been shut down

leaseVars == <<owned, lease, closed>>

Lent == {lease[t] : t \in Threads} \ {NoConn}

Init ==
    /\ owned = {}
    /\ lease = [t \in Threads |-> NoConn]
    /\ closed = FALSE

\* The pool may open and close idle connections; lent ones stay.
Reshape(keep) ==
    /\ owned' \subseteq Handles
    /\ keep \subseteq owned'
    /\ Cardinality(owned') <= MaxSize

Lend(t) ==
    /\ ~closed
    /\ lease[t] = NoConn
    /\ \E h \in Handles \ Lent :
          /\ lease' = [lease EXCEPT ![t] = h]
          /\ Reshape(Lent \cup {h})
    /\ UNCHANGED closed

GiveBack(t) ==
    /\ lease[t] # NoConn
    /\ lease' = [lease EXCEPT ![t] = NoConn]
    /\ UNCHANGED <<owned, closed>>

Maintain ==
    /\ ~closed
    /\ Reshape(Lent)
    /\ UNCHANGED <<lease, closed>>

Shutdown ==
    /\ ~closed
    /\ closed' = TRUE
    /\ owned' = {}
    /\ UNCHANGED lease

Next ==
    \/ \E t \in Threads : Lend(t) \/ GiveBack(t)
    \/ Maintain
    \/ Shutdown

Spec == Init /\ [][Next]_leaseVars

=============================================================================
