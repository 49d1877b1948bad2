---------------------------- MODULE SessionLease ----------------------------
(***************************************************************************)
(* What a caller of the HSM cluster backend may rely on, without pool,     *)
(* semaphore, creation jobs or token: at most PoolSize calls have a        *)
(* session at a time, each a session of its own; a call that has one gives *)
(* it back before it ends or tries again; a call ends once; and only a     *)
(* call that has a session learns what the token says of its operation.    *)
(***************************************************************************)
EXTENDS Naturals, FiniteSets

CONSTANTS Calls, Sessions, PoolSize, NoSession

VARIABLES
    lease,   \* the session each call has
    outcome  \* how each call ended

leaseVars == <<lease, outcome>>

Holders == {c \in Calls : lease[c] # NoSession}

LeaseInit ==
    /\ lease = [c \in Calls |-> NoSession]
    /\ outcome = [c \in Calls |-> "none"]

Grant(c, s) ==
    /\ outcome[c] = "none"
    /\ lease[c] = NoSession
    /\ s \notin {lease[d] : d \in Calls}
    /\ Cardinality(Holders) < PoolSize
    /\ lease' = [lease EXCEPT ![c] = s]
    /\ UNCHANGED outcome

\* The call gives its session back, to try again or to end.
GiveBack(c) ==
    /\ lease[c] # NoSession
    /\ lease' = [lease EXCEPT ![c] = NoSession]
    /\ \/ UNCHANGED outcome
       \/ \E v \in {"Ok", "OpFailed", "KeyNotFound", "ClusterError"} :
            outcome' = [outcome EXCEPT ![c] = v]

\* The call ends without a session.
EndWithout(c) ==
    /\ outcome[c] = "none"
    /\ lease[c] = NoSession
    /\ \E v \in {"KeyNotFound", "ClusterError", "Cancelled"} :
        outcome' = [outcome EXCEPT ![c] = v]
    /\ UNCHANGED lease

LeaseNext ==
    \E c \in Calls :
        \/ \E s \in Sessions : Grant(c, s)
        \/ GiveBack(c)
        \/ EndWithout(c)

LeaseSpec == LeaseInit /\ [][LeaseNext]_leaseVars

=============================================================================
