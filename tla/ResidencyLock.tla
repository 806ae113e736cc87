--------------------------- MODULE ResidencyLock ---------------------------
(***************************************************************************)
(* What the lease ledger of localbench/gateway.py promises, with no store, *)
(* process or command in sight: a model is used by any number of calls,    *)
(* or it is being unloaded or fenced, never both.  Calls are shared        *)
(* holders; an unload and a fence are entered only when there are none,    *)
(* and shut new calls out until they end.                                  *)
(***************************************************************************)
CONSTANTS Models, Calls
VARIABLES users, unloading, fenced
locks == <<users, unloading, fenced>>

LockInit ==
    /\ users = [m \in Models |-> {}]
    /\ unloading = {}
    /\ fenced = {}

Enter(m, r) ==
    /\ m \notin unloading \cup fenced
    /\ users' = [users EXCEPT ![m] = @ \cup {r}]
    /\ UNCHANGED <<unloading, fenced>>

\* Calls end one by one, or together when their process has died.
Leave(R) ==
    /\ users' = [m \in Models |-> users[m] \ R]
    /\ UNCHANGED <<unloading, fenced>>

Claim(S) ==
    /\ \A m \in S : users[m] = {}
    /\ unloading' = unloading \cup S
    /\ UNCHANGED <<users, fenced>>

Settle(S) ==
    /\ unloading' = unloading \ S
    /\ UNCHANGED <<users, fenced>>

Fence(S) ==
    /\ \A m \in S : users[m] = {} /\ m \notin fenced
    /\ fenced' = fenced \cup S
    /\ UNCHANGED <<users, unloading>>

Unfence(S) ==
    /\ fenced' = fenced \ S
    /\ UNCHANGED <<users, unloading>>

LockNext ==
    \/ \E m \in Models, r \in Calls : Enter(m, r)
    \/ \E R \in SUBSET Calls : Leave(R)
    \/ \E S \in SUBSET Models :
         Claim(S) \/ Settle(S) \/ Fence(S) \/ Unfence(S)

LockSpec == LockInit /\ [][LockNext]_locks
=============================================================================
