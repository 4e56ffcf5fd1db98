----------------------------- MODULE MemService -----------------------------
(***************************************************************************)
(* What the memory controller promises the port above it, without queues,  *)
(* events or ranks.  A request is either refused, and then the port stays  *)
(* blocked until the controller says "retry", or taken.  A taken request   *)
(* needs some number of bursts from memory (none for a write, which is     *)
(* answered at once, and none for a read found in the write queue) and is  *)
(* answered exactly when the last of them has arrived, never before and    *)
(* never twice.  MemCtrl implements this specification.                    *)
(***************************************************************************)
EXTENDS Naturals

CONSTANTS
    Requests,  \* the requests the port may send
    Size       \* Size[r]: the number of bursts request r is split into

VARIABLES
    left,      \* left[r]: bursts of r still to come
    answered,  \* the requests that have been answered
    blocked    \* the refused request the port is waiting to send again

vars == <<left, answered, blocked>>

Init ==
    /\ left = [r \in Requests |-> 0]
    /\ answered = {}
    /\ blocked = {}

Refuse(r) ==
    /\ r \notin answered
    /\ left[r] = 0
    /\ blocked = {}
    /\ blocked' = {r}
    /\ UNCHANGED <<left, answered>>

Take(r) ==
    /\ r \notin answered
    /\ left[r] = 0
    /\ blocked = {}
    /\ \E n \in 0..Size[r] :
          /\ left' = [left EXCEPT ![r] = n]
          /\ answered' = IF n = 0 THEN answered \cup {r} ELSE answered
    /\ UNCHANGED blocked

\* One burst of r has arrived; it frees a slot, so a blocked port may go on.
Serve(r) ==
    /\ left[r] > 0
    /\ left' = [left EXCEPT ![r] = @ - 1]
    /\ answered' = IF left[r] = 1 THEN answered \cup {r} ELSE answered
    /\ blocked' \in {blocked, {}}

Unblock ==
    /\ blocked' = {}
    /\ UNCHANGED <<left, answered>>

Next ==
    \/ \E r \in Requests : Refuse(r) \/ Take(r) \/ Serve(r)
    \/ Unblock

Spec == Init /\ [][Next]_vars
=============================================================================
