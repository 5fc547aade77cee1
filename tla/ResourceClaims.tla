---------------------------- MODULE ResourceClaims ----------------------------
(***************************************************************************)
(* What the resource-set library promises its users: a resource is claimed *)
(* by one thread at a time.  A thread acquires a resource nobody claims,   *)
(* and gives up resources it claims.                                       *)
(***************************************************************************)
CONSTANTS Threads, Resources

VARIABLE claim     \* the resources each thread claims

Init == claim = [t \in Threads |-> {}]

Acquire(t, r) ==
  /\ \A u \in Threads : r \notin claim[u]
  /\ claim' = [claim EXCEPT ![t] = @ \cup {r}]

Release(t, R) ==
  claim' = [claim EXCEPT ![t] = @ \ R]

Next ==
  \E t \in Threads :
    \/ \E r \in Resources : Acquire(t, r)
    \/ \E R \in SUBSET claim[t] : Release(t, R)

Spec == Init /\ [][Next]_claim

=============================================================================
