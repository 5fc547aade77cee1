--------------------------------- MODULE Rset ---------------------------------
(***************************************************************************)
(* The atomic resource sets of tool/memory (armCA9): a set is a bitset of  *)
(* free resources in memory, changed by LDREXD/STREXD retry loops, without *)
(* a lock, by any thread of either CPU.                                    *)
(*                                                                         *)
(* The sets themselves are the resources of the first set, the master,     *)
(* which is one of the sets it manages.  mem_rsOpen allocates from the     *)
(* master and then sets up the set; mem_rsClose frees to the master.       *)
(***************************************************************************)
EXTENDS Integers, FiniteSetsExt

CONSTANTS
  Threads,     \* threads that use resource sets
  N,           \* NUM_SETS and MAX_RESOURCES (both 64 in the code)
  W,           \* bits of the low word of the bitset (32 in the code)
  MaxOpen      \* bound of the model: most resources a set is opened with (N in the code)

ASSUME NAssumption == N \in Nat \ {0}
ASSUME WAssumption == W \in 0 .. N
ASSUME MaxOpenAssumption == MaxOpen \in 1 .. N

Idx == 0 .. N - 1
Sets == Idx
Master == 0
LowWord == 0 .. W - 1

\* The call a thread is in, the set whose bitset it works on, and the resource
\* it frees or, in mem_rsOpen, the set it has allocated.
Calls == {"none", "open", "close", "alloc", "free"}
NoCall == [call |-> "none", set |-> 0, res |-> 0]

VARIABLES
  bits,        \* the bitset of each set: the positions whose bit is 1 (free)
  pc,          \* where each thread is
  op,          \* the call each thread is in
  seen,        \* the bitset in a thread's registers: the one LDREXD loaded, or
               \* the one mem_rsetSetup built; {} once it is dead
  excl,        \* threads whose exclusive reservation still stands
  held         \* the resources each thread has of each set; those it has of
               \* the master are the sets it has open

vars == <<bits, pc, op, seen, excl, held>>

\* Mutant: the allocation takes the highest-numbered free resource.
Lowest_Highest(b) == CHOOSE i \in b : \A j \in b : j <= i

\* The lowest-numbered free resource, by counting leading zeros.
Lowest(b) == CHOOSE i \in b : \A j \in b : i <= j

\* mem_rsInitialize: the master manages every set, itself included, and the
\* first allocation from it reserves the master.
Init ==
  /\ bits = [s \in Sets |-> IF s = Master THEN Sets \ {Lowest(Sets)} ELSE {}]
  /\ pc = [t \in Threads |-> "idle"]
  /\ op = [t \in Threads |-> NoCall]
  /\ seen = [t \in Threads |-> {}]
  /\ excl = {}
  /\ held = [t \in Threads |-> [s \in Sets |-> {}]]

\* A set some thread has open.
Open(s) == \E u \in Threads : s \in held[u][Master]

Begin(t, call, s, i) ==
  /\ pc[t] = "idle"
  /\ pc' = [pc EXCEPT ![t] = "load"]
  /\ op' = [op EXCEPT ![t] = [call |-> call, set |-> s, res |-> i]]
  /\ UNCHANGED <<bits, seen, excl>>

(***************************************************************************)
(* The calls.  Any thread may allocate from an open set.  A resource is    *)
(* freed by a thread that has it; a set is closed by the thread that has   *)
(* it open, once no other thread has a resource of it or is in a call on   *)
(* it.  mem_rsClose is passed the handle, as its callers in ppi do.        *)
(***************************************************************************)
mem_rsOpen(t) ==
  /\ Begin(t, "open", Master, 0)
  /\ UNCHANGED held

mem_rsAlloc(t, s) ==
  /\ Open(s)
  /\ Begin(t, "alloc", s, 0)
  /\ UNCHANGED held

mem_rsFree(t, s, i) ==
  /\ s # Master /\ i \in held[t][s]
  /\ Begin(t, "free", s, i)
  /\ held' = [held EXCEPT ![t][s] = @ \ {i}]

\* No thread but t has a resource of s or is in a call on s.
OnlyUser(t, s) ==
  \A u \in Threads \ {t} :
    /\ held[u][s] = {}
    /\ pc[u] \in {"load", "store"} => op[u].set # s

mem_rsClose(t, s) ==
  /\ s # Master /\ s \in held[t][Master]
  /\ OnlyUser(t, s)
  /\ Begin(t, "close", Master, s)
  /\ held' = [held EXCEPT ![t][s] = {}, ![t][Master] = @ \ {s}]

(***************************************************************************)
(* mem_rsetAlloc and mem_rsetFree: load the bitset exclusively, store the  *)
(* changed one if the reservation still stands, otherwise start over.      *)
(***************************************************************************)
Ldrexd(t) ==
  /\ pc[t] = "load"
  /\ seen' = [seen EXCEPT ![t] = bits[op[t].set]]
  /\ excl' = excl \cup {t}
  /\ pc' = [pc EXCEPT ![t] = "store"]
  /\ UNCHANGED <<bits, op, held>>

\* A store into set s ends every reservation of its bitset.
Unreserve(s) == {u \in excl : op[u].set = s}

Stored(t, b) ==
  /\ pc[t] = "store" /\ t \in excl
  /\ bits' = [bits EXCEPT ![op[t].set] = b]
  /\ excl' = excl \ Unreserve(op[t].set)
  /\ seen' = [seen EXCEPT ![t] = {}]

\* STREXD in mem_rsetAlloc.  An empty set yields a null pointer.
AllocFails(t) ==
  /\ op[t].call \in {"open", "alloc"}
  /\ seen[t] = {}
  /\ Stored(t, seen[t])
  /\ pc' = [pc EXCEPT ![t] = "idle"]
  /\ op' = [op EXCEPT ![t] = NoCall]
  /\ UNCHANGED held

\* Mutant: the store does not depend on the reservation.
mem_rsetAlloc_PlainStore(t) ==
  /\ op[t].call = "alloc"
  /\ seen[t] # {}
  /\ pc[t] = "store"
  /\ bits' = [bits EXCEPT ![op[t].set] = seen[t] \ {Lowest(seen[t])}]
  /\ excl' = excl \ Unreserve(op[t].set)
  /\ seen' = [seen EXCEPT ![t] = {}]
  /\ pc' = [pc EXCEPT ![t] = "idle"]
  /\ op' = [op EXCEPT ![t] = NoCall]
  /\ held' = [held EXCEPT ![t][op[t].set] = @ \cup {Lowest(seen[t])}]

\* Mutant: the bit is taken off both words of the bitset at once.
mem_rsetAlloc_Pair(t) ==
  /\ op[t].call = "alloc"
  /\ seen[t] # {}
  /\ LET taken == {i \in seen[t] : i <= Lowest(seen[t]) + W}
     IN  /\ Stored(t, seen[t] \ taken)
         /\ held' = [held EXCEPT ![t][op[t].set] = @ \cup taken]
  /\ pc' = [pc EXCEPT ![t] = "idle"]
  /\ op' = [op EXCEPT ![t] = NoCall]

mem_rsetAlloc(t) ==
  /\ op[t].call = "alloc"
  /\ seen[t] # {}
  /\ Stored(t, seen[t] \ {Lowest(seen[t])})
  /\ pc' = [pc EXCEPT ![t] = "idle"]
  /\ op' = [op EXCEPT ![t] = NoCall]
  /\ held' = [held EXCEPT ![t][op[t].set] = @ \cup {Lowest(seen[t])}]

OpenAlloc(t) ==
  /\ op[t].call = "open"
  /\ seen[t] # {}
  /\ Stored(t, seen[t] \ {Lowest(seen[t])})
  /\ pc' = [pc EXCEPT ![t] = "setup"]
  /\ op' = [op EXCEPT ![t].res = Lowest(seen[t])]
  /\ UNCHANGED held

mem_rsetFree(t) ==
  /\ op[t].call \in {"free", "close"}
  /\ Stored(t, seen[t] \cup {op[t].res})
  /\ IF op[t].call = "close"
     THEN pc' = [pc EXCEPT ![t] = "null"] /\ UNCHANGED op
     ELSE pc' = [pc EXCEPT ![t] = "idle"] /\ op' = [op EXCEPT ![t] = NoCall]
  /\ UNCHANGED held

\* The reservation is gone: STREXD fails and the loop starts over.
Retry(t) ==
  /\ pc[t] = "store" /\ t \notin excl
  /\ pc' = [pc EXCEPT ![t] = "load"]
  /\ seen' = [seen EXCEPT ![t] = {}]
  /\ UNCHANGED <<bits, op, excl, held>>

\* An exception or a context switch on the CPU ends a reservation.
Clrex(t) ==
  /\ t \in excl
  /\ excl' = excl \ {t}
  /\ UNCHANGED <<bits, pc, op, seen, held>>

(***************************************************************************)
(* The rest of mem_rsOpen: plain stores that set up the bitset for n       *)
(* resources, and the return.  The rest of mem_rsClose: *rset = NULL is a  *)
(* plain store to the low word of the bitset just freed.                   *)
(***************************************************************************)
\* Mutant: the shift fills the bitset past its last bit.
mem_rsetSetup_PastEnd(t, n) ==
  /\ pc[t] = "setup"
  /\ bits' = [bits EXCEPT ![op[t].res] = 0 .. N]
  /\ excl' = excl \ Unreserve(op[t].res)
  /\ pc' = [pc EXCEPT ![t] = "opened"]
  /\ seen' = [seen EXCEPT ![t] = 0 .. N]
  /\ UNCHANGED <<op, held>>

mem_rsetSetup(t, n) ==
  /\ pc[t] = "setup"
  /\ bits' = [bits EXCEPT ![op[t].res] = 0 .. n - 1]
  /\ excl' = excl \ Unreserve(op[t].res)
  /\ pc' = [pc EXCEPT ![t] = "opened"]
  /\ seen' = [seen EXCEPT ![t] = 0 .. n - 1]
  /\ UNCHANGED <<op, held>>

Opened(t) ==
  /\ pc[t] = "opened"
  /\ held' = [held EXCEPT ![t][Master] = @ \cup {op[t].res}]
  /\ pc' = [pc EXCEPT ![t] = "idle"]
  /\ op' = [op EXCEPT ![t] = NoCall]
  /\ seen' = [seen EXCEPT ![t] = {}]
  /\ UNCHANGED <<bits, excl>>

CloseNull(t) ==
  /\ pc[t] = "null"
  /\ bits' = [bits EXCEPT ![op[t].res] = @ \ LowWord]
  /\ excl' = excl \ Unreserve(op[t].res)
  /\ pc' = [pc EXCEPT ![t] = "idle"]
  /\ op' = [op EXCEPT ![t] = NoCall]
  /\ UNCHANGED <<seen, held>>

-----------------------------------------------------------------------------
Step(t) ==
  \/ mem_rsOpen(t)
  \/ \E s \in Sets \ {Master} : mem_rsAlloc(t, s) \/ mem_rsClose(t, s)
  \/ \E s \in Sets, i \in Idx : mem_rsFree(t, s, i)
  \/ Ldrexd(t) \/ Retry(t) \/ Clrex(t)
  \/ AllocFails(t) \/ mem_rsetAlloc(t) \/ OpenAlloc(t) \/ mem_rsetFree(t)
  \/ \E n \in 1 .. MaxOpen : mem_rsetSetup(t, n)
  \/ Opened(t) \/ CloseNull(t)

Next == \E t \in Threads : Step(t)

Spec == Init /\ [][Next]_vars

(***************************************************************************)
(* Properties.                                                             *)
(***************************************************************************)
\* Every variable stays in its range and no thread ever opens, frees or works
\* on anything outside the sets.
TypeOK ==
  /\ bits \in [Sets -> SUBSET Idx]
  /\ pc \in [Threads -> {"idle", "load", "store", "setup", "opened", "null"}]
  /\ op \in [Threads -> [call : Calls, set : Sets, res : Idx]]
  /\ seen \in [Threads -> SUBSET Idx]
  /\ excl \subseteq Threads
  /\ held \in [Threads -> [Sets -> SUBSET Idx]]

\* A thread claims what it has, the set it is opening, and what it is giving
\* back until the bit is stored.
Opening(t) == pc[t] \in {"setup", "opened"}

Returning(t) == pc[t] \in {"load", "store"} /\ op[t].call \in {"free", "close"}

Claims(t, s, i) ==
  \/ i \in held[t][s]
  \/ Opening(t) /\ s = Master /\ i = op[t].res
  \/ Returning(t) /\ s = op[t].set /\ i = op[t].res

\* Two threads never have the same resource, nor the same set, however their
\* loops interleave and however often a reservation is lost; and what a thread
\* claims is not marked free.
ResourceHeldOnce ==
  \A t \in Threads, s \in Sets, i \in Idx :
    Claims(t, s, i) => /\ i \notin bits[s]
                       /\ \A u \in Threads \ {t} : ~Claims(u, s, i)

\* Nobody is given the master set: its reservation in mem_rsInitialize relies
\* on mem_rsetAlloc picking the lowest-numbered free resource.
MasterReserved ==
  /\ Master \notin bits[Master]
  /\ \A t \in Threads : ~Claims(t, Master, Master)

\* Where the resources are claimed, as the users see it.
Claimed(t) == {r \in Sets \X Idx : Claims(t, r[1], r[2])}

Users == INSTANCE ResourceClaims
           WITH Resources <- Sets \X Idx, claim <- [t \in Threads |-> Claimed(t)]

\* The retry loops, the setup and the close implement atomic claims.
ImplementsClaims == Users!Spec

\* memResource.c on mem_rsOpen: "A resource-set allocated by this function will
\* initially have all the resources in the free state."
FreshSetAllFree ==
  \A t \in Threads : pc[t] = "opened" => bits[op[t].res] = seen[t]

=============================================================================
