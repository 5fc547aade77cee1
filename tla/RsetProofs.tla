------------------------------ MODULE RsetProofs ------------------------------
(***************************************************************************)
(* Proofs about the resource sets, for every number of threads, of sets    *)
(* and of resources, and every split of the bitset into two words.         *)
(***************************************************************************)
EXTENDS Rset, WellFoundedInduction, TLAPS

\* A reservation that stands belongs to a thread about to store, and the bitset
\* that thread loaded is still the one in memory.
Reserved ==
  \A t \in excl : pc[t] = "store" /\ seen[t] = bits[op[t].set]

\* Which call a thread can be in at each place, and on which set.
CallOK ==
  \A t \in Threads :
    /\ pc[t] \in {"load", "store"} =>
         \/ op[t].call \in {"open", "close"} /\ op[t].set = Master
         \/ /\ op[t].call \in {"alloc", "free"}
            /\ op[t].set # Master
            /\ Open(op[t].set)
    /\ pc[t] = "null" => op[t].res # Master

\* Resources are only had of open sets, and a thread does not have what it is
\* opening or giving back.
UsersOK ==
  \A t \in Threads :
    /\ \A s \in Sets, i \in Idx : (s # Master /\ i \in held[t][s]) => Open(s)
    /\ Opening(t) => op[t].res \notin held[t][Master]
    /\ Returning(t) => op[t].res \notin held[t][op[t].set]

RsetInv == Reserved /\ CallOK /\ UsersOK /\ ResourceHeldOnce /\ MasterReserved

IInv == TypeOK /\ RsetInv

\* The lowest of a nonempty set of positions is one of them and the least.
LEMMA LowestProperties ==
  ASSUME NEW b \in SUBSET Idx, b # {}
  PROVE  /\ Lowest(b) \in b
         /\ \A j \in b : Lowest(b) <= j
<1>1. b \subseteq Nat
  BY NAssumption DEF Idx
<1>2. PICK i \in b : \A j \in b : <<j, i>> \notin OpToRel(<, Nat)
  BY <1>1, NatLessThanWellFounded, WFMin
<1>3. \A j \in b : i <= j
  <2> SUFFICES ASSUME NEW j \in b PROVE i <= j
    OBVIOUS
  <2>1. i \in Nat /\ j \in Nat
    BY <1>1
  <2>2. ~(j < i)
    BY <1>2, <2>1 DEF OpToRel
  <2> QED
    BY <2>1, <2>2
<1> QED
  BY <1>3 DEF Lowest

\* The inductive invariant holds after mem_rsInitialize.
LEMMA InitIInv == Init => IInv
<1> SUFFICES ASSUME Init PROVE IInv
  OBVIOUS
<1>1. Sets \in SUBSET Idx /\ Master \in Sets
  BY NAssumption DEF Sets, Idx, Master
<1>2. Lowest(Sets) = Master
  <2>1. Lowest(Sets) \in Sets /\ Lowest(Sets) <= Master
    BY <1>1, LowestProperties
  <2> QED
    BY <2>1, NAssumption DEF Sets, Idx, Master
<1>3. TypeOK
  BY <1>1, NAssumption DEF Init, TypeOK, Calls, NoCall, Sets, Idx
<1>4. RsetInv
  BY <1>1, <1>2 DEF Init, RsetInv, Reserved, CallOK, UsersOK, ResourceHeldOnce,
     MasterReserved, Claims, Opening, Returning, NoCall
<1> QED
  BY <1>3, <1>4 DEF IInv

\* Every step of every thread preserves the inductive invariant.
LEMMA NextIInv == IInv /\ [Next]_vars => IInv'
<1> SUFFICES ASSUME IInv, [Next]_vars PROVE IInv'
  OBVIOUS
<1> USE DEF IInv, Master
<1>m. Master \in Sets /\ Sets = Idx
  BY NAssumption DEF Sets, Idx
<1>0. ASSUME NEW t \in Threads, Step(t) PROVE IInv'
  <2>1. ASSUME mem_rsOpen(t) PROVE IInv'
    <3>1. TypeOK'
      BY <2>1, NAssumption, LowestProperties DEF TypeOK, mem_rsOpen, Begin, NoCall, Calls, Sets, Idx
    <3>2. Reserved'
      BY <2>1 DEF TypeOK, RsetInv, Reserved, mem_rsOpen, Begin, NoCall
    <3>3. CallOK'
      BY <2>1 DEF TypeOK, RsetInv, Reserved, CallOK, UsersOK, MasterReserved, Claims, Opening, Returning, Open, mem_rsOpen, Begin, NoCall
    <3>4. UsersOK'
      BY <2>1 DEF TypeOK, RsetInv, Reserved, CallOK, UsersOK, Claims, Opening, Returning, Open, mem_rsOpen, Begin, NoCall
    <3>5. ResourceHeldOnce'
      BY <2>1, LowestProperties DEF TypeOK, RsetInv, Reserved, CallOK, UsersOK, ResourceHeldOnce, Claims, Opening, Returning, Open, mem_rsOpen, Begin, NoCall
    <3>6. MasterReserved'
      BY <2>1, LowestProperties DEF TypeOK, RsetInv, Reserved, CallOK, UsersOK, MasterReserved, Claims, Opening, Returning, mem_rsOpen, Begin, NoCall
    <3> QED
      BY <3>1, <3>2, <3>3, <3>4, <3>5, <3>6 DEF RsetInv
  <2>2. ASSUME NEW s \in Sets \ {Master}, mem_rsAlloc(t, s) PROVE IInv'
    <3>1. TypeOK'
      BY <2>2, NAssumption, LowestProperties DEF TypeOK, mem_rsAlloc, Begin, NoCall, Calls, Sets, Idx
    <3>2. Reserved'
      BY <2>2 DEF TypeOK, RsetInv, Reserved, mem_rsAlloc, Begin, NoCall
    <3>3. CallOK'
      BY <2>2 DEF TypeOK, RsetInv, Reserved, CallOK, UsersOK, MasterReserved, Claims, Opening, Returning, Open, mem_rsAlloc, Begin, NoCall
    <3>4. UsersOK'
      BY <2>2 DEF TypeOK, RsetInv, Reserved, CallOK, UsersOK, Claims, Opening, Returning, Open, mem_rsAlloc, Begin, NoCall
    <3>5. ResourceHeldOnce'
      BY <2>2, LowestProperties DEF TypeOK, RsetInv, Reserved, CallOK, UsersOK, ResourceHeldOnce, Claims, Opening, Returning, Open, mem_rsAlloc, Begin, NoCall
    <3>6. MasterReserved'
      BY <2>2, LowestProperties DEF TypeOK, RsetInv, Reserved, CallOK, UsersOK, MasterReserved, Claims, Opening, Returning, mem_rsAlloc, Begin, NoCall
    <3> QED
      BY <3>1, <3>2, <3>3, <3>4, <3>5, <3>6 DEF RsetInv
  <2>3. ASSUME NEW s \in Sets \ {Master}, mem_rsClose(t, s) PROVE IInv'
    <3>0. /\ t \in Threads /\ s \in Sets /\ s # Master /\ s \in held[t][Master]
          /\ Begin(t, "close", Master, s)
          /\ \A u \in Threads : held'[u][s] = {}
          /\ \A u \in Threads : held'[u][Master] = IF u = t THEN held[u][Master] \ {s} ELSE held[u][Master]
          /\ \A u \in Threads, x \in Sets : x # s /\ x # Master => held'[u][x] = held[u][x]
      BY <2>3, <1>m DEF TypeOK, mem_rsClose, OnlyUser
    <3>8. \A u \in Threads : u # t => s \notin held[u][Master]
      BY <3>0, <1>m DEF RsetInv, ResourceHeldOnce, Claims
    <3>9. ASSUME NEW x \in Sets, x # s, Open(x) PROVE Open(x)'
      BY <3>0, <3>9 DEF Open
    <3>1. TypeOK'
      BY <2>3, NAssumption, LowestProperties DEF TypeOK, mem_rsClose, Begin, OnlyUser, NoCall, Calls, Sets, Idx
    <3>2. Reserved'
      BY <2>3 DEF TypeOK, RsetInv, Reserved, mem_rsClose, Begin, OnlyUser, NoCall
    <3>3. CallOK'
      <4>1. \A u \in Threads : u # t => (pc[u] \in {"load", "store"} => op[u].set # s)
        BY <2>3 DEF mem_rsClose, OnlyUser
      <4> QED
        BY <3>0, <3>9, <4>1 DEF TypeOK, RsetInv, CallOK, Begin
    <3>4. UsersOK'
      <4>1. ASSUME NEW u \in Threads, NEW x \in Sets, NEW i \in Idx, x # Master, i \in held'[u][x]
            PROVE  Open(x)'
        BY <3>0, <3>9, <4>1 DEF RsetInv, UsersOK
      <4>2. ASSUME NEW u \in Threads
            PROVE  /\ Opening(u)' => op'[u].res \notin held'[u][Master]
                   /\ Returning(u)' => op'[u].res \notin held'[u][op'[u].set]
        <5>1. CASE u = t
          BY <3>0, <1>m, <5>1 DEF TypeOK, Opening, Returning, Begin
        <5>2. CASE u # t
          <6>1. pc'[u] = pc[u] /\ op'[u] = op[u] /\ op[u].set \in Sets
            BY <3>0, <5>2 DEF TypeOK, Begin
          <6>2. \A x \in Sets : held'[u][x] \subseteq held[u][x]
            BY <3>0, <5>2
          <6> QED
            BY <1>m, <6>1, <6>2 DEF RsetInv, UsersOK, Opening, Returning
        <5> QED
          BY <5>1, <5>2
      <4> QED
        BY <4>1, <4>2 DEF UsersOK
    <3>5. ResourceHeldOnce'
      <4>1. ASSUME NEW u \in Threads, NEW x \in Sets, NEW i \in Idx, Claims(u, x, i)'
            PROVE  Claims(u, x, i)
        BY <3>0, <4>1 DEF TypeOK, Claims, Opening, Returning, Begin
      <4> QED
        BY <3>0, <4>1 DEF RsetInv, ResourceHeldOnce, Begin
    <3>6. MasterReserved'
      BY <3>0, NAssumption DEF TypeOK, RsetInv, MasterReserved, Claims, Opening, Returning, Begin, Sets, Idx
    <3> QED
      BY <3>1, <3>2, <3>3, <3>4, <3>5, <3>6 DEF RsetInv
  <2>4. ASSUME NEW s \in Sets, NEW i \in Idx, mem_rsFree(t, s, i) PROVE IInv'
    <3>1. TypeOK'
      BY <2>4, NAssumption, LowestProperties DEF TypeOK, mem_rsFree, Begin, NoCall, Calls, Sets, Idx
    <3>2. Reserved'
      BY <2>4 DEF TypeOK, RsetInv, Reserved, mem_rsFree, Begin, NoCall
    <3>3. CallOK'
      <4>1. ASSUME NEW x \in Sets, Open(x) PROVE Open(x)'
        BY <2>4, <1>m, <4>1 DEF TypeOK, Open, mem_rsFree
      <4>2. Open(s) /\ s # Master
        BY <2>4 DEF RsetInv, UsersOK, mem_rsFree
      <4> QED
        BY <2>4, <4>1, <4>2 DEF TypeOK, RsetInv, CallOK, mem_rsFree, Begin
    <3>4. UsersOK'
      BY <2>4 DEF TypeOK, RsetInv, Reserved, CallOK, UsersOK, Claims, Opening, Returning, Open, mem_rsFree, Begin, NoCall
    <3>5. ResourceHeldOnce'
      BY <2>4, LowestProperties DEF TypeOK, RsetInv, Reserved, CallOK, UsersOK, ResourceHeldOnce, Claims, Opening, Returning, Open, mem_rsFree, Begin, NoCall
    <3>6. MasterReserved'
      BY <2>4, LowestProperties DEF TypeOK, RsetInv, Reserved, CallOK, UsersOK, MasterReserved, Claims, Opening, Returning, mem_rsFree, Begin, NoCall
    <3> QED
      BY <3>1, <3>2, <3>3, <3>4, <3>5, <3>6 DEF RsetInv
  <2>5. ASSUME Ldrexd(t) PROVE IInv'
    <3>1. TypeOK'
      BY <2>5, NAssumption, LowestProperties DEF TypeOK, Ldrexd, NoCall, Calls, Sets, Idx
    <3>2. Reserved'
      BY <2>5 DEF TypeOK, RsetInv, Reserved, Ldrexd, NoCall
    <3>3. CallOK'
      BY <2>5 DEF TypeOK, RsetInv, Reserved, CallOK, UsersOK, MasterReserved, Claims, Opening, Returning, Open, Ldrexd, NoCall
    <3>4. UsersOK'
      BY <2>5 DEF TypeOK, RsetInv, Reserved, CallOK, UsersOK, Claims, Opening, Returning, Open, Ldrexd, NoCall
    <3>5. ResourceHeldOnce'
      BY <2>5, LowestProperties DEF TypeOK, RsetInv, Reserved, CallOK, UsersOK, ResourceHeldOnce, Claims, Opening, Returning, Open, Ldrexd, NoCall
    <3>6. MasterReserved'
      BY <2>5, LowestProperties DEF TypeOK, RsetInv, Reserved, CallOK, UsersOK, MasterReserved, Claims, Opening, Returning, Ldrexd, NoCall
    <3> QED
      BY <3>1, <3>2, <3>3, <3>4, <3>5, <3>6 DEF RsetInv
  <2>6. ASSUME Retry(t) PROVE IInv'
    <3>1. TypeOK'
      BY <2>6, NAssumption, LowestProperties DEF TypeOK, Retry, NoCall, Calls, Sets, Idx
    <3>2. Reserved'
      BY <2>6 DEF TypeOK, RsetInv, Reserved, Retry, NoCall
    <3>3. CallOK'
      BY <2>6 DEF TypeOK, RsetInv, Reserved, CallOK, UsersOK, MasterReserved, Claims, Opening, Returning, Open, Retry, NoCall
    <3>4. UsersOK'
      BY <2>6 DEF TypeOK, RsetInv, Reserved, CallOK, UsersOK, Claims, Opening, Returning, Open, Retry, NoCall
    <3>5. ResourceHeldOnce'
      BY <2>6, LowestProperties DEF TypeOK, RsetInv, Reserved, CallOK, UsersOK, ResourceHeldOnce, Claims, Opening, Returning, Open, Retry, NoCall
    <3>6. MasterReserved'
      BY <2>6, LowestProperties DEF TypeOK, RsetInv, Reserved, CallOK, UsersOK, MasterReserved, Claims, Opening, Returning, Retry, NoCall
    <3> QED
      BY <3>1, <3>2, <3>3, <3>4, <3>5, <3>6 DEF RsetInv
  <2>7. ASSUME Clrex(t) PROVE IInv'
    <3>1. TypeOK'
      BY <2>7, NAssumption, LowestProperties DEF TypeOK, Clrex, NoCall, Calls, Sets, Idx
    <3>2. Reserved'
      BY <2>7 DEF TypeOK, RsetInv, Reserved, Clrex, NoCall
    <3>3. CallOK'
      BY <2>7 DEF TypeOK, RsetInv, Reserved, CallOK, UsersOK, MasterReserved, Claims, Opening, Returning, Open, Clrex, NoCall
    <3>4. UsersOK'
      BY <2>7 DEF TypeOK, RsetInv, Reserved, CallOK, UsersOK, Claims, Opening, Returning, Open, Clrex, NoCall
    <3>5. ResourceHeldOnce'
      BY <2>7, LowestProperties DEF TypeOK, RsetInv, Reserved, CallOK, UsersOK, ResourceHeldOnce, Claims, Opening, Returning, Open, Clrex, NoCall
    <3>6. MasterReserved'
      BY <2>7, LowestProperties DEF TypeOK, RsetInv, Reserved, CallOK, UsersOK, MasterReserved, Claims, Opening, Returning, Clrex, NoCall
    <3> QED
      BY <3>1, <3>2, <3>3, <3>4, <3>5, <3>6 DEF RsetInv
  <2>8. ASSUME AllocFails(t) PROVE IInv'
    <3>1. TypeOK'
      BY <2>8, NAssumption, LowestProperties DEF TypeOK, AllocFails, Stored, Unreserve, NoCall, Calls, Sets, Idx
    <3>2. Reserved'
      BY <2>8 DEF TypeOK, RsetInv, Reserved, AllocFails, Stored, Unreserve, NoCall
    <3>3. CallOK'
      BY <2>8 DEF TypeOK, RsetInv, Reserved, CallOK, UsersOK, MasterReserved, Claims, Opening, Returning, Open, AllocFails, Stored, Unreserve, NoCall
    <3>4. UsersOK'
      BY <2>8 DEF TypeOK, RsetInv, Reserved, CallOK, UsersOK, Claims, Opening, Returning, Open, AllocFails, Stored, Unreserve, NoCall
    <3>5. ResourceHeldOnce'
      BY <2>8, LowestProperties DEF TypeOK, RsetInv, Reserved, CallOK, UsersOK, ResourceHeldOnce, Claims, Opening, Returning, Open, AllocFails, Stored, Unreserve, NoCall
    <3>6. MasterReserved'
      BY <2>8, LowestProperties DEF TypeOK, RsetInv, Reserved, CallOK, UsersOK, MasterReserved, Claims, Opening, Returning, AllocFails, Stored, Unreserve, NoCall
    <3> QED
      BY <3>1, <3>2, <3>3, <3>4, <3>5, <3>6 DEF RsetInv
  <2>9. ASSUME mem_rsetAlloc(t) PROVE IInv'
    <3> DEFINE low == Lowest(seen[t])
    <3>0. low \in Idx /\ low \in bits[op[t].set] /\ op[t].set \in Sets /\ t \in excl /\ seen[t] = bits[op[t].set] /\ pc[t] = "store"
      <4>1. t \in excl /\ pc[t] = "store" /\ seen[t] \in SUBSET Idx /\ seen[t] # {}
        BY <2>9 DEF TypeOK, mem_rsetAlloc, Stored
      <4> QED
        BY <4>1, LowestProperties DEF TypeOK, RsetInv, Reserved
    <3> HIDE DEF low
    <3>1. TypeOK'
      <4>1. held' = [held EXCEPT ![t][op[t].set] = @ \cup {low}] /\ bits' = [bits EXCEPT ![op[t].set] = seen[t] \ {low}]
        BY <2>9 DEF mem_rsetAlloc, Stored, low
      <4>2. held' \in [Threads -> [Sets -> SUBSET Idx]] /\ bits' \in [Sets -> SUBSET Idx]
        BY <3>0, <4>1 DEF TypeOK
      <4> QED
        BY <2>9, <4>2, NAssumption DEF TypeOK, mem_rsetAlloc, Stored, Unreserve, NoCall, Calls, Sets, Idx
    <3>2. Reserved'
      BY <2>9 DEF TypeOK, RsetInv, Reserved, mem_rsetAlloc, Stored, Unreserve, NoCall
    <3>3. CallOK'
      <4>1. ASSUME NEW x \in Sets, Open(x) PROVE Open(x)'
        BY <2>9, <3>0, <1>m, <4>1 DEF TypeOK, Open, mem_rsetAlloc
      <4> QED
        BY <2>9, <4>1 DEF TypeOK, RsetInv, CallOK, mem_rsetAlloc, Stored, NoCall
    <3>4. UsersOK'
      BY <2>9 DEF TypeOK, RsetInv, Reserved, CallOK, UsersOK, Claims, Opening, Returning, Open, mem_rsetAlloc, Stored, Unreserve, NoCall
    <3>5. ResourceHeldOnce'
      <4>1. ASSUME NEW u \in Threads, NEW x \in Sets, NEW i \in Idx, Claims(u, x, i)'
            PROVE  Claims(u, x, i) \/ (u = t /\ x = op[t].set /\ i = low)
        BY <2>9, <3>0, <4>1 DEF TypeOK, Claims, Opening, Returning, mem_rsetAlloc, low, NoCall
      <4>2. bits' = [bits EXCEPT ![op[t].set] = @ \ {low}]
        BY <2>9, <3>0 DEF mem_rsetAlloc, Stored, low
      <4>3. \A u \in Threads : ~Claims(u, op[t].set, low)
        BY <3>0 DEF RsetInv, ResourceHeldOnce
      <4> QED
        BY <3>0, <4>1, <4>2, <4>3 DEF TypeOK, RsetInv, ResourceHeldOnce
    <3>6. MasterReserved'
      BY <2>9, LowestProperties DEF TypeOK, RsetInv, Reserved, CallOK, UsersOK, MasterReserved, Claims, Opening, Returning, mem_rsetAlloc, Stored, Unreserve, NoCall
    <3> QED
      BY <3>1, <3>2, <3>3, <3>4, <3>5, <3>6 DEF RsetInv
  <2>10. ASSUME OpenAlloc(t) PROVE IInv'
    <3> DEFINE low == Lowest(seen[t])
    <3>0. low \in Idx /\ low \in bits[op[t].set] /\ op[t].set \in Sets /\ t \in excl /\ seen[t] = bits[op[t].set] /\ pc[t] = "store"
      <4>1. t \in excl /\ pc[t] = "store" /\ seen[t] \in SUBSET Idx /\ seen[t] # {}
        BY <2>10 DEF TypeOK, OpenAlloc, Stored
      <4> QED
        BY <4>1, LowestProperties DEF TypeOK, RsetInv, Reserved
    <3> HIDE DEF low
    <3>1. TypeOK'
      <4>1. op' = [op EXCEPT ![t].res = low] /\ bits' = [bits EXCEPT ![op[t].set] = seen[t] \ {low}]
        BY <2>10 DEF OpenAlloc, Stored, low
      <4>2. op' \in [Threads -> [call : Calls, set : Sets, res : Idx]] /\ bits' \in [Sets -> SUBSET Idx]
        BY <3>0, <4>1 DEF TypeOK
      <4> QED
        BY <2>10, <4>2 DEF TypeOK, OpenAlloc, Stored, Unreserve
    <3>2. Reserved'
      BY <2>10 DEF TypeOK, RsetInv, Reserved, OpenAlloc, Stored, Unreserve, NoCall
    <3>3. CallOK'
      BY <2>10 DEF TypeOK, RsetInv, Reserved, CallOK, UsersOK, MasterReserved, Claims, Opening, Returning, Open, OpenAlloc, Stored, Unreserve, NoCall
    <3>4. UsersOK'
      <4>1. op[t].set = Master
        BY <2>10, <3>0 DEF RsetInv, CallOK, OpenAlloc
      <4>2. low \notin held[t][Master]
        BY <3>0, <4>1 DEF RsetInv, ResourceHeldOnce, Claims
      <4>3. op' = [op EXCEPT ![t].res = low]
        BY <2>10 DEF OpenAlloc, low
      <4> QED
        BY <2>10, <4>2, <4>3 DEF TypeOK, RsetInv, UsersOK, Opening, Returning, Open, OpenAlloc
    <3>5. ResourceHeldOnce'
      BY <2>10, LowestProperties DEF TypeOK, RsetInv, Reserved, CallOK, UsersOK, ResourceHeldOnce, Claims, Opening, Returning, Open, OpenAlloc, Stored, Unreserve, NoCall
    <3>6. MasterReserved'
      BY <2>10, LowestProperties DEF TypeOK, RsetInv, Reserved, CallOK, UsersOK, MasterReserved, Claims, Opening, Returning, OpenAlloc, Stored, Unreserve, NoCall
    <3> QED
      BY <3>1, <3>2, <3>3, <3>4, <3>5, <3>6 DEF RsetInv
  <2>11. ASSUME mem_rsetFree(t) PROVE IInv'
    <3>1. TypeOK'
      <4>1. bits' \in [Sets -> SUBSET Idx] /\ seen' \in [Threads -> SUBSET Idx] /\ excl' \subseteq Threads
        BY <2>11 DEF TypeOK, mem_rsetFree, Stored, Unreserve
      <4>2. op' \in [Threads -> [call : Calls, set : Sets, res : Idx]]
        <5>1. op' = op \/ op' = [op EXCEPT ![t] = NoCall]
          BY <2>11 DEF mem_rsetFree
        <5>2. NoCall \in [call : Calls, set : Sets, res : Idx]
          BY NAssumption DEF NoCall, Calls, Sets, Idx
        <5> QED
          BY <5>1, <5>2 DEF TypeOK
      <4>3. pc' \in [Threads -> {"idle", "load", "store", "setup", "opened", "null"}]
        BY <2>11 DEF TypeOK, mem_rsetFree
      <4> QED
        BY <2>11, <4>1, <4>2, <4>3 DEF TypeOK, mem_rsetFree
    <3>2. Reserved'
      BY <2>11 DEF TypeOK, RsetInv, Reserved, mem_rsetFree, Stored, Unreserve, NoCall
    <3>3. CallOK'
      BY <2>11 DEF TypeOK, RsetInv, Reserved, CallOK, UsersOK, MasterReserved, Claims, Opening, Returning, Open, mem_rsetFree, Stored, Unreserve, NoCall
    <3>4. UsersOK'
      BY <2>11 DEF TypeOK, RsetInv, Reserved, CallOK, UsersOK, Claims, Opening, Returning, Open, mem_rsetFree, Stored, Unreserve, NoCall
    <3>5. ResourceHeldOnce'
      <4>1. /\ op[t].set \in Sets /\ op[t].res \in Idx
            /\ Claims(t, op[t].set, op[t].res)
            /\ op[t].res \notin held[t][op[t].set]
        BY <2>11 DEF TypeOK, RsetInv, UsersOK, CallOK, Claims, Opening, Returning, mem_rsetFree, Stored
      <4>2. bits' = [bits EXCEPT ![op[t].set] = @ \cup {op[t].res}]
        BY <2>11 DEF TypeOK, RsetInv, Reserved, mem_rsetFree, Stored
      <4>3. ASSUME NEW u \in Threads, NEW x \in Sets, NEW i \in Idx, Claims(u, x, i)'
            PROVE  Claims(u, x, i) /\ ~(u = t /\ x = op[t].set /\ i = op[t].res)
        <5>1. CASE u = t
          BY <2>11, <4>1, <4>3, <5>1 DEF TypeOK, Claims, Opening, Returning, mem_rsetFree, NoCall
        <5>2. CASE u # t
          BY <2>11, <4>3, <5>2 DEF TypeOK, Claims, Opening, Returning, mem_rsetFree, NoCall
        <5> QED
          BY <5>1, <5>2
      <4>4. ASSUME NEW u \in Threads, NEW x \in Sets, NEW i \in Idx, Claims(u, x, i)'
            PROVE  /\ i \notin bits'[x]
                   /\ \A v \in Threads \ {u} : ~Claims(v, x, i)'
        <5>1. Claims(u, x, i) /\ ~(x = op[t].set /\ i = op[t].res)
          BY <4>1, <4>3, <4>4 DEF RsetInv, ResourceHeldOnce
        <5>2. i \notin bits[x] /\ \A v \in Threads \ {u} : ~Claims(v, x, i)
          BY <5>1 DEF RsetInv, ResourceHeldOnce
        <5>3. i \notin bits'[x]
          BY <4>2, <5>1, <5>2 DEF TypeOK
        <5> QED
          BY <4>3, <5>2, <5>3
      <4> QED
        BY <4>4 DEF ResourceHeldOnce
    <3>6. MasterReserved'
      <4>1. Claims(t, op[t].set, op[t].res) /\ op[t].set \in Sets /\ op[t].res \in Idx
        BY <2>11 DEF TypeOK, RsetInv, CallOK, Claims, Returning, mem_rsetFree, Stored
      <4>2. ~(op[t].set = Master /\ op[t].res = Master)
        BY <4>1 DEF RsetInv, MasterReserved
      <4>3. \A u \in Threads : Claims(u, Master, Master)' => Claims(u, Master, Master)
        BY <2>11 DEF TypeOK, Claims, Opening, Returning, mem_rsetFree, NoCall
      <4>4. Master \notin bits'[Master]
        BY <2>11, <4>2 DEF TypeOK, RsetInv, Reserved, MasterReserved, mem_rsetFree, Stored
      <4> QED
        BY <4>3, <4>4 DEF RsetInv, MasterReserved
    <3> QED
      BY <3>1, <3>2, <3>3, <3>4, <3>5, <3>6 DEF RsetInv
  <2>12. ASSUME NEW n \in 1 .. MaxOpen, mem_rsetSetup(t, n) PROVE IInv'
    <3>1. TypeOK'
      <4>1. 0 .. n - 1 \in SUBSET Idx
        BY NAssumption, MaxOpenAssumption DEF Idx
      <4>2. bits' \in [Sets -> SUBSET Idx] /\ seen' \in [Threads -> SUBSET Idx] /\ excl' \subseteq Threads
        BY <2>12, <4>1 DEF TypeOK, mem_rsetSetup, Unreserve
      <4> QED
        BY <2>12, <4>2 DEF TypeOK, mem_rsetSetup
    <3>2. Reserved'
      BY <2>12 DEF TypeOK, RsetInv, Reserved, mem_rsetSetup, Unreserve, NoCall
    <3>3. CallOK'
      BY <2>12 DEF TypeOK, RsetInv, Reserved, CallOK, UsersOK, MasterReserved, Claims, Opening, Returning, Open, mem_rsetSetup, Unreserve, NoCall
    <3>4. UsersOK'
      BY <2>12 DEF TypeOK, RsetInv, Reserved, CallOK, UsersOK, Claims, Opening, Returning, Open, mem_rsetSetup, Unreserve, NoCall
    <3>5. ResourceHeldOnce'
      <4> DEFINE o == op[t].res
      <4>1. Claims(t, Master, o) /\ o \in Sets /\ o # Master /\ o \notin held[t][Master]
        BY <2>12 DEF TypeOK, RsetInv, UsersOK, MasterReserved, Claims, Opening, mem_rsetSetup, Sets
      <4>2. ~Open(o)
        BY <4>1, <1>m DEF RsetInv, ResourceHeldOnce, Claims, Open
      <4>3. ASSUME NEW u \in Threads, NEW i \in Idx PROVE ~Claims(u, o, i)
        BY <4>1, <4>2 DEF RsetInv, UsersOK, CallOK, Claims, Returning
      <4>4. \A u \in Threads, x \in Sets, i \in Idx : Claims(u, x, i)' <=> Claims(u, x, i)
        BY <2>12 DEF TypeOK, Claims, Opening, Returning, mem_rsetSetup
      <4>5. \A x \in Sets : x # o => bits'[x] = bits[x]
        BY <2>12 DEF TypeOK, mem_rsetSetup
      <4> QED
        BY <4>3, <4>4, <4>5 DEF RsetInv, ResourceHeldOnce
    <3>6. MasterReserved'
      BY <2>12, LowestProperties DEF TypeOK, RsetInv, Reserved, CallOK, UsersOK, MasterReserved, Claims, Opening, Returning, mem_rsetSetup, Unreserve, NoCall
    <3> QED
      BY <3>1, <3>2, <3>3, <3>4, <3>5, <3>6 DEF RsetInv
  <2>13. ASSUME Opened(t) PROVE IInv'
    <3>1. TypeOK'
      BY <2>13, NAssumption, LowestProperties DEF TypeOK, Opened, NoCall, Calls, Sets, Idx
    <3>2. Reserved'
      BY <2>13 DEF TypeOK, RsetInv, Reserved, Opened, NoCall
    <3>3. CallOK'
      <4>1. ASSUME NEW x \in Sets, Open(x) PROVE Open(x)'
        BY <2>13, <1>m, <4>1 DEF TypeOK, Open, Opened
      <4> QED
        BY <2>13, <4>1 DEF TypeOK, RsetInv, CallOK, Opened, NoCall
    <3>4. UsersOK'
      BY <2>13 DEF TypeOK, RsetInv, Reserved, CallOK, UsersOK, Claims, Opening, Returning, Open, Opened, NoCall
    <3>5. ResourceHeldOnce'
      BY <2>13, LowestProperties DEF TypeOK, RsetInv, Reserved, CallOK, UsersOK, ResourceHeldOnce, Claims, Opening, Returning, Open, Opened, NoCall
    <3>6. MasterReserved'
      BY <2>13, LowestProperties DEF TypeOK, RsetInv, Reserved, CallOK, UsersOK, MasterReserved, Claims, Opening, Returning, Opened, NoCall
    <3> QED
      BY <3>1, <3>2, <3>3, <3>4, <3>5, <3>6 DEF RsetInv
  <2>14. ASSUME CloseNull(t) PROVE IInv'
    <3>1. TypeOK'
      BY <2>14, NAssumption, LowestProperties DEF TypeOK, CloseNull, Unreserve, NoCall, Calls, Sets, Idx
    <3>2. Reserved'
      BY <2>14 DEF TypeOK, RsetInv, Reserved, CloseNull, Unreserve, NoCall
    <3>3. CallOK'
      BY <2>14 DEF TypeOK, RsetInv, Reserved, CallOK, UsersOK, MasterReserved, Claims, Opening, Returning, Open, CloseNull, Unreserve, NoCall
    <3>4. UsersOK'
      BY <2>14 DEF TypeOK, RsetInv, Reserved, CallOK, UsersOK, Claims, Opening, Returning, Open, CloseNull, Unreserve, NoCall
    <3>5. ResourceHeldOnce'
      BY <2>14, LowestProperties DEF TypeOK, RsetInv, Reserved, CallOK, UsersOK, ResourceHeldOnce, Claims, Opening, Returning, Open, CloseNull, Unreserve, NoCall
    <3>6. MasterReserved'
      BY <2>14, LowestProperties DEF TypeOK, RsetInv, Reserved, CallOK, UsersOK, MasterReserved, Claims, Opening, Returning, CloseNull, Unreserve, NoCall
    <3> QED
      BY <3>1, <3>2, <3>3, <3>4, <3>5, <3>6 DEF RsetInv
  <2> QED
    BY <1>0, <2>1, <2>2, <2>3, <2>4, <2>5, <2>6, <2>7, <2>8, <2>9, <2>10, <2>11, <2>12, <2>13, <2>14 DEF Step
<1>1. CASE UNCHANGED vars
  BY <1>1 DEF vars, TypeOK, RsetInv, Reserved, CallOK, UsersOK, ResourceHeldOnce,
     MasterReserved, Claims, Opening, Returning, Open
<1> QED
  BY <1>0, <1>1 DEF Next

\* The inductive invariant holds in every reachable state.
LEMMA Invariance == Spec => []IInv
<1> QED
  BY InitIInv, NextIInv, PTL DEF Spec

(***************************************************************************)
(* Type correctness: no call ever names a set or a position out of range.  *)
(***************************************************************************)
THEOREM TypeCorrect == Spec => []TypeOK
<1>1. IInv => TypeOK
  BY DEF IInv
<1> QED
  BY <1>1, Invariance, PTL

(***************************************************************************)
(* The retry loops of mem_rsetAlloc and mem_rsetFree never give a resource *)
(* or a set to two threads, for any number of threads, sets and resources. *)
(***************************************************************************)
THEOREM HeldOnce == Spec => []ResourceHeldOnce
<1>1. IInv => ResourceHeldOnce
  BY DEF IInv, RsetInv
<1> QED
  BY <1>1, Invariance, PTL

(***************************************************************************)
(* The master set stays with the library after mem_rsInitialize.           *)
(***************************************************************************)
THEOREM MasterKept == Spec => []MasterReserved
<1>1. IInv => MasterReserved
  BY DEF IInv, RsetInv
<1> QED
  BY <1>1, Invariance, PTL

-----------------------------------------------------------------------------
\* A step that adds no claim, and takes claims from one thread at most, is a
\* release or changes nothing.
LEMMA Releases ==
  ASSUME NEW t \in Threads,
         \A u \in Threads, s \in Sets, i \in Idx :
           IF u = t THEN Claims(u, s, i)' => Claims(u, s, i)
                    ELSE Claims(u, s, i)' <=> Claims(u, s, i)
  PROVE  Users!Next
<1>1. \A u \in Threads : u # t => Claimed(u)' = Claimed(u)
  BY DEF Claimed
<1>2. Claimed(t)' \subseteq Claimed(t)
  BY DEF Claimed
<1>3. PICK R \in SUBSET Claimed(t) : Claimed(t)' = Claimed(t) \ R
  <2> WITNESS Claimed(t) \ Claimed(t)' \in SUBSET Claimed(t)
  <2> QED
    BY <1>2
<1>4. Users!Release(t, R)
  BY <1>1, <1>3 DEF Users!Release
<1> QED
  BY <1>3, <1>4 DEF Users!Next

\* A step that adds one claim nobody had is an acquisition.
LEMMA Acquires ==
  ASSUME NEW t \in Threads, NEW x \in Sets, NEW j \in Idx,
         \A u \in Threads : ~Claims(u, x, j),
         \A u \in Threads, s \in Sets, i \in Idx :
           Claims(u, s, i)' <=> (Claims(u, s, i) \/ (u = t /\ s = x /\ i = j))
  PROVE  Users!Next
<1>1. \A u \in Threads : u # t => Claimed(u)' = Claimed(u)
  BY DEF Claimed
<1>2. Claimed(t)' = Claimed(t) \cup {<<x, j>>}
  BY DEF Claimed
<1>3. \A u \in Threads : <<x, j>> \notin Claimed(u)
  BY DEF Claimed
<1>4. Users!Acquire(t, <<x, j>>) /\ <<x, j>> \in Sets \X Idx
  BY <1>1, <1>2, <1>3 DEF Users!Acquire
<1> QED
  BY <1>4 DEF Users!Next

\* Every step of a thread is a step of the abstract claims: the successful STREXD
\* of an allocation acquires, every other step releases or changes nothing.
LEMMA StepClaims ==
  ASSUME IInv, NEW t \in Threads, Step(t)
  PROVE  Users!Next
<1> DEFINE Kept == \A u \in Threads, s \in Sets, i \in Idx :
                     IF u = t THEN Claims(u, s, i)' => Claims(u, s, i)
                              ELSE Claims(u, s, i)' <=> Claims(u, s, i)
<1>m. Master \in Sets /\ Sets = Idx
  BY NAssumption DEF Master, Sets, Idx
<1>1. ASSUME mem_rsOpen(t) PROVE Kept
  BY <1>1, <1>m DEF IInv, TypeOK, RsetInv, CallOK, Claims, Opening, Returning, mem_rsOpen, Begin, NoCall
<1>2. ASSUME NEW s \in Sets \ {Master}, mem_rsAlloc(t, s) PROVE Kept
  BY <1>2, <1>m DEF IInv, TypeOK, RsetInv, CallOK, Claims, Opening, Returning, mem_rsAlloc, Begin, NoCall
<1>3. ASSUME NEW s \in Sets \ {Master}, mem_rsClose(t, s) PROVE Kept
  BY <1>3, <1>m DEF IInv, TypeOK, RsetInv, CallOK, Claims, Opening, Returning, mem_rsClose, Begin, OnlyUser
<1>4. ASSUME NEW s \in Sets, NEW i \in Idx, mem_rsFree(t, s, i) PROVE Kept
  BY <1>4, <1>m DEF IInv, TypeOK, RsetInv, CallOK, Claims, Opening, Returning, mem_rsFree, Begin
<1>5. ASSUME Ldrexd(t) PROVE Kept
  BY <1>5, <1>m DEF IInv, TypeOK, RsetInv, CallOK, Claims, Opening, Returning, Ldrexd
<1>6. ASSUME Retry(t) PROVE Kept
  BY <1>6, <1>m DEF IInv, TypeOK, RsetInv, CallOK, Claims, Opening, Returning, Retry
<1>7. ASSUME Clrex(t) PROVE Kept
  BY <1>7, <1>m DEF IInv, TypeOK, RsetInv, CallOK, Claims, Opening, Returning, Clrex
<1>8. ASSUME AllocFails(t) PROVE Kept
  BY <1>8, <1>m DEF IInv, TypeOK, RsetInv, CallOK, Claims, Opening, Returning, AllocFails, NoCall
<1>9. ASSUME mem_rsetFree(t) PROVE Kept
  BY <1>9, <1>m DEF IInv, TypeOK, RsetInv, CallOK, Claims, Opening, Returning, mem_rsetFree, NoCall
<1>10. ASSUME NEW n \in 1 .. MaxOpen, mem_rsetSetup(t, n) PROVE Kept
  BY <1>10, <1>m DEF IInv, TypeOK, RsetInv, CallOK, Claims, Opening, Returning, mem_rsetSetup
<1>11. ASSUME Opened(t) PROVE Kept
  BY <1>11, <1>m DEF IInv, TypeOK, RsetInv, CallOK, Claims, Opening, Returning, Opened, NoCall
<1>12. ASSUME CloseNull(t) PROVE Kept
  BY <1>12, <1>m DEF IInv, TypeOK, RsetInv, CallOK, Claims, Opening, Returning, CloseNull, NoCall
<1>13. ASSUME mem_rsetAlloc(t) PROVE Users!Next
  <2> DEFINE x == op[t].set
             j == Lowest(seen[t])
  <2>1. x \in Sets /\ j \in Idx /\ j \in bits[x]
    <3>1. seen[t] = bits[x] /\ seen[t] \in SUBSET Idx /\ seen[t] # {}
      BY <1>13 DEF IInv, TypeOK, RsetInv, Reserved, mem_rsetAlloc, Stored
    <3> QED
      BY <3>1, LowestProperties DEF IInv, TypeOK
  <2>2. \A u \in Threads : ~Claims(u, x, j)
    BY <2>1 DEF IInv, RsetInv, ResourceHeldOnce
  <2> HIDE DEF j
  <2>3. \A u \in Threads, s \in Sets, i \in Idx :
          Claims(u, s, i)' <=> (Claims(u, s, i) \/ (u = t /\ s = x /\ i = j))
    BY <1>13, <2>1 DEF IInv, TypeOK, RsetInv, CallOK, Claims, Opening, Returning, mem_rsetAlloc, Stored, NoCall, j
  <2> QED
    BY <2>1, <2>2, <2>3, Acquires
<1>14. ASSUME OpenAlloc(t) PROVE Users!Next
  <2> DEFINE x == op[t].set
             j == Lowest(seen[t])
  <2>1. x \in Sets /\ j \in Idx /\ j \in bits[x]
    <3>1. seen[t] = bits[x] /\ seen[t] \in SUBSET Idx /\ seen[t] # {}
      BY <1>14 DEF IInv, TypeOK, RsetInv, Reserved, OpenAlloc, Stored
    <3> QED
      BY <3>1, LowestProperties DEF IInv, TypeOK
  <2>2. \A u \in Threads : ~Claims(u, x, j)
    BY <2>1 DEF IInv, RsetInv, ResourceHeldOnce
  <2> HIDE DEF j
  <2>3. \A u \in Threads, s \in Sets, i \in Idx :
          Claims(u, s, i)' <=> (Claims(u, s, i) \/ (u = t /\ s = x /\ i = j))
    BY <1>14, <2>1 DEF IInv, TypeOK, RsetInv, CallOK, Claims, Opening, Returning, OpenAlloc, Stored, NoCall, j
  <2> QED
    BY <2>1, <2>2, <2>3, Acquires
<1> HIDE DEF Kept
<1>20. Kept => Users!Next
  BY Releases DEF Kept
<1> QED
  BY <1>1, <1>2, <1>3, <1>4, <1>5, <1>6, <1>7, <1>8, <1>9, <1>10, <1>11, <1>12, <1>13, <1>14, <1>20 DEF Step

(***************************************************************************)
(* The resource sets implement atomic claims: every alloc, free, open and  *)
(* close takes effect at one instant, that of its successful STREXD.       *)
(***************************************************************************)
THEOREM SetsImplementClaims == Spec => ImplementsClaims
<1>1. Init => Users!Init
  BY DEF Init, Users!Init, Claimed, Claims, Opening, Returning
<1>2. IInv /\ [Next]_vars => [Users!Next]_([t \in Threads |-> Claimed(t)])
  <2> SUFFICES ASSUME IInv, [Next]_vars
               PROVE  [Users!Next]_([t \in Threads |-> Claimed(t)])
    OBVIOUS
  <2>1. CASE Next
    BY <2>1, StepClaims DEF Next
  <2>2. CASE UNCHANGED vars
    BY <2>2 DEF vars, Claimed, Claims, Opening, Returning
  <2> QED
    BY <2>1, <2>2
<1> QED
  BY <1>1, <1>2, Invariance, PTL DEF Spec, ImplementsClaims, Users!Spec

=============================================================================
