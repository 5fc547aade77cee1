----------------------------- MODULE EthRxProofs -----------------------------
(***************************************************************************)
(* Theorems about EthRx for every size of the ring, every set of mbufs and *)
(* either value of RTEMS' flags.                                           *)
(***************************************************************************)
EXTENDS EthRx, FiniteSetTheorems, TLAPS

\* The mbuf of the j-th BD from hwHead on.
At(j) == table[Ahead(hwHead, j)]

\* The controller has filled the first k of its BDs and goes on with the next.
\* Their frames came one after the other and after the last one handed over.
Filled(k) ==
  /\ pos = Ahead(hwHead, k)
  /\ \A j \in 0 .. hwCnt - 1 : Ahead(hwHead, j) \in new <=> j < k
  /\ \A a, b \in 0 .. k - 1 : a < b => frame[At(a)] < frame[At(b)]
  /\ \A a \in 0 .. k - 1 : last < frame[At(a)] /\ frame[At(a)] <= arrived

\* A freed BD keeps its new bit; before the interface is started none has one.
FreeBds ==
  IF pc = "init" THEN new = {} ELSE \A j \in hwCnt .. N - 1 : Ahead(hwHead, j) \in new

\* A refill ends with free BDs only when an allocation failed.
Refilled ==
  /\ pc = "init" => ~starved
  /\ ~starved => IF pc \in {"init", "refill"} THEN todo = freeCnt ELSE freeCnt = 0

\* An mbuf is in one place, by positions.
Placed ==
  /\ pool \cap stack = {} /\ pool \subseteq Mbufs /\ stack \subseteq Mbufs
  /\ \A j \in 0 .. hwCnt - 1 : At(j) \in Mbufs \ (pool \cup stack)
  /\ \A a, b \in 0 .. hwCnt - 1 : At(a) = At(b) => a = b

Running ==
  /\ pc \in {"init", "input", "refill", "wait"}
  /\ last \in Nat /\ last <= arrived
  /\ FreeBds /\ Refilled /\ Placed
  /\ \E k \in 0 .. hwCnt : Filled(k)

IInv == TypeOK /\ ScanStaysInRing /\ (~Overran => Running)

-----------------------------------------------------------------------------
LEMMA AheadIs ==
  ASSUME NEW i \in Bds, NEW n \in 0 .. N
  PROVE  /\ Ahead(i, n) = IF i + n < N THEN i + n ELSE i + n - N
         /\ Ahead(i, n) \in Bds
<1>1. N \in Nat \ {0} /\ i \in 0 .. N - 1 /\ i \in Int /\ n \in Int
  BY NAssumption DEF Bds
<1>2. CASE i + n < N
  <2>1. (i + n) % N = i + n
    BY <1>1, <1>2
  <2> QED
    BY <1>1, <1>2, <2>1 DEF Ahead, Bds
<1>3. CASE i + n >= N
  <2>1. (i + n) % N = i + n - N
    BY <1>1, <1>3
  <2> QED
    BY <1>1, <1>3, <2>1 DEF Ahead, Bds
<1> QED
  BY <1>1, <1>2, <1>3

LEMMA AheadInjective ==
  ASSUME NEW i \in Bds, NEW a \in 0 .. N - 1, NEW b \in 0 .. N - 1, Ahead(i, a) = Ahead(i, b)
  PROVE  a = b
<1>1. /\ Ahead(i, a) = IF i + a < N THEN i + a ELSE i + a - N
      /\ Ahead(i, b) = IF i + b < N THEN i + b ELSE i + b - N
  BY AheadIs, NAssumption
<1>2. N \in Nat \ {0} /\ i \in 0 .. N - 1
  BY NAssumption DEF Bds
<1>3. (IF i + a < N THEN i + a ELSE i + a - N) = (IF i + b < N THEN i + b ELSE i + b - N)
  BY <1>1
<1>4. CASE i + a < N
  BY <1>2, <1>3, <1>4
<1>5. CASE ~(i + a < N)
  BY <1>2, <1>3, <1>5
<1> QED
  BY <1>4, <1>5

LEMMA AheadOnto ==
  ASSUME NEW i \in Bds, NEW x \in Bds
  PROVE  \E j \in 0 .. N - 1 : x = Ahead(i, j)
<1> DEFINE j == IF x >= i THEN x - i ELSE x - i + N
<1>1. j \in 0 .. N - 1
  BY NAssumption DEF Bds
<1>2. Ahead(i, j) = IF i + j < N THEN i + j ELSE i + j - N
  BY <1>1, AheadIs, NAssumption
<1>3. x = Ahead(i, j)
  BY <1>2, NAssumption DEF Bds
<1> QED
  BY <1>1, <1>3

LEMMA AheadTwice ==
  ASSUME NEW i \in Bds, NEW a \in 0 .. N, NEW b \in 0 .. N
  PROVE  /\ Ahead(Ahead(i, a), b) = IF a + b <= N THEN Ahead(i, a + b) ELSE Ahead(i, a + b - N)
         /\ Ahead(i, a) \in Bds /\ Ahead(i, 0) = i /\ Ahead(i, N) = i
<1>1. Ahead(i, a) \in Bds /\ Ahead(i, a) = IF i + a < N THEN i + a ELSE i + a - N
  BY AheadIs
<1>2. Ahead(i, 0) = i /\ Ahead(i, N) = i
  <2>1. 0 \in 0 .. N /\ N \in 0 .. N
    BY NAssumption
  <2>2. /\ Ahead(i, 0) = IF i + 0 < N THEN i + 0 ELSE i + 0 - N
        /\ Ahead(i, N) = IF i + N < N THEN i + N ELSE i + N - N
    BY <2>1, AheadIs
  <2> QED
    BY <2>2, NAssumption DEF Bds
<1> DEFINE c == Ahead(i, a)
           d == Ahead(c, b)
<1>3. c \in Bds /\ c = IF i + a < N THEN i + a ELSE i + a - N
  BY <1>1
<1> HIDE DEF c
<1>4. d \in Bds /\ d = IF c + b < N THEN c + b ELSE c + b - N
  BY <1>3, AheadIs
<1> HIDE DEF d
<1>5. CASE a + b <= N
  <2>1. Ahead(i, a + b) = IF i + (a + b) < N THEN i + (a + b) ELSE i + (a + b) - N
    BY <1>5, AheadIs, NAssumption
  <2> DEFINE e == Ahead(i, a + b)
  <2>2. e = IF i + (a + b) < N THEN i + (a + b) ELSE i + (a + b) - N
    BY <2>1
  <2> HIDE DEF e
  <2>3. d = e
    BY <1>3, <1>4, <1>5, <2>2, NAssumption DEF Bds
  <2> QED
    BY <1>1, <1>5, <1>2, <2>3 DEF c, d, e
<1>6. CASE a + b > N
  <2>1. a + b - N \in 0 .. N
    BY <1>6, NAssumption
  <2>2. Ahead(i, a + b - N) = IF i + (a + b - N) < N THEN i + (a + b - N) ELSE i + (a + b - N) - N
    BY <2>1, AheadIs
  <2> DEFINE e == Ahead(i, a + b - N)
  <2>3. e = IF i + (a + b - N) < N THEN i + (a + b - N) ELSE i + (a + b - N) - N
    BY <2>2
  <2> HIDE DEF e
  <2>4. d = e
    BY <1>3, <1>4, <1>6, <2>3, NAssumption DEF Bds
  <2>5. ~(a + b <= N)
    BY <1>6, NAssumption
  <2> QED
    BY <1>1, <1>2, <2>4, <2>5 DEF c, d, e
<1> QED
  BY <1>5, <1>6, NAssumption

\* What the invariant says while no scan has gone too far.
LEMMA InRange ==
  ASSUME IInv, ~Overran
  PROVE  /\ freeHead \in Bds /\ hwHead \in Bds /\ pos \in Bds
         /\ freeCnt \in 0 .. N /\ hwCnt \in 0 .. N
         /\ freeCnt + hwCnt = N /\ freeHead = Ahead(hwHead, hwCnt)
         /\ new \subseteq Bds
         /\ table \in [Bds -> Mbufs \cup {NONE}]
         /\ frame \in [Mbufs -> 0 .. MaxFrames]
         /\ todo \in 0 .. freeCnt
         /\ arrived \in 0 .. MaxFrames
         /\ N \in Nat \ {0} /\ MaxFrames \in Nat
         /\ Running
BY NAssumption, MaxFramesAssumption DEF IInv, TypeOK

\* The scan finds the BDs filled, or it goes round the whole ring.
LEMMA Scan ==
  ASSUME IInv, ~Overran, pc # "init", NEW k \in 0 .. hwCnt, Filled(k)
  PROVE  LET n == XEmacPs_BdRingFromHwRx
         IN  n = k \/ (n = N /\ hwCnt < N)
<1> DEFINE S == {j \in 0 .. N - 1 : From(hwHead, j + 1) \subseteq new}
<1>1. /\ hwHead \in Bds /\ hwCnt \in 0 .. N /\ N \in Nat \ {0} /\ FreeBds
  BY InRange DEF Running
<1>2. \A j \in 0 .. N - 1 : From(hwHead, j + 1) = {Ahead(hwHead, x) : x \in 0 .. j}
  BY <1>1 DEF From
<1>3. \A c \in 0 .. N : Cardinality(0 .. c - 1) = c
  BY <1>1, FS_Interval
<1>4. CASE hwCnt = 0
  BY <1>4 DEF XEmacPs_BdRingFromHwRx
<1>5. CASE hwCnt # 0 /\ k < hwCnt
  <2>1. /\ \A j \in 0 .. k - 1 : Ahead(hwHead, j) \in new
        /\ Ahead(hwHead, k) \notin new
    BY <1>1, <1>5 DEF Filled
  <2>2. ASSUME NEW j \in 0 .. N - 1
        PROVE  j \in S <=> j < k
    <3>1. CASE j < k
      BY <1>2, <2>1, <3>1
    <3>2. CASE j >= k
      <4>1. Ahead(hwHead, k) \in From(hwHead, j + 1)
        BY <1>1, <1>2, <3>2
      <4> QED
        BY <2>1, <3>2, <4>1
    <3> QED
      BY <1>1, <3>1, <3>2
  <2>3. S = 0 .. k - 1
    BY <1>1, <2>2
  <2>4. Cardinality(S) = k
    <3>1. Cardinality(S) = Cardinality(0 .. k - 1)
      BY <2>3
    <3> QED
      BY <1>1, <1>3, <3>1
  <2>5. XEmacPs_BdRingFromHwRx = Cardinality(S)
    BY <1>5 DEF XEmacPs_BdRingFromHwRx
  <2> QED
    BY <2>4, <2>5
<1>6. CASE hwCnt # 0 /\ k = hwCnt
  <2>1. \A j \in 0 .. N - 1 : Ahead(hwHead, j) \in new
    BY <1>1, <1>6 DEF Filled, FreeBds
  <2>2. S = 0 .. N - 1
    <3>1. \A j \in 0 .. N - 1 : From(hwHead, j + 1) \subseteq new
      <4> SUFFICES ASSUME NEW j \in 0 .. N - 1, NEW x \in 0 .. j
                   PROVE  Ahead(hwHead, x) \in new
        BY <1>2
      <4> QED
        BY <1>1, <2>1
    <3> QED
      BY <3>1
  <2>3. XEmacPs_BdRingFromHwRx = N
    <3>1. Cardinality(S) = N
      <4>1. Cardinality(S) = Cardinality(0 .. N - 1)
        BY <2>2
      <4> QED
        BY <1>1, <1>3, <4>1
    <3>2. XEmacPs_BdRingFromHwRx = Cardinality(S)
      BY <1>6 DEF XEmacPs_BdRingFromHwRx
    <3> QED
      BY <3>1, <3>2
  <2> QED
    BY <1>1, <1>6, <2>3
<1> QED
  BY <1>1, <1>4, <1>5, <1>6

-----------------------------------------------------------------------------
(***************************************************************************)
(* Every step keeps the invariant.                                         *)
(***************************************************************************)
\* A frame arrives and a BD is there for it.
LEMMA RecvIInv ==
  ASSUME IInv, eth_emacps_recv_handler
  PROVE  IInv'
<1>1. /\ pc \notin {"init", "lost"} /\ arrived < MaxFrames /\ pos \notin new
      /\ arrived' = arrived + 1 /\ frame' = [frame EXCEPT ![table[pos]] = arrived + 1]
      /\ new' = new \cup {pos} /\ pos' = Ahead(pos, 1)
      /\ UNCHANGED <<ringVars, table, pool, stack, pc, wait, todo, last, starved>>
  BY DEF eth_emacps_recv_handler
<1>2. ~Overran /\ ~Overran'
  BY <1>1 DEF Overran
<1>3. /\ freeHead \in Bds /\ hwHead \in Bds /\ pos \in Bds
      /\ freeCnt \in 0 .. N /\ hwCnt \in 0 .. N
      /\ new \subseteq Bds /\ table \in [Bds -> Mbufs \cup {NONE}]
      /\ frame \in [Mbufs -> 0 .. MaxFrames]
      /\ arrived \in 0 .. MaxFrames /\ N \in Nat \ {0} /\ MaxFrames \in Nat /\ Running
  BY <1>2, InRange
<1>4. PICK k \in 0 .. hwCnt : Filled(k)
  BY <1>3 DEF Running
<1>5. \A j \in 0 .. N : Ahead(hwHead, j) \in Bds
  BY <1>3, AheadIs
<1>6. k < hwCnt
  <2>1. CASE k = hwCnt /\ hwCnt < N
    BY <1>1, <1>3, <1>4, <2>1 DEF Filled, Running, FreeBds
  <2>2. CASE k = hwCnt /\ hwCnt = N
    <3>1. pos = Ahead(hwHead, 0)
      BY <1>3, <1>4, <2>2, AheadTwice DEF Filled
    <3> QED
      BY <1>1, <1>3, <1>4, <2>2, <3>1 DEF Filled
  <2> QED
    BY <1>3, <2>1, <2>2
<1>7. pos = Ahead(hwHead, k) /\ pos' = Ahead(hwHead, k + 1) /\ pos' \in Bds
  <2>1. 1 \in 0 .. N /\ k \in 0 .. N /\ k + 1 \in 0 .. N
    BY <1>3, <1>6
  <2>2. Ahead(Ahead(hwHead, k), 1) = Ahead(hwHead, k + 1)
    BY <1>3, <2>1, AheadTwice
  <2> QED
    BY <1>1, <1>4, <1>5, <2>1, <2>2 DEF Filled
<1>8. \A j \in 0 .. N - 1 : j # k => Ahead(hwHead, j) # pos
  BY <1>3, <1>6, <1>7, AheadInjective
<1>9. \A j : At(j)' = At(j)
  BY <1>1 DEF At, ringVars
<1>10. /\ At(k) = table[pos] /\ At(k) \in Mbufs
       /\ \A j \in 0 .. k - 1 : At(j) # At(k) /\ At(j) \in Mbufs
  BY <1>3, <1>6, <1>7 DEF Running, Placed, At
<1>11. /\ frame' \in [Mbufs -> 0 .. MaxFrames] /\ frame'[At(k)] = arrived + 1
       /\ \A j \in 0 .. k - 1 : frame'[At(j)] = frame[At(j)]
  BY <1>1, <1>3, <1>10
<1>12. TypeOK'
  <2>1. arrived' \in 0 .. MaxFrames
    BY <1>1, <1>3
  <2>2. new' \subseteq Bds
    BY <1>1, <1>3
  <2> QED
    BY <1>1, <1>2, <1>7, <1>11, <2>1, <2>2 DEF IInv, TypeOK, ringVars, Overran
<1>13. Filled(k + 1)'
  <2>1. \A j \in 0 .. hwCnt' - 1 : Ahead(hwHead', j) \in new' <=> j < k + 1
    BY <1>1, <1>3, <1>4, <1>6, <1>7, <1>8 DEF Filled, ringVars
  <2>2. \A a, b \in 0 .. k : a < b => frame'[At(a)] < frame'[At(b)]
    <3> SUFFICES ASSUME NEW a \in 0 .. k, NEW b \in 0 .. k, a < b
                 PROVE  frame'[At(a)] < frame'[At(b)]
      OBVIOUS
    <3>1. a \in 0 .. k - 1 /\ frame[At(a)] <= arrived /\ frame[At(a)] \in Nat
      BY <1>3, <1>4, <1>10 DEF Filled
    <3>2. CASE b = k
      BY <1>3, <1>11, <3>1, <3>2
    <3>3. CASE b # k
      BY <1>4, <1>11, <3>1, <3>3 DEF Filled
    <3> QED
      BY <3>2, <3>3
  <2>3. \A a \in 0 .. k : last < frame'[At(a)] /\ frame'[At(a)] <= arrived + 1
    <3> SUFFICES ASSUME NEW a \in 0 .. k
                 PROVE  last < frame'[At(a)] /\ frame'[At(a)] <= arrived + 1
      OBVIOUS
    <3>1. CASE a = k
      BY <1>3, <1>11, <3>1 DEF Running
    <3>2. CASE a # k
      <4>1. a \in 0 .. k - 1 /\ frame[At(a)] \in Nat
        BY <1>3, <1>10, <3>2
      <4> QED
        BY <1>3, <1>4, <1>11, <4>1 DEF Filled
    <3> QED
      BY <3>1, <3>2
  <2>4. 0 .. k + 1 - 1 = 0 .. k
    BY <1>3
  <2> QED
    BY <1>1, <1>7, <1>9, <2>1, <2>2, <2>3, <2>4 DEF Filled, ringVars
<1>14. Running'
  <2>1. Placed'
    BY <1>1, <1>3, <1>9 DEF Running, Placed, ringVars
  <2>2. FreeBds' /\ Refilled'
    BY <1>1, <1>3 DEF Running, FreeBds, Refilled, ringVars
  <2>3. last' \in Nat /\ last' <= arrived'
    BY <1>1, <1>3 DEF Running
  <2>4. k + 1 \in 0 .. hwCnt'
    BY <1>1, <1>3, <1>6 DEF ringVars
  <2> QED
    BY <1>1, <1>3, <1>13, <2>1, <2>2, <2>3, <2>4 DEF Running
<1> QED
  BY <1>2, <1>12, <1>14 DEF IInv, ScanStaysInRing

LEMMA SameRing ==
  ASSUME IInv, ~Overran, UNCHANGED <<ringVars, new, table, frame, pos, last>>,
         arrived' \in Nat, arrived <= arrived'
  PROVE  \E k \in 0 .. hwCnt' : Filled(k)'
<1>1. /\ hwCnt \in 0 .. N /\ frame \in [Mbufs -> 0 .. MaxFrames] /\ arrived \in 0 .. MaxFrames
      /\ N \in Nat \ {0} /\ MaxFrames \in Nat /\ Running
  BY InRange
<1>2. PICK k \in 0 .. hwCnt : Filled(k)
  BY <1>1 DEF Running
<1>3. \A j : At(j)' = At(j)
  BY DEF At, ringVars
<1>4. ASSUME NEW a \in 0 .. k - 1
      PROVE  frame'[At(a)] <= arrived'
  <2>1. frame[At(a)] <= arrived /\ At(a) \in Mbufs
    BY <1>1, <1>2 DEF Filled, Running, Placed
  <2>2. frame[At(a)] \in Nat
    BY <1>1, <2>1
  <2> QED
    BY <1>1, <2>1, <2>2
<1>5. Filled(k)'
  BY <1>2, <1>3, <1>4 DEF Filled, ringVars
<1> QED
  BY <1>2, <1>5 DEF ringVars

\* Steps that leave the ring and the mbufs as they are.
LEMMA QuietIInv ==
  ASSUME IInv,
         \/ eth_emacps_error_handler \/ Wake \/ RefillFails \/ LoopEnd \/ UNCHANGED vars
  PROVE  IInv'
<1>1. CASE Overran
  <2>1. UNCHANGED vars
    BY <1>1 DEF Overran, eth_emacps_error_handler, Wake, RefillFails, LoopEnd
  <2> QED
    BY <1>1, <2>1 DEF IInv, TypeOK, ScanStaysInRing, Overran, vars, ringVars
<1>2. CASE ~Overran
  <2>1. /\ freeHead \in Bds /\ hwHead \in Bds /\ pos \in Bds
        /\ freeCnt \in 0 .. N /\ hwCnt \in 0 .. N
        /\ freeCnt + hwCnt = N /\ freeHead = Ahead(hwHead, hwCnt)
        /\ new \subseteq Bds
        /\ table \in [Bds -> Mbufs \cup {NONE}]
        /\ frame \in [Mbufs -> 0 .. MaxFrames]
        /\ todo \in 0 .. freeCnt
        /\ arrived \in 0 .. MaxFrames
        /\ N \in Nat \ {0} /\ MaxFrames \in Nat /\ Running
    BY <1>2, InRange
  <2>2. /\ UNCHANGED <<ringVars, new, table, frame, pos, last, pool, stack>>
        /\ arrived' \in 0 .. MaxFrames /\ arrived <= arrived'
        /\ todo' \in 0 .. freeCnt
    BY <2>1 DEF eth_emacps_error_handler, Wake, RefillFails, LoopEnd, vars
  <2>3. /\ pc' \in {"init", "input", "refill", "wait"}
        /\ Refilled' /\ FreeBds'
    <3>1. CASE eth_emacps_error_handler
      BY <2>1, <3>1 DEF eth_emacps_error_handler, Running, Refilled, FreeBds, ringVars
    <3>2. CASE Wake
      BY <2>1, <3>2 DEF Wake, Running, Refilled, FreeBds, ringVars
    <3>3. CASE RefillFails
      BY <2>1, <3>3 DEF RefillFails, Running, Refilled, FreeBds, ringVars
    <3>4. CASE LoopEnd
      <4>1. pc' \in {"input", "wait"} /\ starved' = starved /\ freeCnt' = freeCnt
        BY <3>4 DEF LoopEnd, ringVars
      <4>2. ~starved => freeCnt = 0
        BY <2>1, <3>4 DEF LoopEnd, Running, Refilled
      <4>3. Refilled'
        BY <4>1, <4>2 DEF Refilled
      <4>4. FreeBds'
        <5>1. CASE pc = "init"
          <6>1. hwCnt' = N
            BY <2>1, <2>2, <4>2, <5>1 DEF Running, Refilled, ringVars
          <6> QED
            BY <2>1, <4>1, <6>1 DEF FreeBds
        <5>2. CASE pc # "init"
          BY <2>1, <2>2, <4>1, <5>2 DEF Running, FreeBds, ringVars
        <5> QED
          BY <5>1, <5>2
      <4> QED
        BY <4>1, <4>3, <4>4
    <3>5. CASE UNCHANGED vars
      BY <2>1, <3>5 DEF vars, Running, Refilled, FreeBds, ringVars
    <3> QED
      BY <3>1, <3>2, <3>3, <3>4, <3>5
  <2>4. \E k \in 0 .. hwCnt' : Filled(k)'
    BY <1>2, <2>1, <2>2, SameRing
  <2>5. Placed'
    BY <2>1, <2>2 DEF Running, Placed, At, ringVars
  <2>6. Running'
    <3>1. last' \in Nat /\ last' <= arrived'
      BY <2>1, <2>2 DEF Running
    <3> QED
      BY <2>3, <2>4, <2>5, <3>1 DEF Running
  <2>7. TypeOK'
    BY <2>1, <2>2 DEF TypeOK, ringVars
  <2>8. ~Overran'
    BY <2>3 DEF Overran
  <2> QED
    BY <2>6, <2>7, <2>8 DEF IInv, ScanStaysInRing
<1> QED
  BY <1>1, <1>2

LEMMA FreeIInv ==
  ASSUME IInv, NEW m \in Mbufs, m_free(m)
  PROVE  IInv'
<1>1. /\ m \in stack /\ pc # "lost"
      /\ stack' = stack \ {m} /\ pool' = pool \cup {m} /\ frame' = [frame EXCEPT ![m] = 0]
      /\ UNCHANGED <<ringVars, new, table, pc, todo, pos, arrived, last, starved>>
  BY DEF m_free
<1>2. ~Overran /\ ~Overran'
  BY <1>1 DEF Overran
<1>3. /\ hwCnt \in 0 .. N /\ frame \in [Mbufs -> 0 .. MaxFrames] /\ arrived \in 0 .. MaxFrames
      /\ N \in Nat \ {0} /\ MaxFrames \in Nat /\ Running
  BY <1>2, InRange
<1>4. PICK k \in 0 .. hwCnt : Filled(k)
  BY <1>3 DEF Running
<1>5. \A j : At(j)' = At(j)
  BY <1>1 DEF At, ringVars
<1>6. \A j \in 0 .. k - 1 : At(j) # m /\ At(j) \in Mbufs
  BY <1>1, <1>3 DEF Running, Placed
<1>7. frame' \in [Mbufs -> 0 .. MaxFrames] /\ \A j \in 0 .. k - 1 : frame'[At(j)] = frame[At(j)]
  BY <1>1, <1>3, <1>6
<1>8. Filled(k)'
  BY <1>1, <1>4, <1>5, <1>7 DEF Filled, ringVars
<1>9. Placed'
  BY <1>1, <1>3, <1>5 DEF Running, Placed, ringVars
<1>10. FreeBds' /\ Refilled'
  BY <1>1, <1>3 DEF Running, FreeBds, Refilled, ringVars
<1>11. TypeOK'
  BY <1>1, <1>2, <1>7 DEF IInv, TypeOK, ringVars
<1>12. Running'
  BY <1>1, <1>3, <1>8, <1>9, <1>10 DEF Running, ringVars
<1> QED
  BY <1>2, <1>11, <1>12 DEF IInv, ScanStaysInRing

LEMMA RefillIInv ==
  ASSUME IInv, NEW m \in Mbufs, Refill(m)
  PROVE  IInv'
<1>1. /\ pc \in {"init", "refill"} /\ todo > 0 /\ m \in pool
      /\ table' = [table EXCEPT ![freeHead] = m] /\ pool' = pool \ {m}
      /\ new' = new \ {freeHead} /\ freeHead' = Ahead(freeHead, 1)
      /\ freeCnt' = freeCnt - 1 /\ hwCnt' = hwCnt + 1 /\ todo' = todo - 1
      /\ UNCHANGED <<hwHead, frame, stack, pc, pos, arrived, last, starved>>
  BY DEF Refill, eth_emacps_add_new_mbuf
<1>2. ~Overran /\ ~Overran'
  BY <1>1 DEF Overran
<1>3. /\ freeHead \in Bds /\ hwHead \in Bds /\ pos \in Bds
      /\ freeCnt \in 0 .. N /\ hwCnt \in 0 .. N
      /\ freeCnt + hwCnt = N /\ freeHead = Ahead(hwHead, hwCnt)
      /\ new \subseteq Bds
      /\ table \in [Bds -> Mbufs \cup {NONE}]
      /\ frame \in [Mbufs -> 0 .. MaxFrames]
      /\ todo \in 0 .. freeCnt
      /\ arrived \in 0 .. MaxFrames
      /\ N \in Nat \ {0} /\ MaxFrames \in Nat /\ Running
  BY <1>2, InRange
<1>4. hwCnt \in 0 .. N - 1 /\ freeCnt' \in 0 .. N /\ hwCnt' \in 0 .. N /\ todo' \in 0 .. freeCnt'
      /\ freeCnt' + hwCnt' = N
  BY <1>1, <1>3
<1>5. freeHead' \in Bds /\ freeHead' = Ahead(hwHead, hwCnt')
  <2>1. 1 \in 0 .. N /\ hwCnt + 1 \in 0 .. N
    BY <1>3, <1>4
  <2>2. Ahead(Ahead(hwHead, hwCnt), 1) = Ahead(hwHead, hwCnt + 1) /\ Ahead(hwHead, hwCnt + 1) \in Bds
    BY <1>3, <2>1, AheadTwice
  <2> QED
    BY <1>1, <1>3, <2>2
<1>6. \A j \in 0 .. N - 1 : Ahead(hwHead, j) \in Bds /\ (j # hwCnt => Ahead(hwHead, j) # freeHead)
  BY <1>3, <1>4, AheadIs, AheadInjective
<1>7. \A j \in 0 .. N - 1 : At(j)' = IF j = hwCnt THEN m ELSE At(j)
  <2>1. table'[freeHead] = m /\ \A x \in Bds : x # freeHead => table'[x] = table[x]
    BY <1>1, <1>3
  <2> QED
    BY <1>1, <1>3, <1>6, <2>1 DEF At
<1>8. TypeOK'
  <2>1. table' \in [Bds -> Mbufs \cup {NONE}] /\ new' \subseteq Bds
    BY <1>1, <1>3
  <2> QED
    BY <1>1, <1>3, <1>4, <1>5, <2>1 DEF TypeOK
<1>9. Placed'
  <2>1. Placed
    BY <1>3 DEF Running
  <2>2. \A j \in 0 .. hwCnt' - 1 : j \in 0 .. N - 1 /\ (j = hwCnt \/ j \in 0 .. hwCnt - 1)
    BY <1>1, <1>3, <1>4
  <2>3. \A j \in 0 .. hwCnt' - 1 : At(j)' \in Mbufs \ (pool' \cup stack')
    BY <1>1, <1>7, <2>1, <2>2 DEF Placed
  <2>4. \A a, b \in 0 .. hwCnt' - 1 : At(a)' = At(b)' => a = b
    BY <1>1, <1>7, <2>1, <2>2 DEF Placed
  <2> QED
    BY <1>1, <2>1, <2>3, <2>4 DEF Placed
<1>10. FreeBds'
  <2>1. CASE pc = "init"
    BY <1>1, <1>3, <2>1 DEF Running, FreeBds
  <2>2. CASE pc # "init"
    <3>1. \A j \in hwCnt' .. N - 1 : j \in hwCnt .. N - 1 /\ j \in 0 .. N - 1 /\ j # hwCnt
      BY <1>1, <1>3
    <3>2. \A j \in hwCnt .. N - 1 : Ahead(hwHead, j) \in new
      BY <1>3, <2>2 DEF Running, FreeBds
    <3> QED
      BY <1>1, <1>6, <2>2, <3>1, <3>2 DEF FreeBds
  <2> QED
    BY <2>1, <2>2
<1>11. Refilled'
  BY <1>1, <1>3 DEF Running, Refilled
<1>12. PICK k \in 0 .. hwCnt : Filled(k)
  BY <1>3 DEF Running
<1>13. Filled(k)'
  <2>1. \A j \in 0 .. hwCnt' - 1 : Ahead(hwHead', j) \in new' <=> j < k
    <3> SUFFICES ASSUME NEW j \in 0 .. hwCnt' - 1
                 PROVE  Ahead(hwHead, j) \in new' <=> j < k
      BY <1>1
    <3>1. CASE j = hwCnt
      BY <1>1, <1>3, <1>12, <3>1
    <3>2. CASE j # hwCnt
      <4>1. j \in 0 .. hwCnt - 1 /\ j \in 0 .. N - 1
        BY <1>1, <1>3, <3>2
      <4> QED
        BY <1>1, <1>6, <1>12, <3>2, <4>1 DEF Filled
    <3> QED
      BY <3>1, <3>2
  <2>2. \A a \in 0 .. k - 1 : At(a)' = At(a)
    <3>1. \A a \in 0 .. k - 1 : a \in 0 .. N - 1 /\ a # hwCnt
      BY <1>3, <1>12
    <3> QED
      BY <1>7, <3>1
  <2> QED
    BY <1>1, <1>12, <2>1, <2>2 DEF Filled
<1>14. Running'
  <2>1. k \in 0 .. hwCnt'
    BY <1>1, <1>3, <1>12
  <2> QED
    BY <1>1, <1>3, <1>9, <1>10, <1>11, <1>13, <2>1 DEF Running
<1> QED
  BY <1>2, <1>8, <1>14 DEF IInv, ScanStaysInRing

\* What a scan that stays in the ring hands over, and to whom the BDs belong then.
LEMMA InputIInv ==
  ASSUME IInv, eth_emacps_input
  PROVE  IInv'
<1> DEFINE n == XEmacPs_BdRingFromHwRx
<1>1. /\ pc = "input" /\ pc' = IF n > hwCnt THEN "lost" ELSE "refill"
      /\ batch' = [i \in 1 .. n |-> frame[table[BdRingNext(i, n)]]]
      /\ last' = IF n = 0 THEN last ELSE batch'[n]
      /\ stack' = stack \cup {table[i] : i \in From(hwHead, n)}
      /\ hwHead' = Ahead(hwHead, n) /\ hwCnt' = hwCnt - n /\ freeCnt' = freeCnt + n
      /\ todo' = freeCnt + n
      /\ UNCHANGED <<new, freeHead, table, frame, pool, pos, arrived, starved>>
  BY DEF eth_emacps_input, XEmacPs_BdRingFree, ToRefill
<1>2. ~Overran
  BY <1>1 DEF Overran
<1>3. /\ freeHead \in Bds /\ hwHead \in Bds /\ pos \in Bds
      /\ freeCnt \in 0 .. N /\ hwCnt \in 0 .. N
      /\ freeCnt + hwCnt = N /\ freeHead = Ahead(hwHead, hwCnt)
      /\ new \subseteq Bds
      /\ table \in [Bds -> Mbufs \cup {NONE}]
      /\ frame \in [Mbufs -> 0 .. MaxFrames]
      /\ arrived \in 0 .. MaxFrames
      /\ N \in Nat \ {0} /\ MaxFrames \in Nat /\ Running
  BY <1>2, InRange
<1>4. PICK k \in 0 .. hwCnt : Filled(k)
  BY <1>3 DEF Running
<1>5. n = k \/ (n = N /\ hwCnt < N)
  BY <1>1, <1>2, <1>4, Scan
<1> HIDE DEF n
<1>6. CASE n > hwCnt
  <2>1. Overran' /\ hwCnt < N
    BY <1>1, <1>3, <1>4, <1>5, <1>6 DEF Overran
  <2>2. starved
    BY <1>1, <1>3, <2>1 DEF Running, Refilled
  <2> QED
    BY <1>1, <2>1, <2>2 DEF IInv, TypeOK, ScanStaysInRing
<1>7. CASE ~(n > hwCnt)
  <2>1. n = k /\ k \in 0 .. N
    BY <1>3, <1>4, <1>5, <1>7
  <2>2. ~Overran'
    BY <1>1, <1>7 DEF Overran
  <2>3. \A j \in 0 .. N : /\ Ahead(hwHead, j) \in Bds
                          /\ Ahead(hwHead', j) = IF k + j <= N THEN Ahead(hwHead, k + j)
                                                 ELSE Ahead(hwHead, k + j - N)
    BY <1>1, <1>3, <2>1, AheadTwice
  <2>4. /\ hwHead' \in Bds /\ hwCnt' \in 0 .. N /\ freeCnt' \in 0 .. N
        /\ freeCnt' + hwCnt' = N /\ todo' \in 0 .. freeCnt' /\ hwCnt' = hwCnt - k
    BY <1>1, <1>3, <1>4, <2>1, <2>3
  <2>5. freeHead' = Ahead(hwHead', hwCnt')
    <3>1. hwCnt' \in 0 .. N /\ k + hwCnt' = hwCnt /\ hwCnt <= N
      BY <1>3, <2>1, <2>4
    <3>2. Ahead(hwHead', hwCnt') = Ahead(hwHead, k + hwCnt')
      BY <2>3, <3>1
    <3> QED
      BY <1>1, <1>3, <3>1, <3>2
  <2>6. TypeOK'
    BY <1>1, <1>3, <2>4, <2>5 DEF TypeOK
  <2>7. \A j \in 0 .. hwCnt' - 1 : /\ k + j \in 0 .. hwCnt - 1
                                   /\ Ahead(hwHead', j) = Ahead(hwHead, k + j)
                                   /\ At(j)' = At(k + j)
    <3> SUFFICES ASSUME NEW j \in 0 .. hwCnt' - 1
                 PROVE  /\ k + j \in 0 .. hwCnt - 1
                        /\ Ahead(hwHead', j) = Ahead(hwHead, k + j)
                        /\ At(j)' = At(k + j)
      OBVIOUS
    <3>1. k + j \in 0 .. hwCnt - 1 /\ j \in 0 .. N /\ k + j <= N
      BY <1>3, <2>1, <2>4
    <3>2. Ahead(hwHead', j) = Ahead(hwHead, k + j)
      BY <2>3, <3>1
    <3> QED
      BY <1>1, <3>1, <3>2 DEF At
  <2>8. stack' = stack \cup {At(j) : j \in 0 .. k - 1}
    BY <1>1, <2>1 DEF From, At
  <2>9. Placed'
    <3>1. Placed
      BY <1>3 DEF Running
    <3>2. \A j \in 0 .. k - 1 : j \in 0 .. hwCnt - 1 /\ At(j) \in Mbufs \ (pool \cup stack)
      BY <1>3, <1>4, <3>1 DEF Placed
    <3>3. pool' \cap stack' = {} /\ pool' \subseteq Mbufs /\ stack' \subseteq Mbufs
      BY <1>1, <2>8, <3>1, <3>2 DEF Placed
    <3>4. ASSUME NEW j \in 0 .. hwCnt' - 1
          PROVE  At(j)' \in Mbufs \ (pool' \cup stack')
      <4>1. At(j)' = At(k + j) /\ k + j \in 0 .. hwCnt - 1
        BY <2>7
      <4>2. At(k + j) \in Mbufs \ (pool \cup stack)
        BY <3>1, <4>1 DEF Placed
      <4>3. \A i \in 0 .. k - 1 : i # k + j
        BY <2>1, <2>4, <1>3
      <4>4. \A i \in 0 .. k - 1 : At(i) # At(k + j)
        BY <3>1, <3>2, <4>1, <4>3 DEF Placed
      <4> QED
        BY <1>1, <2>8, <4>1, <4>2, <4>4
    <3>5. ASSUME NEW a \in 0 .. hwCnt' - 1, NEW b \in 0 .. hwCnt' - 1, At(a)' = At(b)'
          PROVE  a = b
      <4>1. k + a = k + b
        BY <2>7, <3>1, <3>5 DEF Placed
      <4> QED
        BY <1>3, <2>1, <2>4, <4>1
    <3> QED
      BY <3>3, <3>4, <3>5 DEF Placed
  <2>10. Filled(0)'
    <3>1. pos' = Ahead(hwHead', 0)
      BY <1>1, <1>3, <1>4, <2>1, <2>4, AheadTwice DEF Filled
    <3>2. \A j \in 0 .. hwCnt' - 1 : Ahead(hwHead', j) \notin new' /\ ~(j < 0)
      <4> SUFFICES ASSUME NEW j \in 0 .. hwCnt' - 1
                   PROVE  Ahead(hwHead, k + j) \notin new /\ ~(j < 0)
        BY <1>1, <2>7
      <4>1. ~(k + j < k) /\ ~(j < 0) /\ k + j \in 0 .. hwCnt - 1
        BY <2>1, <2>4, <2>7, <1>3
      <4> QED
        BY <1>4, <4>1 DEF Filled
    <3> QED
      BY <3>1, <3>2 DEF Filled
  <2>11. FreeBds'
    <3> SUFFICES ASSUME NEW j \in hwCnt' .. N - 1
                 PROVE  Ahead(hwHead', j) \in new
      BY <1>1, <1>7 DEF FreeBds
    <3>1. j \in 0 .. N /\ k + j \in Nat /\ j < N
      BY <2>1, <2>4, <1>3
    <3>2. CASE k + j < N
      <4>1. k + j \in hwCnt .. N - 1 /\ k + j <= N
        BY <1>3, <2>1, <2>4, <3>1, <3>2
      <4>2. Ahead(hwHead, k + j) \in new
        BY <1>1, <1>3, <4>1 DEF Running, FreeBds
      <4> QED
        BY <2>3, <3>1, <4>1, <4>2
    <3>3. CASE k + j >= N
      <4>1. k + j - N \in 0 .. k - 1 /\ k + j - N \in 0 .. hwCnt - 1 /\ k + j - N < k
        BY <1>3, <1>4, <2>1, <2>4, <3>1, <3>3
      <4>2. Ahead(hwHead, k + j - N) \in new
        BY <1>4, <4>1 DEF Filled
      <4>3. Ahead(hwHead', j) = Ahead(hwHead, k + j - N)
        <5>1. CASE k + j = N
          <6>1. Ahead(hwHead, N) = Ahead(hwHead, 0) /\ k + j - N = 0
            BY <1>3, <2>1, <5>1, AheadTwice
          <6> QED
            BY <2>3, <3>1, <5>1, <6>1
        <5>2. CASE k + j # N
          <6>1. ~(k + j <= N)
            BY <1>3, <3>1, <3>3, <5>2
          <6> QED
            BY <2>3, <3>1, <6>1
        <5> QED
          BY <5>1, <5>2
      <4> QED
        BY <4>2, <4>3
    <3> QED
      BY <1>3, <3>1, <3>2, <3>3
  <2>12. last' \in Nat /\ last' <= arrived'
    <3>1. CASE n = 0
      BY <1>1, <1>3, <3>1 DEF Running
    <3>2. CASE n # 0
      <4>1. k \in 1 .. k /\ k - 1 \in 0 .. k - 1 /\ k - 1 \in 0 .. hwCnt - 1
        BY <1>3, <1>4, <2>1, <3>2
      <4>2. last' = frame[At(k - 1)]
        BY <1>1, <2>1, <3>2, <4>1 DEF At, BdRingNext
      <4>3. At(k - 1) \in Mbufs
        BY <1>3, <4>1 DEF Running, Placed
      <4> QED
        BY <1>1, <1>3, <1>4, <4>1, <4>2, <4>3 DEF Filled
    <3> QED
      BY <3>1, <3>2
  <2>13. Refilled'
    BY <1>1, <1>7 DEF Refilled
  <2>14. Running'
    <3>1. 0 \in 0 .. hwCnt'
      BY <1>3, <2>4
    <3> QED
      BY <1>1, <1>7, <2>9, <2>10, <2>11, <2>12, <2>13, <3>1 DEF Running
  <2> QED
    BY <2>2, <2>6, <2>14 DEF IInv, ScanStaysInRing
<1> QED
  BY <1>6, <1>7

LEMMA InitIInv ==
  ASSUME Init
  PROVE  IInv
<1>1. N \in Nat \ {0} /\ MaxFrames \in Nat
  BY NAssumption, MaxFramesAssumption
<1>2. 0 \in Bds /\ 0 \in 0 .. N
  BY <1>1 DEF Bds
<1>3. Ahead(0, 0) = 0
  BY <1>2, AheadTwice
<1>4. TypeOK
  <2>1. table \in [Bds -> Mbufs \cup {NONE}] /\ frame \in [Mbufs -> 0 .. MaxFrames]
    BY <1>1 DEF Init
  <2> QED
    BY <1>1, <1>2, <1>3, <2>1 DEF Init, TypeOK
<1>5. ~Overran
  BY DEF Init, Overran
<1>6. Filled(0) /\ 0 \in 0 .. hwCnt
  BY <1>3 DEF Init, Filled
<1>7. Placed
  BY DEF Init, Placed
<1>8. FreeBds /\ Refilled
  BY DEF Init, FreeBds, Refilled
<1>9. Running
  BY <1>6, <1>7, <1>8 DEF Init, Running
<1> QED
  BY <1>4, <1>5, <1>9 DEF IInv, ScanStaysInRing

LEMMA StepIInv ==
  ASSUME IInv, [Next]_vars
  PROVE  IInv'
<1>1. CASE UNCHANGED vars
  BY <1>1, QuietIInv
<1> QED
  BY <1>1, QuietIInv, RecvIInv, InputIInv, RefillIInv, FreeIInv DEF Next, Task

LEMMA Invariance == Spec => []IInv
BY InitIInv, StepIInv, PTL DEF Spec

-----------------------------------------------------------------------------
(***************************************************************************)
(* The theorems.                                                           *)
(***************************************************************************)
\* The counters of the ring account for every BD and every variable keeps its
\* range, as long as no scan of XEmacPs_BdRingFromHwRx has gone too far.
THEOREM TypeCorrect == Spec => []TypeOK
<1>1. IInv => TypeOK
  BY DEF IInv
<1> QED
  BY Invariance, <1>1, PTL

\* Whatever the size of the ring and the pool, a scan of XEmacPs_BdRingFromHwRx
\* enters BDs that are not the controller's only after an allocation failed in
\* eth_emacps_process_rxd_bds.
THEOREM ScanInRing == Spec => []ScanStaysInRing
<1>1. IInv => ScanStaysInRing
  BY DEF IInv
<1> QED
  BY Invariance, <1>1, PTL

\* The BDs of the controller, by positions.
LEMMA HwIs == \A i : i \in Hw <=> \E j \in 0 .. hwCnt - 1 : i = Ahead(hwHead, j)
BY DEF Hw, From

\* eth_emacps_input, the refill and m_free pass mbufs on without ever having one in
\* two places, however many mbufs and BDs there are.
THEOREM MbufsApart == Spec => []MbufInOnePlace
<1>1. ASSUME IInv, ~Overran
      PROVE  /\ pool \cap stack = {}
             /\ \A i \in Hw : table[i] \notin pool \cup stack
             /\ \A i, j \in Hw : table[i] = table[j] => i = j
  <2>1. Placed
    BY <1>1, InRange DEF Running
  <2> QED
    BY <1>1, <2>1, HwIs DEF Placed, At
<1>2. IInv => MbufInOnePlace
  BY <1>1 DEF MbufInOnePlace
<1> QED
  BY Invariance, <1>2, PTL

\* A freed BD keeps its new bit until eth_emacps_process_rxd_bds has given it a new
\* mbuf, so all the controller may write to is its own, also when a refill stopped
\* half way.
THEOREM TargetsOwned == Spec => []ControllerOwnsTargets
<1>1. ASSUME IInv, pc # "init", ~Overran
      PROVE  Bds \ new = {i \in Hw : i \notin new}
  <2>1. hwHead \in Bds /\ hwCnt \in 0 .. N /\ FreeBds /\ N \in Nat \ {0}
    BY <1>1, InRange DEF Running
  <2>2. \A i \in Hw : i \in Bds
    BY <1>1, <2>1, HwIs, AheadIs
  <2>3. ASSUME NEW i \in Bds, i \notin new
        PROVE  i \in Hw
    <3>1. PICK j \in 0 .. N - 1 : i = Ahead(hwHead, j)
      BY <2>1, AheadOnto
    <3>2. j \notin hwCnt .. N - 1
      BY <1>1, <2>1, <2>3, <3>1 DEF FreeBds
    <3>3. j \in 0 .. hwCnt - 1
      BY <2>1, <3>2
    <3> QED
      BY <1>1, <3>1, <3>3, HwIs
  <2> QED
    BY <2>2, <2>3
<1>2. IInv => ControllerOwnsTargets
  BY <1>1 DEF ControllerOwnsTargets
<1> QED
  BY Invariance, <1>2, PTL

\* However the controller's filling, the freeing and the refilling of BDs overlap,
\* eth_emacps_input hands frames over in the order of arrival and none twice.
THEOREM InOrder == Spec => DeliveredInOrder
<1>1. ASSUME IInv, [Next]_vars, batch' # batch, ~Overran'
      PROVE  \A i \in 1 .. Len(batch') :
               batch'[i] > (IF i = 1 THEN last ELSE batch'[i - 1])
  <2>1. CASE LoopEnd
    BY <2>1 DEF LoopEnd
  <2>2. CASE eth_emacps_input
    <3> DEFINE n == XEmacPs_BdRingFromHwRx
    <3>1. /\ pc = "input" /\ pc' = IF n > hwCnt THEN "lost" ELSE "refill"
          /\ batch' = [i \in 1 .. n |-> frame[table[BdRingNext(i, n)]]]
      BY <2>2 DEF eth_emacps_input
    <3>2. ~Overran /\ ~(n > hwCnt)
      BY <1>1, <3>1 DEF Overran
    <3>3. /\ hwCnt \in 0 .. N /\ frame \in [Mbufs -> 0 .. MaxFrames]
          /\ N \in Nat \ {0} /\ MaxFrames \in Nat /\ Running
      BY <1>1, <3>2, InRange
    <3>4. PICK k \in 0 .. hwCnt : Filled(k)
      BY <3>3 DEF Running
    <3>5. n = k \/ (n = N /\ hwCnt < N)
      BY <1>1, <3>1, <3>2, <3>4, Scan
    <3> HIDE DEF n
    <3>6. n = k /\ k \in Nat
      BY <3>2, <3>3, <3>4, <3>5
    <3>7. \A i \in 1 .. k : i - 1 \in 0 .. k - 1 /\ At(i - 1) \in Mbufs
                            /\ batch'[i] = frame[At(i - 1)]
      BY <3>1, <3>3, <3>4, <3>6 DEF At, BdRingNext, Running, Placed
    <3>8. Len(batch') = k
      BY <3>1, <3>6
    <3> SUFFICES ASSUME NEW i \in 1 .. k
                 PROVE  batch'[i] > (IF i = 1 THEN last ELSE batch'[i - 1])
      BY <3>8
    <3>9. batch'[i] \in Nat /\ batch'[i] = frame[At(i - 1)] /\ i - 1 \in 0 .. k - 1
      BY <3>3, <3>7
    <3>10. CASE i = 1
      BY <3>3, <3>4, <3>9, <3>10 DEF Filled, Running
    <3>11. CASE i # 1
      <4>1. i - 1 \in 1 .. k /\ i - 1 - 1 \in 0 .. k - 1 /\ i - 1 - 1 < i - 1
        BY <3>6, <3>11
      <4>2. batch'[i - 1] = frame[At(i - 1 - 1)] /\ batch'[i - 1] \in Nat
        BY <3>3, <3>7, <4>1
      <4>3. frame[At(i - 1 - 1)] < frame[At(i - 1)]
        BY <3>4, <3>9, <4>1 DEF Filled
      <4> QED
        BY <3>9, <3>11, <4>2, <4>3
    <3> QED
      BY <3>10, <3>11
  <2>3. \/ LoopEnd \/ eth_emacps_input
    BY <1>1 DEF Next, Task, eth_emacps_recv_handler, eth_emacps_error_handler, Wake, Refill,
                RefillFails, m_free, vars
  <2> QED
    BY <2>1, <2>2, <2>3
<1> DEFINE Order == (batch' # batch /\ ~Overran') =>
                      \A k \in 1 .. Len(batch') :
                        batch'[k] > (IF k = 1 THEN last ELSE batch'[k - 1])
<1>2. IInv /\ [Next]_vars => [Order]_vars
  BY <1>1
<1>3. Spec => [][Order]_vars
  <2> HIDE DEF Order
  <2> QED
    BY Invariance, <1>2, PTL DEF Spec
<1> QED
  BY <1>3 DEF DeliveredInOrder

-----------------------------------------------------------------------------
\* Without an event pending, no frame was written since the task found none.
Signalled ==
  (~event /\ (pc = "wait" \/ (pc \in {"init", "refill"} /\ batch = <<>>)))
    => \A j \in 0 .. hwCnt - 1 : Ahead(hwHead, j) \notin new

LEMMA StepSignalled ==
  ASSUME IInv, Signalled, [Next]_vars
  PROVE  Signalled'
<1> SUFFICES ASSUME ~event', pc' = "wait" \/ (pc' \in {"init", "refill"} /\ batch' = <<>>)
             PROVE  \A j \in 0 .. hwCnt' - 1 : Ahead(hwHead', j) \notin new'
  BY DEF Signalled
<1>1. ASSUME UNCHANGED <<event, hwHead, hwCnt, new>>, pc' # "lost",
             pc = "wait" \/ (pc \in {"init", "refill"} /\ batch = <<>>)
      PROVE  \A j \in 0 .. hwCnt' - 1 : Ahead(hwHead', j) \notin new'
  BY <1>1 DEF Signalled
<1>2. CASE UNCHANGED vars
  BY <1>1, <1>2 DEF vars, ringVars
<1>3. CASE eth_emacps_recv_handler \/ eth_emacps_error_handler
  BY <1>3 DEF eth_emacps_recv_handler, eth_emacps_error_handler
<1>4. CASE Wake
  BY <1>4 DEF Wake
<1>5. CASE RefillFails
  BY <1>1, <1>5 DEF RefillFails, ringVars
<1>6. CASE \E m \in Mbufs : m_free(m)
  BY <1>1, <1>6 DEF m_free, ringVars
<1>7. CASE LoopEnd
  <2>1. batch = <<>>
    BY <1>7 DEF LoopEnd
  <2> QED
    BY <1>1, <1>7, <2>1 DEF LoopEnd, ringVars
<1>8. CASE eth_emacps_input
  <2> DEFINE n == XEmacPs_BdRingFromHwRx
  <2>1. /\ pc = "input" /\ n <= hwCnt
        /\ batch' = [i \in 1 .. n |-> frame[table[BdRingNext(i, n)]]]
        /\ hwHead' = Ahead(hwHead, n) /\ hwCnt' = hwCnt - n /\ new' = new
    <3>1. /\ pc = "input" /\ pc' = IF n > hwCnt THEN "lost" ELSE "refill"
          /\ batch' = [i \in 1 .. n |-> frame[table[BdRingNext(i, n)]]]
          /\ hwHead' = Ahead(hwHead, n) /\ hwCnt' = hwCnt - n /\ new' = new
      BY <1>8 DEF eth_emacps_input, XEmacPs_BdRingFree
    <3> HIDE DEF n
    <3>2. ~Overran
      BY <3>1 DEF Overran
    <3>3. PICK k \in 0 .. hwCnt : Filled(k)
      BY <3>2, InRange DEF Running
    <3>4. hwCnt \in 0 .. N /\ N \in Nat
      BY <3>2, InRange
    <3>5. n = k \/ (n = N /\ hwCnt < N)
      BY <3>1, <3>2, <3>3, Scan DEF n
    <3>6. ~(n > hwCnt) /\ n \in Int
      BY <3>1, <3>4, <3>5
    <3> QED
      BY <3>1, <3>4, <3>6
  <2>2. ~Overran
    BY <2>1 DEF Overran
  <2>3. hwCnt \in 0 .. N /\ N \in Nat \ {0} /\ hwHead \in Bds /\ Running
    BY <2>2, InRange
  <2>4. PICK k \in 0 .. hwCnt : Filled(k)
    BY <2>3 DEF Running
  <2>5. n = k \/ (n = N /\ hwCnt < N)
    BY <2>1, <2>2, <2>4, Scan
  <2> HIDE DEF n
  <2>6. n = k /\ k \in Nat
    BY <2>1, <2>3, <2>4, <2>5
  <2>7. batch' = <<>>
    BY <2>1, <1>8 DEF eth_emacps_input
  <2>8. k = 0
    <3>1. Len(batch') = k
      BY <2>1, <2>6
    <3> QED
      BY <2>7, <3>1
  <2>9. Ahead(hwHead, 0) = hwHead
    BY <2>3, AheadTwice
  <2>10. \A j \in 0 .. hwCnt - 1 : Ahead(hwHead, j) \notin new
    BY <2>4, <2>8 DEF Filled
  <2>11. hwHead' = hwHead /\ hwCnt' = hwCnt
    BY <2>1, <2>3, <2>6, <2>8, <2>9
  <2> QED
    BY <2>1, <2>10, <2>11
<1>9. CASE \E m \in Mbufs : Refill(m)
  <2>1. /\ pc \in {"init", "refill"} /\ pc' = pc /\ event' = event /\ batch' = batch
        /\ hwHead' = hwHead /\ hwCnt' = hwCnt + 1 /\ new' = new \ {freeHead}
    BY <1>9 DEF Refill
  <2>2. freeHead = Ahead(hwHead, hwCnt) /\ hwCnt \in Nat
    BY <2>1, InRange DEF Overran
  <2>3. \A j \in 0 .. hwCnt - 1 : Ahead(hwHead, j) \notin new
    BY <2>1 DEF Signalled
  <2> SUFFICES ASSUME NEW j \in 0 .. hwCnt
               PROVE  Ahead(hwHead, j) \notin new'
    BY <2>1, <2>2
  <2>4. CASE j = hwCnt
    BY <2>1, <2>2, <2>4
  <2>5. CASE j # hwCnt
    BY <2>1, <2>2, <2>3, <2>5
  <2> QED
    BY <2>4, <2>5
<1> QED
  BY <1>2, <1>3, <1>4, <1>5, <1>6, <1>7, <1>8, <1>9 DEF Next, Task

\* The task does not sleep over a frame that was written: the interrupt that
\* eth_emacps_recv_handler raised after the scan is still pending.
THEOREM InterruptKept == Spec => []InterruptNotLost
<1>1. Init => Signalled
  BY DEF Init, Signalled
<1>2. IInv /\ Signalled /\ [Next]_vars => Signalled'
  BY StepSignalled
<1>3. Signalled => InterruptNotLost
  BY HwIs DEF Signalled, InterruptNotLost
<1> QED
  BY Invariance, <1>1, <1>2, <1>3, PTL DEF Spec

=============================================================================
