---------------------------- MODULE EthTxProofs ----------------------------
(***************************************************************************)
(* Theorems about EthTx for every size of the ring, every set of lengths   *)
(* of frames and every number of frames.                                   *)
(***************************************************************************)
EXTENDS EthTx, SequencesExt, SequenceTheorems, TLAPS

\* The ring by positions, counted from hwHead on.
Marked(j) == bd[Ahead(hwHead, j)].used
Ends(j) == bd[Ahead(hwHead, j)].last
Of(j) == bd[Ahead(hwHead, j)].frame
Kept(j) == table[Ahead(hwHead, j)]

InUse == hwCnt + preCnt

\* The last frame taken from the queue.
Issued == queued - Len(queue)

Queued == [id : 1 .. MaxFrames, len : Lengths]

Shape ==
  /\ queue \in Seq(Queued) /\ m0 \in Queued \cup {NoFrame}
  /\ \A i \in DOMAIN queue : queue[i].id = Issued + i
  /\ scan \in [cur : Bds, count : Nat, partial : Nat, sop : BOOLEAN, limit : Nat]
  /\ hw \in [pos : Bds, first : Bds, mid : BOOLEAN, running : BOOLEAN]
  /\ torn \in BOOLEAN /\ crowded \in BOOLEAN
  /\ left <= preCnt
  /\ pc # "handover" => left = 0 /\ preCnt = 0
  /\ pc = "scan" => scan.limit = hwCnt

TableInv == \A j \in 0 .. N - 1 : Kept(j) # 0 <=> j < InUse

\* The frames in the ring, in the order of their numbers.
Rising ==
  /\ \A i, j \in 0 .. InUse - 1 : i < j => /\ Of(i) <= Of(j)
                                           /\ Ends(i) => Of(i) < Of(j)
  /\ \A j \in 1 .. InUse - 1 : Of(j) = Of(j - 1) + IF Ends(j - 1) THEN 1 ELSE 0

Rings ==
  /\ 2 * InUse <= N /\ m0 = NoFrame /\ ~torn
  /\ \A j \in InUse .. N - 1 : Marked(j) /\ ~Ends(j)
  /\ \A j \in 0 .. InUse - 1 : Kept(j) = Of(j)
  /\ Rising
  /\ InUse > 0 => Ends(InUse - 1) /\ Of(InUse - 1) = Issued
  /\ hwCnt > 0 => Ends(hwCnt - 1)

\* The controller has sent the frames of the first s BDs and works at position c.
Walk(s, c) ==
  /\ s <= c /\ c <= InUse
  /\ \A j \in 0 .. s - 1 : Of(j) <= done
  /\ \A j \in s .. InUse - 1 : Of(j) > done /\ (Marked(j) <=> j \in hwCnt .. hwCnt + left - 1)
  /\ IF s < InUse THEN Of(s) = done + 1 ELSE done = Issued
  /\ \A j \in s .. c - 1 : ~Ends(j) /\ ~Marked(j) /\ Of(j) = done + 1
  /\ hw.pos = Ahead(hwHead, c)
  /\ hw.mid <=> s < c
  /\ hw.mid => hw.first = Ahead(hwHead, s)
  /\ ~hw.running => hwCnt <= s

\* The scan has come to position x, maybe past the BDs in use.  What it found is
\* sent; past the sent ones it finds nothing until it comes to free BDs.
Scanned(s, x) ==
  /\ scan.cur = Ahead(hwHead, x)
  /\ scan.count <= x
  /\ x >= InUse => x - InUse <= scan.count
  /\ scan.count - scan.partial <= s
  /\ scan.sop => x > 0 /\ ((x - 1 < s /\ ~Ends(x - 1)) \/ x - 1 >= InUse)

Steady(s, c) == Walk(s, c) /\ (pc = "scan" => \E x \in 0 .. N : Scanned(s, x))

\* A frame queued while the task sleeps has made the interface active, and has
\* woken the task.
Woken == pc = "wait" => (queue # <<>> => oactive) /\ (oactive => event)

Quiet == ~crowded => Rings /\ Woken /\ \E s, c \in 0 .. N : Steady(s, c)

IInv == TypeOK /\ Shape /\ TableInv /\ Quiet

-----------------------------------------------------------------------------
LEMMA AheadIs ==
  ASSUME NEW i \in Bds, NEW n \in 0 .. N
  PROVE  /\ Ahead(i, n) = IF i + n < N THEN i + n ELSE i + n - N
         /\ Ahead(i, n) \in Bds
<1>1. N \in Nat \ {0} /\ i \in 0 .. N - 1 /\ i \in Int /\ n \in Int
  BY NAssumption DEF Bds
<1>2. CASE i + n < N
  <2>1. (i + n) % N = i + n
    BY <1>1, <1>2
  <2> QED
    BY <1>1, <1>2, <2>1 DEF Ahead, Bds
<1>3. CASE i + n >= N
  <2>1. (i + n) % N = i + n - N
    BY <1>1, <1>3
  <2> QED
    BY <1>1, <1>3, <2>1 DEF Ahead, Bds
<1> QED
  BY <1>1, <1>2, <1>3

LEMMA AheadInjective ==
  ASSUME NEW i \in Bds, NEW a \in 0 .. N - 1, NEW b \in 0 .. N - 1, Ahead(i, a) = Ahead(i, b)
  PROVE  a = b
<1>1. /\ Ahead(i, a) = IF i + a < N THEN i + a ELSE i + a - N
      /\ Ahead(i, b) = IF i + b < N THEN i + b ELSE i + b - N
  BY AheadIs, NAssumption
<1>2. N \in Nat \ {0} /\ i \in 0 .. N - 1
  BY NAssumption DEF Bds
<1>3. (IF i + a < N THEN i + a ELSE i + a - N) = (IF i + b < N THEN i + b ELSE i + b - N)
  BY <1>1
<1>4. CASE i + a < N
  BY <1>2, <1>3, <1>4
<1>5. CASE ~(i + a < N)
  BY <1>2, <1>3, <1>5
<1> QED
  BY <1>4, <1>5

LEMMA AheadOnto ==
  ASSUME NEW i \in Bds, NEW x \in Bds
  PROVE  \E j \in 0 .. N - 1 : x = Ahead(i, j)
<1> DEFINE j == IF x >= i THEN x - i ELSE x - i + N
<1>1. j \in 0 .. N - 1
  BY NAssumption DEF Bds
<1>2. Ahead(i, j) = IF i + j < N THEN i + j ELSE i + j - N
  BY <1>1, AheadIs, NAssumption
<1>3. x = Ahead(i, j)
  BY <1>2, NAssumption DEF Bds
<1> QED
  BY <1>1, <1>3

LEMMA AheadTwice ==
  ASSUME NEW i \in Bds, NEW a \in 0 .. N, NEW b \in 0 .. N
  PROVE  /\ Ahead(Ahead(i, a), b) = IF a + b <= N THEN Ahead(i, a + b) ELSE Ahead(i, a + b - N)
         /\ Ahead(i, a) \in Bds /\ Ahead(i, 0) = i /\ Ahead(i, N) = i
<1>1. Ahead(i, a) \in Bds /\ Ahead(i, a) = IF i + a < N THEN i + a ELSE i + a - N
  BY AheadIs
<1>2. Ahead(i, 0) = i /\ Ahead(i, N) = i
  <2>1. 0 \in 0 .. N /\ N \in 0 .. N
    BY NAssumption
  <2>2. /\ Ahead(i, 0) = IF i + 0 < N THEN i + 0 ELSE i + 0 - N
        /\ Ahead(i, N) = IF i + N < N THEN i + N ELSE i + N - N
    BY <2>1, AheadIs
  <2> QED
    BY <2>2, NAssumption DEF Bds
<1> DEFINE c == Ahead(i, a)
           d == Ahead(c, b)
<1>3. c \in Bds /\ c = IF i + a < N THEN i + a ELSE i + a - N
  BY <1>1
<1> HIDE DEF c
<1>4. d \in Bds /\ d = IF c + b < N THEN c + b ELSE c + b - N
  BY <1>3, AheadIs
<1> HIDE DEF d
<1>5. CASE a + b <= N
  <2>1. Ahead(i, a + b) = IF i + (a + b) < N THEN i + (a + b) ELSE i + (a + b) - N
    BY <1>5, AheadIs, NAssumption
  <2> DEFINE e == Ahead(i, a + b)
  <2>2. e = IF i + (a + b) < N THEN i + (a + b) ELSE i + (a + b) - N
    BY <2>1
  <2> HIDE DEF e
  <2>3. d = e
    BY <1>3, <1>4, <1>5, <2>2, NAssumption DEF Bds
  <2> QED
    BY <1>1, <1>5, <1>2, <2>3 DEF c, d, e
<1>6. CASE a + b > N
  <2>1. a + b - N \in 0 .. N
    BY <1>6, NAssumption
  <2>2. Ahead(i, a + b - N) = IF i + (a + b - N) < N THEN i + (a + b - N) ELSE i + (a + b - N) - N
    BY <2>1, AheadIs
  <2> DEFINE e == Ahead(i, a + b - N)
  <2>3. e = IF i + (a + b - N) < N THEN i + (a + b - N) ELSE i + (a + b - N) - N
    BY <2>2
  <2> HIDE DEF e
  <2>4. d = e
    BY <1>3, <1>4, <1>6, <2>3, NAssumption DEF Bds
  <2>5. ~(a + b <= N)
    BY <1>6, NAssumption
  <2> QED
    BY <1>1, <1>2, <2>4, <2>5 DEF c, d, e
<1> QED
  BY <1>5, <1>6, NAssumption

LEMMA ListTail ==
  ASSUME NEW S, NEW q \in Seq(S), q # <<>>
  PROVE  /\ Tail(q) \in Seq(S) /\ Head(q) \in S /\ Head(q) = q[1] /\ 1 \in DOMAIN q
         /\ DOMAIN q = 1 .. Len(q) /\ Len(q) \in Nat
         /\ \A i \in DOMAIN Tail(q) : i + 1 \in DOMAIN q /\ Tail(q)[i] = q[i + 1] /\ i \in Nat \ {0}
         /\ \A i \in DOMAIN q : i # 1 => i - 1 \in DOMAIN Tail(q) /\ Tail(q)[i - 1] = q[i]
<1>1. DOMAIN q = 1 .. Len(q) /\ Len(q) \in Nat /\ Len(q) # 0 /\ Head(q) = q[1]
  OBVIOUS
<1>2. /\ Tail(q) \in Seq(S) /\ DOMAIN Tail(q) = 1 .. Len(q) - 1
      /\ \A i \in 1 .. Len(q) - 1 : Tail(q)[i] = q[i + 1]
  OBVIOUS
<1> QED
  BY <1>1, <1>2

-----------------------------------------------------------------------------
(***************************************************************************)
(* Types, counters and the table, whether the ring was crowded or not.     *)
(***************************************************************************)
Basic == TypeOK /\ Shape

LEMMA Numbers ==
  ASSUME Basic
  PROVE  /\ N \in Nat \ {0} /\ MaxFrames \in Nat /\ Lengths \subseteq Nat \ {0}
         /\ freeHead \in Bds /\ hwHead \in Bds
         /\ freeCnt \in Nat /\ preCnt \in Nat /\ hwCnt \in Nat /\ left \in Nat
         /\ freeCnt + InUse = N /\ InUse \in 0 .. N
         /\ freeHead = Ahead(hwHead, InUse)
         /\ queued \in 0 .. MaxFrames /\ done \in 0 .. MaxFrames
BY NAssumption, MaxFramesAssumption, LengthsAssumption DEF Basic, TypeOK, Shape, InUse

\* The frame taken from the queue.
LEMMA TheFrame ==
  ASSUME Basic, queue # <<>>
  PROVE  /\ Frame.id \in 1 .. MaxFrames /\ Frame.len \in Nat \ {0}
         /\ m0 = NoFrame => Frame.id = Issued + 1
         /\ Tail(queue) \in Seq(Queued) /\ Len(Tail(queue)) = Len(queue) - 1
         /\ \A i \in DOMAIN Tail(queue) : Tail(queue)[i].id = (queued - Len(Tail(queue))) + i
         /\ Len(queue) \in Nat
<1>1. /\ queue \in Seq(Queued) /\ m0 \in Queued \cup {NoFrame}
      /\ \A i \in DOMAIN queue : queue[i].id = queued - Len(queue) + i
      /\ queued \in Nat /\ Lengths \subseteq Nat \ {0}
  BY Numbers DEF Basic, Shape, Issued
<1> DEFINE t == Tail(queue)
           h == Head(queue)
<1>2. /\ t \in Seq(Queued) /\ h \in Queued /\ h = queue[1] /\ 1 \in DOMAIN queue
      /\ Len(queue) \in Nat
      /\ \A i \in DOMAIN t : i + 1 \in DOMAIN queue /\ t[i] = queue[i + 1] /\ i \in Nat
  BY <1>1, ListTail
<1>3. Len(t) = Len(queue) - 1
  BY <1>1
<1>4. Frame = IF m0 = NoFrame THEN h ELSE m0
  BY DEF Frame
<1> HIDE DEF t, h
<1>5. Frame \in Queued
  BY <1>1, <1>2, <1>4
<1>6. Frame.id \in 1 .. MaxFrames /\ Frame.len \in Nat \ {0}
  BY <1>1, <1>5 DEF Queued
<1>7. m0 = NoFrame => Frame.id = Issued + 1
  BY <1>1, <1>2, <1>4 DEF Issued
<1>8. \A i \in DOMAIN t : t[i].id = (queued - Len(t)) + i
  BY <1>1, <1>2, <1>3
<1> QED
  BY <1>2, <1>3, <1>6, <1>7, <1>8 DEF t

LEMMA InitBasic == Init => Basic
<1> SUFFICES ASSUME Init PROVE Basic
  OBVIOUS
<1>1. N \in Nat \ {0} /\ MaxFrames \in Nat /\ 0 \in Bds
  BY NAssumption, MaxFramesAssumption DEF Bds
<1>2. Ahead(0, 0) = 0
  BY <1>1, AheadTwice
<1>3. TypeOK
  BY <1>1, <1>2 DEF Init, TypeOK, Idle, NoScan
<1>4. Shape
  BY <1>1 DEF Init, Shape, NoScan, Issued
<1> QED
  BY <1>3, <1>4 DEF Basic

LEMMA StartBasic ==
  ASSUME Basic, NEW n \in Lengths, eth_emacps_interface_start(n)
  PROVE  Basic'
<1> USE DEF eth_emacps_interface_start, ringVars
<1>1. TypeOK'
  <2>1. queued' \in 0 .. MaxFrames
    BY MaxFramesAssumption DEF Basic, TypeOK
  <2>2. UNCHANGED <<ringVars, bd, table, pc, left, scan, done, hw>>
    OBVIOUS
  <2> HIDE DEF eth_emacps_interface_start
  <2> QED
    BY <2>1, <2>2 DEF Basic, TypeOK
<1>2. queue' \in Seq(Queued) /\ Issued' = Issued /\ \A i \in DOMAIN queue' : queue'[i].id = Issued + i
  <2> DEFINE e == [id |-> queued + 1, len |-> n]
  <2>1. e \in Queued /\ queue \in Seq(Queued) /\ queued \in Nat /\ e.id = queued + 1
    BY MaxFramesAssumption DEF Queued, Basic, Shape, TypeOK
  <2>2. queue' = Append(queue, e) /\ queued' = queued + 1
    OBVIOUS
  <2> HIDE DEF e
  <2>3. /\ queue' \in Seq(Queued) /\ Len(queue') = Len(queue) + 1 /\ Len(queue) \in Nat
        /\ DOMAIN queue' = DOMAIN queue \cup {Len(queue) + 1} /\ queue'[Len(queue) + 1] = e
        /\ \A i \in DOMAIN queue : queue'[i] = queue[i]
    BY <2>1, <2>2
  <2>4. Issued' = Issued /\ Issued + (Len(queue) + 1) = queued + 1
    BY <2>1, <2>2, <2>3 DEF Issued
  <2>5. \A i \in DOMAIN queue : queue[i].id = Issued + i
    BY DEF Basic, Shape
  <2> QED
    BY <2>1, <2>3, <2>4, <2>5
<1>3. Shape'
  BY <1>2 DEF Basic, Shape, NoFrame
<1> QED
  BY <1>1, <1>3 DEF Basic

LEMMA WakeBasic ==
  ASSUME Basic, Wake
  PROVE  Basic'
<1> USE DEF Wake, ringVars, stackVars
<1>1. scan' = scan \/ scan' = [cur |-> hwHead, count |-> 0, partial |-> 0, sop |-> FALSE, limit |-> hwCnt]
  BY DEF NoScan
<1>2. TypeOK'
  BY <1>1 DEF Basic, TypeOK
<1>3. Shape'
  <2>1. scan' \in [cur : Bds, count : Nat, partial : Nat, sop : BOOLEAN, limit : Nat]
    <3>1. /\ hwHead \in Bds /\ hwCnt \in Nat
          /\ scan \in [cur : Bds, count : Nat, partial : Nat, sop : BOOLEAN, limit : Nat]
      BY Numbers DEF Basic, Shape
    <3> HIDE DEF Wake
    <3>2. [cur |-> hwHead, count |-> 0, partial |-> 0, sop |-> FALSE, limit |-> hwCnt]
             \in [cur : Bds, count : Nat, partial : Nat, sop : BOOLEAN, limit : Nat]
      BY <3>1
    <3>3. CASE scan' = scan
      BY <3>1, <3>3
    <3>4. CASE scan' # scan
      BY <1>1, <3>2, <3>4
    <3> QED
      BY <3>3, <3>4
  <2>2. pc' = "scan" => scan'.limit = hwCnt'
    BY DEF NoScan
  <2> QED
    BY <2>1, <2>2 DEF Basic, Shape, Issued
<1> QED
  BY <1>2, <1>3 DEF Basic

LEMMA ScanBasic ==
  ASSUME Basic, XEmacPs_BdRingFromHwTx
  PROVE  Basic'
<1> DEFINE sop == scan.sop \/ bd[scan.cur].used
           n == IF sop THEN 1 ELSE 0
           ends == sop /\ bd[scan.cur].last
           par == IF ends THEN 0 ELSE scan.partial + n
           more == sop /\ ~bd[scan.cur].last
<1>1. /\ pc = "scan" /\ scan.count < scan.limit
      /\ scan' = [scan EXCEPT !.cur = Ahead(@, 1), !.count = @ + n, !.partial = par, !.sop = more]
      /\ UNCHANGED <<ringVars, bd, table, pc, left, m0, stackVars, event, hw, done, torn, crowded>>
  BY DEF XEmacPs_BdRingFromHwTx
<1>2. n \in {0, 1} /\ more \in BOOLEAN /\ par \in {0, scan.partial + n}
  OBVIOUS
<1> HIDE DEF n, more, par
<1>3. /\ scan.cur \in Bds /\ scan.count \in 0 .. scan.limit /\ scan.partial \in 0 .. scan.count
      /\ scan \in [cur : Bds, count : Nat, partial : Nat, sop : BOOLEAN, limit : Nat]
  BY DEF Basic, TypeOK, Shape
<1>4. Ahead(scan.cur, 1) \in Bds
  BY <1>3, AheadIs, NAssumption
<1>5. scan' = [cur |-> Ahead(scan.cur, 1), count |-> scan.count + n, partial |-> par, sop |-> more,
               limit |-> scan.limit]
  BY <1>1, <1>3
<1>6. /\ scan'.cur \in Bds /\ scan'.count \in 0 .. scan'.limit /\ scan'.partial \in 0 .. scan'.count
      /\ scan' \in [cur : Bds, count : Nat, partial : Nat, sop : BOOLEAN, limit : Nat]
      /\ scan'.limit = scan.limit
  BY <1>1, <1>2, <1>3, <1>4, <1>5
<1>7. TypeOK'
  BY <1>1, <1>6 DEF Basic, TypeOK, ringVars, stackVars
<1>8. Shape'
  BY <1>1, <1>6 DEF Basic, Shape, Issued, ringVars, stackVars
<1> QED
  BY <1>7, <1>8 DEF Basic

\* What the scan found is at most what the controller has.
LEMMA FoundIs ==
  ASSUME Basic, pc = "scan"
  PROVE  Found \in 0 .. hwCnt /\ preCnt = 0 /\ left = 0 /\ InUse = hwCnt
<1>1. /\ scan.count \in 0 .. hwCnt /\ scan.partial \in 0 .. scan.count /\ preCnt = 0 /\ left = 0
      /\ hwCnt \in Nat
  BY NAssumption DEF Basic, TypeOK, Shape
<1> QED
  BY <1>1 DEF Found, InUse

LEMMA ReclaimBasic ==
  ASSUME Basic, Reclaim
  PROVE  Basic'
<1>1. /\ pc = "scan" /\ pc' = "send" /\ hwHead' = Ahead(hwHead, Found)
      /\ hwCnt' = hwCnt - Found /\ freeCnt' = freeCnt + Found /\ scan' = NoScan
      /\ table' = [i \in Bds |-> IF i \in From(hwHead, Found) THEN 0 ELSE table[i]]
      /\ bd' = [i \in Bds |-> IF i \in From(hwHead, Found) THEN Idle ELSE bd[i]]
      /\ UNCHANGED <<freeHead, preCnt, left, m0, stackVars, event, hw, done, torn, crowded>>
  BY DEF Reclaim, Reset
<1>2. /\ Found \in 0 .. hwCnt /\ preCnt = 0 /\ left = 0 /\ hwCnt \in 0 .. N /\ freeCnt \in 0 .. N
      /\ freeCnt + preCnt + hwCnt = N /\ hwHead \in Bds /\ freeHead = Ahead(hwHead, hwCnt) /\ N \in Nat \ {0}
  BY <1>1, FoundIs, NAssumption DEF Basic, TypeOK
<1>3. hwHead' \in Bds /\ freeHead' = Ahead(hwHead', hwCnt' + preCnt')
  <2>1. Found \in 0 .. N /\ hwCnt - Found \in 0 .. N /\ Found + (hwCnt - Found) = hwCnt
    BY <1>2
  <2>2. /\ Ahead(hwHead, Found) \in Bds
        /\ Ahead(Ahead(hwHead, Found), hwCnt - Found) = Ahead(hwHead, Found + (hwCnt - Found))
    BY <1>2, <2>1, AheadTwice
  <2> QED
    BY <1>1, <1>2, <2>1, <2>2
<1>4. /\ table' \in [Bds -> 0 .. MaxFrames]
      /\ bd' \in [Bds -> [used : BOOLEAN, last : BOOLEAN, frame : 0 .. MaxFrames]]
  BY <1>1, MaxFramesAssumption DEF Basic, TypeOK, Idle
<1>5. /\ freeCnt' \in 0 .. N /\ hwCnt' \in 0 .. N /\ preCnt' \in 0 .. N
      /\ freeCnt' + preCnt' + hwCnt' = N
  BY <1>1, <1>2
<1>6. /\ scan'.cur \in Bds /\ scan'.count \in 0 .. scan'.limit /\ scan'.partial \in 0 .. scan'.count
      /\ scan' \in [cur : Bds, count : Nat, partial : Nat, sop : BOOLEAN, limit : Nat]
  BY <1>1, NAssumption DEF NoScan, Bds
<1>7. TypeOK'
  BY <1>1, <1>3, <1>4, <1>5, <1>6 DEF Basic, TypeOK, stackVars
<1>8. Shape'
  BY <1>1, <1>6 DEF Basic, Shape, Issued, stackVars
<1> QED
  BY <1>7, <1>8 DEF Basic

LEMMA EmptyBasic ==
  ASSUME Basic, QueueEmpty
  PROVE  Basic'
<1> USE DEF QueueEmpty, ringVars
<1>1. TypeOK'
  BY DEF Basic, TypeOK
<1>2. Shape'
  BY DEF Basic, Shape, Issued
<1> QED
  BY <1>1, <1>2 DEF Basic

LEMMA TakeBasic ==
  ASSUME Basic, queue # <<>>, queue' = Tail(queue), queued' = queued
  PROVE  /\ queue' \in Seq(Queued) /\ \A i \in DOMAIN queue' : queue'[i].id = Issued' + i
         /\ Issued' = Issued + 1
BY TheFrame, Numbers DEF Issued

LEMMA FullBasic ==
  ASSUME Basic, RingFull
  PROVE  Basic'
<1> USE DEF RingFull, ringVars
<1>1. TypeOK'
  BY DEF Basic, TypeOK
<1>2. /\ queue' \in Seq(Queued) /\ \A i \in DOMAIN queue' : queue'[i].id = Issued' + i
  BY TakeBasic
<1>3. m0' \in Queued \cup {NoFrame}
  BY ListTail DEF Frame, Basic, Shape
<1>4. Shape'
  BY <1>2, <1>3 DEF Basic, Shape
<1> QED
  BY <1>1, <1>4 DEF Basic

LEMMA FewBasic ==
  ASSUME Basic, TooFewBds
  PROVE  Basic'
<1> USE DEF TooFewBds, ringVars
<1>1. TypeOK'
  BY DEF Basic, TypeOK
<1>2. /\ queue' \in Seq(Queued) /\ \A i \in DOMAIN queue' : queue'[i].id = Issued' + i
  BY TakeBasic
<1>3. crowded' \in BOOLEAN
  BY DEF Crowding, Basic, Shape
<1>4. Shape'
  BY <1>2, <1>3 DEF Basic, Shape
<1> QED
  BY <1>1, <1>4 DEF Basic

LEMMA SendBasic ==
  ASSUME Basic, eth_emacps_sgsend
  PROVE  Basic'
<1> DEFINE l == Frame.len
           d == Frame.id
           set == From(freeHead, l)
           end == Ahead(freeHead, l - 1)
<1>1. /\ pc = "send" /\ queue # <<>> /\ l <= freeCnt
      /\ table' = [i \in Bds |-> IF i \in set THEN d ELSE table[i]]
      /\ bd' = [i \in Bds |-> IF i \in set THEN [used |-> TRUE, last |-> i = end, frame |-> d] ELSE bd[i]]
      /\ freeHead' = Ahead(freeHead, l) /\ freeCnt' = freeCnt - l /\ preCnt' = l /\ left' = l
      /\ m0' = NoFrame /\ queue' = Tail(queue) /\ pc' = "handover"
      /\ crowded' = (crowded \/ 2 * (N - freeCnt + l) > N)
      /\ UNCHANGED <<hwHead, hwCnt, scan, oactive, queued, event, hw, done, torn>>
  BY DEF eth_emacps_sgsend, Crowding
<1>2. l \in Nat \ {0} /\ d \in 1 .. MaxFrames
  BY <1>1, TheFrame
<1> HIDE DEF l, d, set, end
<1>3. /\ freeCnt \in 0 .. N /\ preCnt = 0 /\ hwCnt \in 0 .. N /\ N \in Nat \ {0}
      /\ freeCnt + hwCnt = N /\ hwHead \in Bds /\ freeHead = Ahead(hwHead, hwCnt)
  BY <1>1, NAssumption DEF Basic, TypeOK, Shape
<1>4. freeHead' \in Bds /\ freeHead' = Ahead(hwHead', hwCnt' + preCnt')
  <2>1. Ahead(Ahead(hwHead, hwCnt), l) = Ahead(hwHead, hwCnt + l) /\ Ahead(hwHead, hwCnt + l) \in Bds
    BY <1>1, <1>2, <1>3, AheadTwice, AheadIs
  <2> QED
    BY <1>1, <1>3, <2>1
<1>5. /\ table' \in [Bds -> 0 .. MaxFrames]
      /\ bd' \in [Bds -> [used : BOOLEAN, last : BOOLEAN, frame : 0 .. MaxFrames]]
  <2>1. \A i : [used |-> TRUE, last |-> i = end, frame |-> d]
                  \in [used : BOOLEAN, last : BOOLEAN, frame : 0 .. MaxFrames]
    BY <1>2, MaxFramesAssumption
  <2>2. /\ table \in [Bds -> 0 .. MaxFrames]
        /\ bd \in [Bds -> [used : BOOLEAN, last : BOOLEAN, frame : 0 .. MaxFrames]]
    BY DEF Basic, TypeOK
  <2> QED
    BY <1>1, <1>2, <2>1, <2>2, MaxFramesAssumption
<1>6. /\ freeCnt' \in 0 .. N /\ hwCnt' \in 0 .. N /\ preCnt' \in 0 .. N /\ left' \in 0 .. N
      /\ freeCnt' + preCnt' + hwCnt' = N /\ left' <= preCnt'
  <2>1. freeCnt' = freeCnt - l /\ preCnt' = l /\ left' = l /\ hwCnt' = hwCnt /\ l <= freeCnt
    BY <1>1
  <2>2. l \in Nat /\ freeCnt \in Nat /\ hwCnt \in Nat /\ N \in Nat /\ freeCnt + hwCnt = N
    BY <1>2, <1>3
  <2>3. /\ freeCnt - l \in 0 .. N /\ l \in 0 .. N /\ hwCnt \in 0 .. N
        /\ (freeCnt - l) + l + hwCnt = N /\ l <= l
    BY <2>1, <2>2
  <2> QED
    BY <2>1, <2>3
<1>7. TypeOK'
  BY <1>1, <1>4, <1>5, <1>6 DEF Basic, TypeOK
<1>8. queue' \in Seq(Queued) /\ \A i \in DOMAIN queue' : queue'[i].id = Issued' + i
  BY <1>1, TakeBasic
<1>9. crowded' \in BOOLEAN
  BY <1>1 DEF Basic, Shape
<1>10. Shape'
  BY <1>1, <1>6, <1>8, <1>9 DEF Basic, Shape
<1> QED
  BY <1>7, <1>10 DEF Basic

\* A BD whose used bit changes keeps the rest.
LEMMA UsedBit ==
  ASSUME Basic, NEW k \in Bds, NEW v \in BOOLEAN, bd' = [bd EXCEPT ![k].used = v]
  PROVE  /\ bd' \in [Bds -> [used : BOOLEAN, last : BOOLEAN, frame : 0 .. MaxFrames]]
         /\ \A i \in Bds : /\ bd'[i].used = IF i = k THEN v ELSE bd[i].used
                           /\ bd'[i].last = bd[i].last /\ bd'[i].frame = bd[i].frame
<1>1. bd \in [Bds -> [used : BOOLEAN, last : BOOLEAN, frame : 0 .. MaxFrames]]
  BY DEF Basic, TypeOK
<1> DEFINE r == [bd[k] EXCEPT !.used = v]
<1>2. /\ r \in [used : BOOLEAN, last : BOOLEAN, frame : 0 .. MaxFrames]
      /\ r.used = v /\ r.last = bd[k].last /\ r.frame = bd[k].frame
  BY <1>1
<1>3. bd' = [bd EXCEPT ![k] = r]
  OBVIOUS
<1> HIDE DEF r
<1>4. bd' \in [Bds -> [used : BOOLEAN, last : BOOLEAN, frame : 0 .. MaxFrames]]
  BY <1>1, <1>2, <1>3
<1>5. \A i \in Bds : bd'[i] = IF i = k THEN r ELSE bd[i]
  BY <1>1, <1>3
<1>6. ASSUME NEW i \in Bds
      PROVE  /\ bd'[i].used = IF i = k THEN v ELSE bd[i].used
             /\ bd'[i].last = bd[i].last /\ bd'[i].frame = bd[i].frame
  <2>1. CASE i = k
    BY <1>2, <1>5, <2>1
  <2>2. CASE i # k
    BY <1>5, <2>2
  <2> QED
    BY <2>1, <2>2
<1> QED
  BY <1>4, <1>6

\* The BD handed over is one of those filled.
LEMMA HandedOver ==
  ASSUME Basic, left > 0
  PROVE  /\ Ahead(freeHead, N - preCnt + left - 1) = Ahead(hwHead, hwCnt + left - 1)
         /\ hwCnt + left - 1 \in hwCnt .. InUse - 1 /\ InUse \in 1 .. N
         /\ Ahead(hwHead, hwCnt + left - 1) \in Bds
<1>1. /\ left \in 1 .. preCnt /\ preCnt \in 1 .. N /\ hwCnt \in Nat /\ hwCnt + preCnt <= N /\ N \in Nat \ {0}
      /\ hwHead \in Bds /\ freeHead = Ahead(hwHead, hwCnt + preCnt)
  BY NAssumption DEF Basic, TypeOK, Shape
<1>2. Ahead(Ahead(hwHead, hwCnt + preCnt), N - preCnt + left - 1) = Ahead(hwHead, hwCnt + left - 1)
  <2> DEFINE a == hwCnt + preCnt
             b == N - preCnt + left - 1
  <2>1. a \in 0 .. N /\ b \in 0 .. N
    BY <1>1
  <2>2. Ahead(Ahead(hwHead, a), b) = IF a + b <= N THEN Ahead(hwHead, a + b) ELSE Ahead(hwHead, a + b - N)
    BY <1>1, <2>1, AheadTwice
  <2>3. CASE a + b = N
    <3>1. a + b - N = 0 /\ hwCnt + left - 1 = 0
      BY <1>1, <2>3
    <3>2. Ahead(hwHead, N) = Ahead(hwHead, 0)
      BY <1>1, AheadTwice
    <3> QED
      BY <1>1, <2>1, <2>2, <2>3, <3>1, <3>2
  <2>4. CASE a + b # N
    <3>1. a + b - N = hwCnt + left - 1 /\ ~(a + b <= N)
      BY <1>1, <2>4
    <3> QED
      BY <2>2, <3>1
  <2> QED
    BY <2>3, <2>4
<1>3. hwCnt + left - 1 \in 0 .. N
  BY <1>1
<1> QED
  BY <1>1, <1>2, <1>3, AheadIs DEF InUse

LEMMA HandOverBasic ==
  ASSUME Basic, HandOver
  PROVE  Basic'
<1>1. /\ pc = "handover" /\ left > 0 /\ left' = left - 1
      /\ bd' = [bd EXCEPT ![Ahead(hwHead, hwCnt + left - 1)].used = FALSE]
      /\ UNCHANGED <<ringVars, table, pc, scan, m0, stackVars, event, hw, done, torn, crowded>>
  BY HandedOver DEF HandOver
<1>2. bd' \in [Bds -> [used : BOOLEAN, last : BOOLEAN, frame : 0 .. MaxFrames]]
  BY <1>1, HandedOver, UsedBit
<1>3. TypeOK'
  BY <1>1, <1>2, NAssumption DEF Basic, TypeOK, ringVars, stackVars
<1>4. Shape'
  <2>1. left \in Nat /\ preCnt \in Nat /\ left <= preCnt
    BY NAssumption DEF Basic, Shape, TypeOK
  <2>2. left' <= preCnt' /\ pc' = "handover"
    BY <1>1, <2>1 DEF ringVars
  <2> QED
    BY <1>1, <2>2 DEF Basic, Shape, Issued, ringVars, stackVars
<1> QED
  BY <1>3, <1>4 DEF Basic

LEMMA SubmitBasic ==
  ASSUME Basic, Submit
  PROVE  Basic'
<1> USE DEF Submit, XEmacPs_BdRingToHw, XEmacPs_Transmit, stackVars
<1>1. hw' \in [pos : Bds, first : Bds, mid : BOOLEAN, running : BOOLEAN]
  BY DEF Basic, Shape
<1>2. TypeOK'
  BY <1>1, NAssumption DEF Basic, TypeOK
<1>3. Shape'
  BY <1>1 DEF Basic, Shape, Issued
<1> QED
  BY <1>2, <1>3 DEF Basic

LEMMA ControllerBasic ==
  ASSUME Basic, Controller
  PROVE  Basic'
<1>1. /\ hw \in [pos : Bds, first : Bds, mid : BOOLEAN, running : BOOLEAN]
      /\ torn \in BOOLEAN /\ Ahead(hw.pos, 1) \in Bds
      /\ bd \in [Bds -> [used : BOOLEAN, last : BOOLEAN, frame : 0 .. MaxFrames]]
  <2>1. hw \in [pos : Bds, first : Bds, mid : BOOLEAN, running : BOOLEAN]
    BY DEF Basic, Shape
  <2>2. hw.pos \in Bds
    BY <2>1
  <2> QED
    BY <2>1, <2>2, AheadIs, NAssumption DEF Basic, Shape, TypeOK
<1>2. CASE HwHalt
  <2>1. hw' \in [pos : Bds, first : Bds, mid : BOOLEAN, running : BOOLEAN] /\ torn' \in BOOLEAN
    BY <1>1, <1>2 DEF HwHalt
  <2>2. TypeOK'
    BY <1>2, <2>1 DEF Basic, TypeOK, HwHalt, ringVars, stackVars
  <2>3. Shape'
    BY <1>2, <2>1 DEF Basic, Shape, HwHalt, ringVars, stackVars, Issued
  <2> QED
    BY <2>2, <2>3 DEF Basic
<1>3. CASE HwFragment
  <2>1. hw' \in [pos : Bds, first : Bds, mid : BOOLEAN, running : BOOLEAN]
    BY <1>1, <1>3 DEF HwFragment
  <2>2. TypeOK'
    BY <1>3, <2>1 DEF Basic, TypeOK, HwFragment, ringVars, stackVars
  <2>3. Shape'
    BY <1>3, <2>1 DEF Basic, Shape, HwFragment, ringVars, stackVars, Issued
  <2> QED
    BY <2>2, <2>3 DEF Basic
<1>4. CASE eth_emacps_send_handler
  <2>1. hw' \in [pos : Bds, first : Bds, mid : BOOLEAN, running : BOOLEAN]
    BY <1>1, <1>4 DEF eth_emacps_send_handler
  <2> DEFINE first == IF hw.mid THEN hw.first ELSE hw.pos
  <2>2. first \in Bds /\ bd' = [bd EXCEPT ![first].used = TRUE]
    BY <1>1, <1>4 DEF eth_emacps_send_handler
  <2> HIDE DEF first
  <2>3. bd' \in [Bds -> [used : BOOLEAN, last : BOOLEAN, frame : 0 .. MaxFrames]]
    BY <2>2, UsedBit
  <2>4. done' \in 0 .. MaxFrames
    <3>1. bd[hw.pos] \in [used : BOOLEAN, last : BOOLEAN, frame : 0 .. MaxFrames]
      BY <1>1
    <3> QED
      BY <3>1, <1>4 DEF eth_emacps_send_handler
  <2>5. TypeOK'
    BY <1>4, <2>1, <2>3, <2>4 DEF Basic, TypeOK, eth_emacps_send_handler, ringVars, stackVars
  <2>6. Shape'
    BY <1>4, <2>1 DEF Basic, Shape, eth_emacps_send_handler, ringVars, stackVars, Issued
  <2> QED
    BY <2>5, <2>6 DEF Basic
<1> QED
  BY <1>2, <1>3, <1>4 DEF Controller

LEMMA StepBasic == Basic /\ [Next]_vars => Basic'
<1> SUFFICES ASSUME Basic, [Next]_vars PROVE Basic'
  OBVIOUS
<1>1. CASE UNCHANGED vars
  <2>1. TypeOK'
    BY <1>1 DEF Basic, TypeOK, vars, ringVars, stackVars
  <2>2. Shape'
    BY <1>1 DEF Basic, Shape, Issued, vars, ringVars, stackVars
  <2> QED
    BY <2>1, <2>2 DEF Basic
<1> QED
  BY <1>1, StartBasic, WakeBasic, ScanBasic, ReclaimBasic, EmptyBasic, FullBasic, FewBasic, SendBasic,
     HandOverBasic, SubmitBasic, ControllerBasic DEF Next, Task

-----------------------------------------------------------------------------
(***************************************************************************)
(* The ring by positions, while it was never more than half full.          *)
(***************************************************************************)
LEMMA Positions ==
  ASSUME Basic
  PROVE  /\ \A j \in 0 .. N : Ahead(hwHead, j) \in Bds
         /\ \A j \in 0 .. N - 1 : Of(j) \in 0 .. MaxFrames /\ Kept(j) \in 0 .. MaxFrames
         /\ InUse \in 0 .. N /\ Issued \in Int /\ hwCnt \in 0 .. InUse
<1>1. \A j \in 0 .. N : Ahead(hwHead, j) \in Bds
  BY Numbers, AheadIs
<1>2. /\ bd \in [Bds -> [used : BOOLEAN, last : BOOLEAN, frame : 0 .. MaxFrames]]
      /\ table \in [Bds -> 0 .. MaxFrames]
  BY DEF Basic, TypeOK
<1>3. \A i \in Bds : bd[i].frame \in 0 .. MaxFrames /\ table[i] \in 0 .. MaxFrames
  BY <1>2
<1>4. queue \in Seq(Queued)
  BY DEF Basic, Shape
<1>5. Len(queue) \in Nat
  BY <1>4
<1> QED
  BY <1>1, <1>3, <1>5, Numbers DEF Of, Kept, Issued, InUse

LEMMA RingsStay ==
  ASSUME Rings, UNCHANGED <<bd, table, hwHead, hwCnt, preCnt, m0, torn>>, Issued' = Issued
  PROVE  Rings'
BY DEF Rings, Rising, InUse, Marked, Ends, Of, Kept

LEMMA WalkStays ==
  ASSUME NEW s \in 0 .. N, NEW c \in 0 .. N, Walk(s, c), Issued' = Issued,
         UNCHANGED <<bd, hwHead, hwCnt, preCnt, left, hw, done>>
  PROVE  Walk(s, c)'
BY DEF Walk, InUse, Marked, Ends, Of

LEMMA ScannedStays ==
  ASSUME NEW s \in 0 .. N, NEW c \in 0 .. N, Steady(s, c),
         UNCHANGED <<pc, scan, hwHead, hwCnt, preCnt>>, UNCHANGED bd,
         NEW t \in 0 .. N, s <= t, Basic
  PROVE  (pc = "scan" => \E x \in 0 .. N : Scanned(t, x))'
<1> SUFFICES ASSUME pc' = "scan"
             PROVE  \E x \in 0 .. N : Scanned(t, x)'
  OBVIOUS
<1>1. pc = "scan"
  OBVIOUS
<1>2. PICK x \in 0 .. N : Scanned(s, x)
  BY <1>1 DEF Steady
<1>3. scan.count \in Nat /\ scan.partial \in Nat /\ N \in Nat
  BY NAssumption DEF Basic, Shape
<1>4. Scanned(t, x)
  BY <1>2, <1>3 DEF Scanned
<1>5. Scanned(t, x)'
  BY <1>4 DEF Scanned, InUse, Ends
<1> QED
  BY <1>5

\* Where the controller stands.
LEMMA AtWork ==
  ASSUME Basic, Rings, NEW s \in 0 .. N, NEW c \in 0 .. N, Walk(s, c)
  PROVE  /\ hw.pos \in Bds /\ c \in 0 .. N - 1 /\ InUse \in 0 .. N - 1
         /\ bd[hw.pos].used <=> Marked(c)
         /\ bd[hw.pos].last <=> Ends(c)
         /\ bd[hw.pos].frame = Of(c)
         /\ ~Marked(c) => c < InUse /\ Of(c) = done + 1
         /\ Marked(c) => s = c
<1>1. /\ N \in Nat \ {0} /\ 2 * InUse <= N /\ c <= InUse /\ s <= c /\ hwCnt \in 0 .. InUse /\ InUse \in 0 .. N
      /\ hw.pos = Ahead(hwHead, c) /\ \A j \in 0 .. N : Ahead(hwHead, j) \in Bds
      /\ \A j \in 0 .. N - 1 : Of(j) \in 0 .. MaxFrames
      /\ done \in 0 .. MaxFrames /\ left \in Nat
  BY Numbers, Positions DEF Rings, Walk
<1>2. InUse \in 0 .. N - 1 /\ c \in 0 .. N - 1
  BY <1>1
<1>3. hw.pos \in Bds
  BY <1>1
<1>4. /\ bd[hw.pos].used <=> Marked(c)
      /\ bd[hw.pos].last <=> Ends(c)
      /\ bd[hw.pos].frame = Of(c)
  BY <1>1 DEF Marked, Ends, Of
<1>5. ASSUME ~Marked(c)
      PROVE  c < InUse /\ Of(c) = done + 1
  <2>1. c < InUse
    BY <1>1, <1>2, <1>5 DEF Rings
  <2>2. CASE s = c
    BY <2>1, <2>2 DEF Walk
  <2>3. CASE s < c
    <3>1. c - 1 \in s .. c - 1 /\ c \in 1 .. InUse - 1
      BY <1>1, <1>2, <2>1, <2>3
    <3>2. ~Ends(c - 1) /\ Of(c - 1) = done + 1
      BY <3>1 DEF Walk
    <3>3. Of(c) = Of(c - 1) + IF Ends(c - 1) THEN 1 ELSE 0
      BY <3>1 DEF Rings, Rising
    <3> QED
      BY <1>1, <2>1, <3>2, <3>3
  <2> QED
    BY <1>1, <1>2, <2>1, <2>2, <2>3
<1>6. ASSUME Marked(c), s < c
      PROVE  FALSE
  <2>1. c - 1 \in s .. c - 1 /\ s \in s .. c - 1 /\ s \in s .. InUse - 1
    BY <1>1, <1>2, <1>6
  <2>2. ~Ends(c - 1) /\ ~Marked(s)
    BY <2>1 DEF Walk
  <2>3. c < InUse
    BY <1>1, <1>6, <2>2 DEF Rings
  <2>4. c \in s .. InUse - 1
    BY <1>1, <1>2, <1>6, <2>3
  <2>5. c \in hwCnt .. hwCnt + left - 1 /\ s \notin hwCnt .. hwCnt + left - 1
    BY <1>6, <2>1, <2>2, <2>4 DEF Walk
  <2>6. s < hwCnt /\ hwCnt <= c
    BY <1>1, <1>6, <2>5
  <2>7. hwCnt - 1 \in s .. c - 1 /\ hwCnt > 0
    BY <1>1, <1>6, <2>6
  <2>8. ~Ends(hwCnt - 1)
    BY <2>7 DEF Walk
  <2> QED
    BY <2>7, <2>8 DEF Rings
<1> QED
  BY <1>1, <1>2, <1>3, <1>4, <1>5, <1>6

-----------------------------------------------------------------------------
LEMMA StartQuiet ==
  ASSUME Basic, Rings, NEW s \in 0 .. N, NEW c \in 0 .. N, Steady(s, c),
         NEW n \in Lengths, eth_emacps_interface_start(n)
  PROVE  Rings' /\ Steady(s, c)'
<1>1. Issued' = Issued
  <2>1. queue \in Seq(Queued) /\ queued \in Nat
    BY Numbers DEF Basic, Shape
  <2> DEFINE e == [id |-> queued + 1, len |-> n]
  <2>2. e \in Queued /\ queue' = Append(queue, e) /\ queued' = queued + 1
    BY MaxFramesAssumption, Numbers DEF Queued, eth_emacps_interface_start
  <2> HIDE DEF e
  <2>3. Len(queue') = Len(queue) + 1 /\ Len(queue) \in Nat
    BY <2>1, <2>2
  <2> QED
    BY <2>1, <2>2, <2>3 DEF Issued
<1>2. /\ UNCHANGED <<bd, table, hwHead, hwCnt, preCnt, m0, torn>>
      /\ UNCHANGED <<left, hw, done, pc, scan>> /\ pc = "wait"
  BY DEF eth_emacps_interface_start, ringVars
<1>3. Rings' /\ Walk(s, c)'
  BY <1>1, <1>2, RingsStay, WalkStays DEF Steady
<1> QED
  BY <1>2, <1>3 DEF Steady

LEMMA WakeQuiet ==
  ASSUME Basic, Rings, NEW s \in 0 .. N, NEW c \in 0 .. N, Steady(s, c), Wake
  PROVE  Rings' /\ Steady(s, c)'
<1>1. /\ UNCHANGED <<bd, table, hwHead, hwCnt, preCnt, m0, torn>>
      /\ UNCHANGED <<left, hw, done>> /\ pc = "wait" /\ Issued' = Issued
  BY DEF Wake, ringVars, stackVars, Issued
<1>2. Rings' /\ Walk(s, c)'
  BY <1>1, RingsStay, WalkStays DEF Steady
<1>3. ASSUME pc' = "scan"
      PROVE  Scanned(s, 0)'
  <2>1. /\ scan'.cur = hwHead /\ scan'.count = 0 /\ scan'.partial = 0 /\ scan'.sop = FALSE
        /\ hwCnt # 0
    BY <1>3 DEF Wake, NoScan
  <2>2. InUse' > 0 /\ InUse' \in Nat
    BY <1>1, <2>1, Numbers DEF InUse
  <2>3. Ahead(hwHead', 0) = hwHead
    BY <1>1, Numbers, AheadTwice
  <2>4. /\ scan'.cur = Ahead(hwHead', 0) /\ scan'.count <= 0 /\ ~(0 >= InUse')
        /\ scan'.count - scan'.partial <= s /\ ~scan'.sop
    BY <2>1, <2>2, <2>3, NAssumption
  <2> QED
    BY <2>4 DEF Scanned
<1>4. 0 \in 0 .. N
  BY NAssumption
<1> QED
  BY <1>2, <1>3, <1>4 DEF Steady

LEMMA ScanQuiet ==
  ASSUME Basic, Rings, NEW s \in 0 .. N, NEW c \in 0 .. N, Steady(s, c), XEmacPs_BdRingFromHwTx
  PROVE  Rings' /\ Steady(s, c)'
<1>1. /\ UNCHANGED <<bd, table, hwHead, hwCnt, preCnt, m0, torn>>
      /\ UNCHANGED <<left, hw, done, pc>> /\ pc = "scan" /\ Issued' = Issued
  BY DEF XEmacPs_BdRingFromHwTx, ringVars, stackVars, Issued
<1>2. Rings' /\ Walk(s, c)'
  BY <1>1, RingsStay, WalkStays DEF Steady
<1>3. PICK x \in 0 .. N : Scanned(s, x)
  BY <1>1 DEF Steady
<1>4. /\ N \in Nat \ {0} /\ 2 * InUse <= N /\ InUse \in 0 .. N /\ preCnt = 0 /\ left = 0 /\ hwCnt = InUse
      /\ scan.count \in Nat /\ scan.partial \in 0 .. scan.count /\ scan.limit = InUse
      /\ scan \in [cur : Bds, count : Nat, partial : Nat, sop : BOOLEAN, limit : Nat]
      /\ hwHead \in Bds
  BY <1>1, Numbers, FoundIs DEF Basic, Shape, Rings, TypeOK
<1>5. x < N /\ scan.count < InUse
  <2>1. scan.count < InUse
    BY <1>4 DEF XEmacPs_BdRingFromHwTx
  <2> QED
    BY <1>3, <1>4, <2>1 DEF Scanned
<1> DEFINE sop == scan.sop \/ Marked(x)
           n == IF sop THEN 1 ELSE 0
           par == IF sop /\ Ends(x) THEN 0 ELSE scan.partial + n
           more == sop /\ ~Ends(x)
<1>6. scan' = [scan EXCEPT !.cur = Ahead(@, 1), !.count = @ + n, !.partial = par, !.sop = more]
  <2>1. scan.cur = Ahead(hwHead, x)
    BY <1>3 DEF Scanned
  <2> QED
    BY <2>1 DEF XEmacPs_BdRingFromHwTx, Marked, Ends
<1> HIDE DEF sop, n, par, more
<1>7. /\ scan'.cur = Ahead(hwHead, x + 1) /\ scan'.count = scan.count + n
      /\ scan'.partial = par /\ scan'.sop = more
  <2>1. Ahead(Ahead(hwHead, x), 1) = Ahead(hwHead, x + 1)
    BY <1>4, <1>5, AheadTwice
  <2>2. scan.cur = Ahead(hwHead, x)
    BY <1>3 DEF Scanned
  <2> QED
    BY <1>4, <1>6, <2>1, <2>2
<1>8. /\ scan.count + n <= x + 1
      /\ x + 1 >= InUse => (x + 1) - InUse <= scan.count + n
      /\ (scan.count + n) - par <= s
      /\ more => (x < s /\ ~Ends(x)) \/ x >= InUse
  <2>1. /\ n \in {0, 1} /\ (sop <=> n = 1)
        /\ par = IF sop /\ Ends(x) THEN 0 ELSE scan.partial + n
        /\ more <=> sop /\ ~Ends(x)
    BY DEF n, par, more
  <2>2. /\ scan.count <= x /\ (x >= InUse => x - InUse <= scan.count)
        /\ scan.count - scan.partial <= s
        /\ scan.sop => x > 0 /\ ((x - 1 < s /\ ~Ends(x - 1)) \/ x - 1 >= InUse)
    BY <1>3 DEF Scanned
  <2>3. CASE x < s
    <3>1. s <= InUse
      BY <1>4 DEF Steady, Walk
    <3> QED
      BY <1>4, <2>1, <2>2, <2>3, <3>1
  <2>4. CASE s <= x /\ x < InUse
    <3>1. x \in s .. InUse - 1 /\ s \in s .. InUse - 1 /\ s <= InUse
      BY <1>4, <2>4
    <3>2. ~Marked(x)
      BY <1>4, <3>1 DEF Steady, Walk
    <3>3. ASSUME scan.sop
          PROVE  FALSE
      <4>1. x = s /\ s > 0 /\ ~Ends(s - 1)
        BY <1>4, <2>2, <2>4, <3>3
      <4>2. s \in 1 .. InUse - 1 /\ s - 1 \in 0 .. s - 1
        BY <1>4, <3>1, <4>1
      <4>3. Of(s) = Of(s - 1) + IF Ends(s - 1) THEN 1 ELSE 0
        BY <4>2 DEF Rings, Rising
      <4>4. Of(s - 1) <= done /\ Of(s) > done
        BY <3>1, <4>2 DEF Steady, Walk
      <4>5. Of(s) \in Int /\ Of(s - 1) \in Int /\ done \in Int
        BY <1>4, <4>2, Positions, Numbers
      <4> QED
        BY <4>1, <4>3, <4>4, <4>5
    <3>4. ~sop
      BY <3>2, <3>3 DEF sop
    <3> QED
      BY <1>4, <2>1, <2>2, <2>4, <3>4
  <2>5. CASE x >= InUse
    <3>1. Marked(x) /\ ~Ends(x)
      BY <1>4, <1>5, <2>5 DEF Rings
    <3>2. sop
      BY <3>1 DEF sop
    <3> QED
      BY <1>4, <2>1, <2>2, <2>5, <3>1, <3>2
  <2> QED
    BY <1>4, <2>3, <2>4, <2>5
<1>9. Scanned(s, x + 1)'
  <2>1. x + 1 > 0 /\ (x + 1) - 1 = x /\ InUse' = InUse /\ (Ends(x)' <=> Ends(x)) /\ hwHead' = hwHead
    BY <1>1, <1>4 DEF InUse, Ends
  <2> QED
    BY <1>7, <1>8, <2>1 DEF Scanned
<1>10. x + 1 \in 0 .. N
  BY <1>4, <1>5
<1> QED
  BY <1>2, <1>9, <1>10 DEF Steady

\* The ring counted from behind the BDs reclaimed.
LEMMA Shifted ==
  ASSUME Basic, Reclaim, NEW j \in 0 .. N - 1
  PROVE  /\ Found + j < N => /\ Of(j)' = Of(Found + j) /\ Kept(j)' = Kept(Found + j)
                             /\ Marked(j)' <=> Marked(Found + j)
                             /\ Ends(j)' <=> Ends(Found + j)
         /\ Found + j >= N => Marked(j)' /\ ~Ends(j)' /\ Kept(j)' = 0
<1> DEFINE f == Found
<1>1. /\ pc = "scan" /\ hwHead' = Ahead(hwHead, f)
      /\ table' = [i \in Bds |-> IF i \in From(hwHead, f) THEN 0 ELSE table[i]]
      /\ bd' = [i \in Bds |-> IF i \in From(hwHead, f) THEN Idle ELSE bd[i]]
  BY DEF Reclaim, Reset
<1>2. /\ f \in 0 .. hwCnt /\ hwCnt \in 0 .. N /\ N \in Nat \ {0} /\ hwHead \in Bds
  BY <1>1, FoundIs, Numbers
<1> SUFFICES /\ f + j < N => /\ Of(j)' = Of(f + j) /\ Kept(j)' = Kept(f + j)
                             /\ Marked(j)' <=> Marked(f + j)
                             /\ Ends(j)' <=> Ends(f + j)
             /\ f + j >= N => Marked(j)' /\ ~Ends(j)' /\ Kept(j)' = 0
  OBVIOUS
<1> HIDE DEF f
<1>3. \A i \in 0 .. N : Ahead(hwHead', i) = Ahead(hwHead, IF f + i <= N THEN f + i ELSE f + i - N)
  BY <1>1, <1>2, AheadTwice
<1>4. From(hwHead, f) = {Ahead(hwHead, k) : k \in 0 .. f - 1}
  BY DEF From
<1>5. ASSUME NEW k \in 0 .. N - 1
      PROVE  /\ Ahead(hwHead, k) \in Bds
             /\ Ahead(hwHead, k) \in From(hwHead, f) <=> k < f
  <2>1. Ahead(hwHead, k) \in Bds
    BY <1>2, AheadIs
  <2>2. ASSUME NEW i \in 0 .. f - 1, Ahead(hwHead, k) = Ahead(hwHead, i)
        PROVE  k = i
    BY <1>2, <2>2, AheadInjective
  <2> QED
    BY <1>2, <1>4, <2>1, <2>2
<1> DEFINE k == IF f + j < N THEN f + j ELSE f + j - N
<1>6. k \in 0 .. N - 1 /\ (f + j < N => k = f + j /\ ~(k < f)) /\ (f + j >= N => k < f)
  BY <1>2
<1>7. Ahead(hwHead', j) = Ahead(hwHead, k)
  <2>1. CASE f + j = N
    <3>1. Ahead(hwHead', j) = Ahead(hwHead, N) /\ k = 0
      BY <1>2, <1>3, <2>1
    <3> QED
      BY <1>2, <3>1, AheadTwice
  <2>2. CASE f + j # N
    BY <1>2, <1>3, <2>2
  <2> QED
    BY <2>1, <2>2
<1> HIDE DEF k
<1>8. /\ Ahead(hwHead, k) \in Bds
      /\ Ahead(hwHead, k) \in From(hwHead, f) <=> k < f
  BY <1>5, <1>6
<1>9. /\ bd'[Ahead(hwHead, k)] = IF k < f THEN Idle ELSE bd[Ahead(hwHead, k)]
      /\ table'[Ahead(hwHead, k)] = IF k < f THEN 0 ELSE table[Ahead(hwHead, k)]
  BY <1>1, <1>8
<1>10. CASE f + j < N
  <2>1. k = f + j /\ bd'[Ahead(hwHead', j)] = bd[Ahead(hwHead, k)]
                  /\ table'[Ahead(hwHead', j)] = table[Ahead(hwHead, k)]
    BY <1>6, <1>7, <1>9, <1>10
  <2> QED
    BY <1>2, <1>10, <2>1 DEF Of, Kept, Marked, Ends
<1>11. CASE f + j >= N
  <2>1. bd'[Ahead(hwHead', j)] = Idle /\ table'[Ahead(hwHead', j)] = 0
    BY <1>6, <1>7, <1>9, <1>11
  <2> QED
    BY <1>2, <1>11, <2>1 DEF Marked, Ends, Kept, Idle
<1> QED
  BY <1>2, <1>10, <1>11

\* The fragments reclaimed are those of frames that were sent, and the ring goes
\* on behind them.
LEMMA ReclaimQuiet ==
  ASSUME Basic, Rings, NEW s \in 0 .. N, NEW c \in 0 .. N, Steady(s, c), Reclaim
  PROVE  Rings' /\ \E t, e \in 0 .. N : Steady(t, e)'
<1> DEFINE f == Found
<1>1. /\ pc = "scan" /\ pc' = "send" /\ hwHead' = Ahead(hwHead, f) /\ hwCnt' = hwCnt - f
      /\ table' = [i \in Bds |-> IF i \in From(hwHead, f) THEN 0 ELSE table[i]]
      /\ bd' = [i \in Bds |-> IF i \in From(hwHead, f) THEN Idle ELSE bd[i]]
      /\ UNCHANGED <<preCnt, left, m0, hw, done, torn>> /\ Issued' = Issued
  BY DEF Reclaim, Reset, stackVars, Issued
<1>2. /\ f \in 0 .. hwCnt /\ preCnt = 0 /\ left = 0 /\ InUse = hwCnt /\ hwCnt \in 0 .. N /\ N \in Nat \ {0}
      /\ hwHead \in Bds /\ 2 * InUse <= N /\ s <= c /\ c <= InUse /\ done \in Nat
  BY <1>1, FoundIs, Numbers DEF Rings, Steady, Walk
<1>3. f <= s
  BY <1>1 DEF Steady, Scanned, Found
<1> HIDE DEF f
<1>4. InUse' = InUse - f /\ hwCnt' = InUse' /\ InUse' \in 0 .. N
  BY <1>1, <1>2 DEF InUse
<1>5. ASSUME NEW j \in 0 .. N - 1
      PROVE  /\ f + j < N => /\ Of(j)' = Of(f + j) /\ Kept(j)' = Kept(f + j)
                             /\ Marked(j)' <=> Marked(f + j)
                             /\ Ends(j)' <=> Ends(f + j)
             /\ f + j >= N => Marked(j)' /\ ~Ends(j)'
  BY Shifted DEF f
<1>6. ASSUME NEW j \in 0 .. InUse' - 1
      PROVE  j \in 0 .. N - 1 /\ f + j < N /\ f + j \in 0 .. InUse - 1
  BY <1>2, <1>4
<1>7. Rings'
  <2>1. 2 * InUse' <= N /\ m0' = NoFrame /\ ~torn'
    BY <1>1, <1>2, <1>4 DEF Rings
  <2>2. ASSUME NEW j \in InUse' .. N - 1
        PROVE  Marked(j)' /\ ~Ends(j)'
    <3>1. j \in 0 .. N - 1 /\ (f + j < N => f + j \in InUse .. N - 1)
      BY <1>2, <1>4
    <3> QED
      BY <1>2, <1>5, <3>1 DEF Rings
  <2>3. ASSUME NEW j \in 0 .. InUse' - 1
        PROVE  Kept(j)' = Of(j)'
    BY <1>5, <1>6 DEF Rings
  <2>4. Rising'
    <3>1. ASSUME NEW i \in 0 .. InUse' - 1, NEW j \in 0 .. InUse' - 1, i < j
          PROVE  /\ Of(i)' <= Of(j)'
                 /\ Ends(i)' => Of(i)' < Of(j)'
      <4>1. f + i \in 0 .. InUse - 1 /\ f + j \in 0 .. InUse - 1 /\ f + i < f + j
        BY <1>2, <1>4, <1>6, <3>1
      <4>2. /\ Of(f + i) <= Of(f + j)
            /\ Ends(f + i) => Of(f + i) < Of(f + j)
        BY <4>1 DEF Rings, Rising
      <4> QED
        BY <1>5, <1>6, <4>2
    <3>2. ASSUME NEW j \in 1 .. InUse' - 1
          PROVE  Of(j)' = Of(j - 1)' + IF Ends(j - 1)' THEN 1 ELSE 0
      <4> DEFINE i == j - 1
      <4>1. i \in 0 .. InUse' - 1 /\ j \in 0 .. InUse' - 1 /\ f + j \in 1 .. InUse - 1 /\ f + i = (f + j) - 1
        BY <1>2, <1>4
      <4> HIDE DEF i
      <4>2. Of(f + j) = Of(f + i) + IF Ends(f + i) THEN 1 ELSE 0
        BY <4>1 DEF Rings, Rising
      <4>3. Of(j)' = Of(i)' + IF Ends(i)' THEN 1 ELSE 0
        BY <1>5, <1>6, <4>1, <4>2
      <4> QED
        BY <4>3 DEF i
    <3> QED
      BY <3>1, <3>2 DEF Rising
  <2>5. (InUse > 0 => Ends(InUse - 1) /\ Of(InUse - 1) = Issued)'
    <3> SUFFICES ASSUME InUse' > 0 PROVE (Ends(InUse - 1) /\ Of(InUse - 1) = Issued)'
      OBVIOUS
    <3>1. PICK k \in 0 .. InUse' - 1 : k = InUse' - 1 /\ f + k = InUse - 1 /\ InUse > 0
      BY <1>2, <1>4
    <3>2. Ends(k)' /\ Of(k)' = Issued'
      BY <1>1, <1>5, <1>6, <3>1 DEF Rings
    <3> QED
      BY <3>1, <3>2 DEF Ends, Of
  <2>6. (hwCnt > 0 => Ends(hwCnt - 1))'
    BY <1>4, <2>5 DEF Ends
  <2> QED
    BY <2>1, <2>2, <2>3, <2>4, <2>5, <2>6 DEF Rings
<1>8. \E t, e \in 0 .. N : Walk(t, e)' /\ t = s - f /\ e = c - f
  <2>1. PICK t \in 0 .. N, e \in 0 .. N : t = s - f /\ e = c - f
    BY <1>2, <1>3
  <2>2. t <= e /\ e <= InUse'
    BY <1>2, <1>4, <2>1
  <2>3. ASSUME NEW j \in 0 .. t - 1
        PROVE  Of(j)' <= done'
    <3>1. j \in 0 .. InUse' - 1 /\ f + j \in 0 .. s - 1
      BY <1>2, <1>3, <1>4, <2>1
    <3>2. Of(f + j) <= done
      BY <3>1 DEF Steady, Walk
    <3> QED
      BY <1>1, <1>5, <1>6, <3>1, <3>2
  <2>4. ASSUME NEW j \in t .. InUse' - 1
        PROVE  Of(j)' > done' /\ (Marked(j)' <=> j \in hwCnt' .. hwCnt' + left' - 1)
    <3>1. j \in 0 .. InUse' - 1 /\ f + j \in s .. InUse - 1
      BY <1>2, <1>3, <1>4, <2>1
    <3>2. Of(f + j) > done /\ ~Marked(f + j)
      BY <1>2, <3>1 DEF Steady, Walk
    <3>3. j \notin hwCnt' .. hwCnt' + left' - 1
      BY <1>1, <1>2, <1>4, <3>1
    <3> QED
      BY <1>1, <1>5, <1>6, <3>1, <3>2, <3>3
  <2>5. IF t < InUse' THEN Of(t)' = done' + 1 ELSE done' = Issued'
    <3>1. CASE t < InUse'
      <4>1. t \in 0 .. InUse' - 1 /\ f + t = s /\ s < InUse
        BY <1>2, <1>3, <1>4, <2>1, <3>1
      <4>2. Of(s) = done + 1
        BY <4>1 DEF Steady, Walk
      <4>3. Of(t)' = done' + 1
        BY <1>1, <1>5, <1>6, <4>1, <4>2
      <4> QED
        BY <3>1, <4>3
    <3>2. CASE ~(t < InUse')
      <4>1. ~(s < InUse)
        BY <1>2, <1>4, <2>1, <3>2
      <4>2. done' = Issued'
        BY <1>1, <4>1 DEF Steady, Walk
      <4> QED
        BY <3>2, <4>2
    <3> QED
      BY <3>1, <3>2
  <2>6. ASSUME NEW j \in t .. e - 1
        PROVE  ~Ends(j)' /\ ~Marked(j)' /\ Of(j)' = done' + 1
    <3>1. j \in 0 .. InUse' - 1 /\ f + j \in s .. c - 1
      BY <1>2, <1>3, <1>4, <2>1
    <3>2. ~Ends(f + j) /\ ~Marked(f + j) /\ Of(f + j) = done + 1
      BY <3>1 DEF Steady, Walk
    <3> QED
      BY <1>1, <1>5, <1>6, <3>1, <3>2
  <2>7. Ahead(hwHead', e) = Ahead(hwHead, c) /\ Ahead(hwHead', t) = Ahead(hwHead, s)
    BY <1>1, <1>2, <1>3, <2>1, AheadTwice
  <2>8. /\ hw'.pos = Ahead(hwHead', e)
        /\ hw'.mid <=> t < e
        /\ hw'.mid => hw'.first = Ahead(hwHead', t)
    <3>1. t < e <=> s < c
      BY <1>2, <2>1
    <3> QED
      BY <1>1, <2>7, <3>1 DEF Steady, Walk
  <2>9. ~hw'.running => hwCnt' <= t
    <3>1. ~hw.running => hwCnt <= s
      BY DEF Steady, Walk
    <3> QED
      BY <1>1, <1>2, <2>1, <3>1
  <2>10. Walk(t, e)'
    BY <2>2, <2>3, <2>4, <2>5, <2>6, <2>8, <2>9 DEF Walk
  <2> QED
    BY <2>1, <2>10
<1> QED
  BY <1>1, <1>7, <1>8 DEF Steady

\* Of the frames that find no room, none leaves the ring less than half full.
LEMMA NoRoomCrowds ==
  ASSUME Basic, Rings, RingFull \/ TooFewBds
  PROVE  crowded'
<1>1. /\ N \in Nat \ {0} /\ freeCnt \in Nat /\ freeCnt + InUse = N /\ InUse \in 0 .. N /\ 2 * InUse <= N
  BY Numbers DEF Rings
<1>2. ~RingFull
  BY <1>1 DEF RingFull
<1>3. TooFewBds /\ Frame.len \in Nat \ {0}
  BY <1>2, TheFrame DEF TooFewBds
<1>4. 2 * (N - freeCnt + Frame.len) > N
  BY <1>1, <1>3 DEF TooFewBds
<1> QED
  BY <1>3, <1>4 DEF TooFewBds, Crowding

LEMMA EmptyQuiet ==
  ASSUME Basic, Rings, NEW s \in 0 .. N, NEW c \in 0 .. N, Steady(s, c), QueueEmpty
  PROVE  Rings' /\ Steady(s, c)'
<1>1. /\ UNCHANGED <<bd, table, hwHead, hwCnt, preCnt, m0, torn>>
      /\ UNCHANGED <<left, hw, done>> /\ pc' = "wait" /\ Issued' = Issued
  BY DEF QueueEmpty, ringVars, Issued
<1> QED
  BY <1>1, RingsStay, WalkStays DEF Steady

\* The BDs filled, and the others as they were.
LEMMA Filled ==
  ASSUME Basic, eth_emacps_sgsend, NEW j \in 0 .. N - 1
  PROVE  /\ j \notin InUse .. InUse + Frame.len - 1 => /\ Of(j)' = Of(j) /\ Kept(j)' = Kept(j)
                                                       /\ Marked(j)' <=> Marked(j)
                                                       /\ Ends(j)' <=> Ends(j)
         /\ j \in InUse .. InUse + Frame.len - 1 =>
              /\ Of(j)' = Frame.id /\ Kept(j)' = Frame.id /\ Marked(j)'
              /\ Ends(j)' <=> j = InUse + Frame.len - 1
<1> DEFINE l == Frame.len
           d == Frame.id
           u == InUse
           set == From(freeHead, l)
           end == Ahead(freeHead, l - 1)
<1>1. /\ queue # <<>> /\ l <= freeCnt /\ hwHead' = hwHead
      /\ table' = [i \in Bds |-> IF i \in set THEN d ELSE table[i]]
      /\ bd' = [i \in Bds |-> IF i \in set THEN [used |-> TRUE, last |-> i = end, frame |-> d] ELSE bd[i]]
  BY DEF eth_emacps_sgsend
<1>2. l \in Nat \ {0}
  BY <1>1, TheFrame
<1>3. /\ N \in Nat \ {0} /\ hwHead \in Bds /\ freeHead = Ahead(hwHead, u) /\ u \in 0 .. N
      /\ freeCnt + u = N
  BY Numbers
<1>4. u + l <= N
  BY <1>1, <1>2, <1>3, Numbers
<1> SUFFICES /\ j \notin u .. u + l - 1 => /\ Of(j)' = Of(j) /\ Kept(j)' = Kept(j)
                                           /\ Marked(j)' <=> Marked(j)
                                           /\ Ends(j)' <=> Ends(j)
             /\ j \in u .. u + l - 1 => /\ Of(j)' = d /\ Kept(j)' = d /\ Marked(j)'
                                        /\ Ends(j)' <=> j = u + l - 1
  OBVIOUS
<1> HIDE DEF l, d, u
<1>5. \A k \in 0 .. l - 1 : Ahead(freeHead, k) = Ahead(hwHead, u + k)
  BY <1>2, <1>3, <1>4, AheadTwice
<1>6. ASSUME NEW i \in 0 .. N - 1
      PROVE  /\ Ahead(hwHead, i) \in Bds
             /\ Ahead(hwHead, i) \in set <=> i \in u .. u + l - 1
             /\ Ahead(hwHead, i) = end <=> i = u + l - 1
  <2>1. Ahead(hwHead, i) \in Bds
    BY <1>3, AheadIs
  <2>2. set = {Ahead(hwHead, u + k) : k \in 0 .. l - 1} /\ end = Ahead(hwHead, u + (l - 1))
    BY <1>2, <1>5 DEF From
  <2> HIDE DEF set, end
  <2>3. ASSUME NEW k \in 0 .. l - 1, Ahead(hwHead, i) = Ahead(hwHead, u + k)
        PROVE  i = u + k
    <3>1. u + k \in 0 .. N - 1
      BY <1>2, <1>3, <1>4
    <3> QED
      BY <1>3, <2>3, <3>1, AheadInjective
  <2>4. ASSUME i \in u .. u + l - 1
        PROVE  Ahead(hwHead, i) \in set
    <3>1. i - u \in 0 .. l - 1 /\ u + (i - u) = i
      BY <1>2, <1>3, <2>4
    <3> QED
      BY <2>2, <3>1
  <2>5. l - 1 \in 0 .. l - 1 /\ u + (l - 1) = u + l - 1
    BY <1>2, <1>3
  <2>6. Ahead(hwHead, i) \in set => i \in u .. u + l - 1
    BY <1>2, <1>3, <2>2, <2>3
  <2>7. Ahead(hwHead, i) = end <=> i = u + l - 1
    BY <2>2, <2>3, <2>5
  <2> QED
    BY <2>1, <2>4, <2>6, <2>7
<1> HIDE DEF set, end
<1>7. hwHead' = hwHead
  BY <1>1
<1>8. CASE j \in u .. u + l - 1
  <2>1. /\ bd'[Ahead(hwHead, j)] = [used |-> TRUE, last |-> Ahead(hwHead, j) = end, frame |-> d]
        /\ table'[Ahead(hwHead, j)] = d
    BY <1>1, <1>6, <1>8
  <2>2. Ahead(hwHead, j) = end <=> j = u + l - 1
    BY <1>6
  <2>3. /\ bd'[Ahead(hwHead, j)].used /\ bd'[Ahead(hwHead, j)].frame = d
        /\ bd'[Ahead(hwHead, j)].last <=> j = u + l - 1
    <3> DEFINE r == bd'[Ahead(hwHead, j)]
               e == Ahead(hwHead, j) = end
    <3>1. r = [used |-> TRUE, last |-> e, frame |-> d]
      BY <2>1
    <3> HIDE DEF r, e
    <3>2. r.used = TRUE /\ r.frame = d /\ r.last = e
      BY <3>1
    <3>3. e <=> j = u + l - 1
      BY <2>2 DEF e
    <3>4. r.used /\ r.frame = d /\ (r.last <=> j = u + l - 1)
      BY <3>2, <3>3
    <3> QED
      BY <3>4 DEF r
  <2> QED
    BY <1>7, <1>8, <2>1, <2>3 DEF Of, Kept, Marked, Ends
<1>9. CASE j \notin u .. u + l - 1
  <2>1. /\ bd'[Ahead(hwHead, j)] = bd[Ahead(hwHead, j)]
        /\ table'[Ahead(hwHead, j)] = table[Ahead(hwHead, j)]
    BY <1>1, <1>6, <1>9
  <2> QED
    BY <1>7, <1>9, <2>1 DEF Of, Kept, Marked, Ends
<1> QED
  BY <1>8, <1>9

\* A frame put into the ring follows the ones there.
LEMMA SendQuiet ==
  ASSUME Basic, Rings, NEW s \in 0 .. N, NEW c \in 0 .. N, Steady(s, c), eth_emacps_sgsend, ~crowded'
  PROVE  Rings' /\ Steady(s, c)'
<1> DEFINE l == Frame.len
           d == Frame.id
           set == From(freeHead, l)
           end == Ahead(freeHead, l - 1)
<1>1. /\ pc = "send" /\ queue # <<>> /\ l <= freeCnt
      /\ table' = [i \in Bds |-> IF i \in set THEN d ELSE table[i]]
      /\ bd' = [i \in Bds |-> IF i \in set THEN [used |-> TRUE, last |-> i = end, frame |-> d] ELSE bd[i]]
      /\ preCnt' = l /\ left' = l /\ m0' = NoFrame /\ pc' = "handover"
      /\ crowded' = (crowded \/ 2 * (N - freeCnt + l) > N)
      /\ UNCHANGED <<hwHead, hwCnt, hw, done, torn>> /\ Issued' = Issued + 1
  BY TakeBasic DEF eth_emacps_sgsend, Crowding
<1>2. l \in Nat \ {0} /\ d = Issued + 1
  BY <1>1, TheFrame DEF Rings
<1> HIDE DEF l, d, set, end
<1> DEFINE u == InUse
<1>3. /\ N \in Nat \ {0} /\ hwHead \in Bds /\ freeHead = Ahead(hwHead, u) /\ freeCnt + u = N /\ u \in 0 .. N
      /\ preCnt = 0 /\ left = 0 /\ hwCnt = u /\ s <= c /\ c <= u /\ Issued \in Int /\ done \in Int
      /\ \A j \in 0 .. N - 1 : Of(j) \in 0 .. MaxFrames
  <2>1. preCnt = 0 /\ left = 0 /\ hwCnt \in Nat
    BY <1>1, Numbers DEF Basic, Shape
  <2>2. hwCnt = InUse
    BY <2>1 DEF InUse
  <2>3. s <= c /\ c <= InUse
    BY DEF Steady, Walk
  <2> QED
    BY <2>1, <2>2, <2>3, Numbers, Positions
<1>4. InUse' = u + l /\ 2 * (u + l) <= N /\ hwCnt' = u
  <2>1. ~(2 * (N - freeCnt + l) > N)
    BY <1>1
  <2>2. InUse' = u + l /\ hwCnt' = u
    BY <1>1, <1>2, <1>3 DEF InUse
  <2>3. freeCnt = N - u
    BY <1>3, Numbers
  <2> HIDE DEF u
  <2> QED
    BY <1>2, <1>3, <2>1, <2>2, <2>3
<1>5. ASSUME NEW j \in 0 .. N - 1
      PROVE  /\ j \notin u .. u + l - 1 => /\ Of(j)' = Of(j) /\ Kept(j)' = Kept(j)
                                           /\ Marked(j)' <=> Marked(j)
                                           /\ Ends(j)' <=> Ends(j)
             /\ j \in u .. u + l - 1 => /\ Of(j)' = d /\ Kept(j)' = d /\ Marked(j)'
                                        /\ Ends(j)' <=> j = u + l - 1
  BY Filled DEF l, d
<1>6. ASSUME NEW j \in 0 .. u - 1
      PROVE  /\ j \in 0 .. N - 1 /\ Of(j)' = Of(j) /\ Kept(j)' = Kept(j)
             /\ Marked(j)' <=> Marked(j)
             /\ Ends(j)' <=> Ends(j)
  BY <1>2, <1>3, <1>5
<1>7. ASSUME NEW j \in u .. u + l - 1
      PROVE  /\ j \in 0 .. N - 1 /\ Of(j)' = d /\ Kept(j)' = d /\ Marked(j)'
             /\ Ends(j)' <=> j = u + l - 1
  <2>1. j \in 0 .. N - 1
    BY <1>2, <1>3, <1>4
  <2> QED
    BY <1>5, <2>1
<1>8. \A j \in 0 .. u - 1 : Of(j) <= Issued
  <2> SUFFICES ASSUME NEW j \in 0 .. u - 1 PROVE Of(j) <= Issued
    OBVIOUS
  <2>1. u - 1 \in 0 .. u - 1 /\ u > 0 /\ Of(u - 1) = Issued
    BY <1>3 DEF Rings
  <2>2. j < u - 1 => Of(j) <= Of(u - 1)
    BY <1>3, <2>1 DEF Rings, Rising
  <2> QED
    BY <1>3, <2>1, <2>2
<1>9. Rings'
  <2>1. 2 * InUse' <= N /\ m0' = NoFrame /\ ~torn'
    BY <1>1, <1>4 DEF Rings
  <2>2. ASSUME NEW j \in InUse' .. N - 1
        PROVE  Marked(j)' /\ ~Ends(j)'
    <3>1. j \in 0 .. N - 1 /\ j \notin u .. u + l - 1 /\ j \in u .. N - 1
      BY <1>2, <1>3, <1>4
    <3>2. Marked(j) /\ ~Ends(j)
      BY <3>1 DEF Rings
    <3> QED
      BY <1>5, <3>1, <3>2
  <2>3. ASSUME NEW j \in 0 .. InUse' - 1
        PROVE  j \in 0 .. u - 1 \/ j \in u .. u + l - 1
    BY <1>2, <1>3, <1>4
  <2>4. ASSUME NEW j \in 0 .. InUse' - 1
        PROVE  Kept(j)' = Of(j)'
    <3>1. CASE j \in 0 .. u - 1
      BY <1>6, <3>1 DEF Rings
    <3>2. CASE j \in u .. u + l - 1
      BY <1>7, <3>2
    <3> QED
      BY <2>3, <3>1, <3>2
  <2>5. Rising'
    <3>1. ASSUME NEW i \in 0 .. InUse' - 1, NEW j \in 0 .. InUse' - 1, i < j
          PROVE  /\ Of(i)' <= Of(j)'
                 /\ Ends(i)' => Of(i)' < Of(j)'
      <4>1. CASE j \in 0 .. u - 1
        <5>1. i \in 0 .. u - 1
          BY <1>3, <3>1, <4>1
        <5>2. /\ Of(i) <= Of(j)
              /\ Ends(i) => Of(i) < Of(j)
          BY <3>1, <4>1, <5>1 DEF Rings, Rising
        <5> QED
          BY <1>6, <4>1, <5>1, <5>2
      <4>2. CASE j \in u .. u + l - 1 /\ i \in 0 .. u - 1
        <5>1. Of(j)' = Issued + 1 /\ Of(i)' = Of(i) /\ Of(i) <= Issued /\ Of(i) \in Int
          BY <1>2, <1>3, <1>6, <1>7, <1>8, <4>2
        <5> QED
          BY <1>3, <5>1
      <4>3. CASE j \in u .. u + l - 1 /\ i \in u .. u + l - 1
        <5>1. Of(j)' = d /\ Of(i)' = d /\ ~Ends(i)'
          BY <1>2, <1>3, <1>7, <3>1, <4>3
        <5> QED
          BY <1>2, <1>3, <5>1
      <4> QED
        BY <2>3, <4>1, <4>2, <4>3
    <3>2. ASSUME NEW j \in 1 .. InUse' - 1
          PROVE  Of(j)' = Of(j - 1)' + IF Ends(j - 1)' THEN 1 ELSE 0
      <4>0. PICK i \in 0 .. InUse' - 1 : i = j - 1 /\ j \in 0 .. InUse' - 1 /\ i < j
        BY <1>2, <1>3, <1>4
      <4>1. CASE j \in 0 .. u - 1
        <5>1. i \in 0 .. u - 1 /\ j \in 1 .. u - 1
          BY <1>3, <4>0, <4>1
        <5>2. Of(j) = Of(i) + IF Ends(i) THEN 1 ELSE 0
          BY <4>0, <5>1 DEF Rings, Rising
        <5>3. Of(j)' = Of(i)' + IF Ends(i)' THEN 1 ELSE 0
          BY <1>6, <4>1, <5>1, <5>2
        <5> QED
          BY <4>0, <5>3
      <4>2. CASE j \in u .. u + l - 1 /\ i \in 0 .. u - 1
        <5>1. i = u - 1 /\ u > 0
          BY <1>2, <1>3, <4>0, <4>2
        <5>2. Ends(i) /\ Of(i) = Issued
          BY <5>1 DEF Rings
        <5>3. Of(j)' = Issued + 1 /\ Of(i)' = Issued /\ Ends(i)'
          BY <1>2, <1>6, <1>7, <4>2, <5>2
        <5> QED
          BY <1>3, <4>0, <5>3
      <4>3. CASE j \in u .. u + l - 1 /\ i \in u .. u + l - 1
        <5>1. Of(j)' = d /\ Of(i)' = d /\ ~Ends(i)'
          BY <1>2, <1>3, <1>7, <4>0, <4>3
        <5>2. d = d + 0
          BY <1>2, <1>3
        <5> QED
          BY <4>0, <5>1, <5>2
      <4> QED
        BY <2>3, <4>0, <4>1, <4>2, <4>3
    <3> QED
      BY <3>1, <3>2 DEF Rising
  <2>6. (InUse > 0 => Ends(InUse - 1) /\ Of(InUse - 1) = Issued)'
    <3>1. PICK k \in u .. u + l - 1 : k = InUse' - 1 /\ k = u + l - 1
      BY <1>2, <1>3, <1>4
    <3>2. Ends(k)' /\ Of(k)' = Issued'
      BY <1>1, <1>2, <1>7, <3>1
    <3> QED
      BY <3>1, <3>2 DEF Ends, Of
  <2>7. (hwCnt > 0 => Ends(hwCnt - 1))'
    <3> SUFFICES ASSUME u > 0 PROVE Ends(hwCnt - 1)'
      BY <1>4
    <3>1. PICK k \in 0 .. u - 1 : k = hwCnt' - 1 /\ k = u - 1
      BY <1>3, <1>4
    <3>2. Ends(k)'
      BY <1>6, <3>1 DEF Rings
    <3> QED
      BY <3>1, <3>2 DEF Ends
  <2> QED
    BY <2>1, <2>2, <2>4, <2>5, <2>6, <2>7 DEF Rings
<1>10. Walk(s, c)'
  <2>1. s <= c /\ c <= InUse'
    BY <1>2, <1>3, <1>4
  <2>2. ASSUME NEW j \in 0 .. s - 1
        PROVE  Of(j)' <= done'
    <3>1. j \in 0 .. u - 1
      BY <1>3
    <3>2. Of(j) <= done
      BY DEF Steady, Walk
    <3> QED
      BY <1>1, <1>6, <3>1, <3>2
  <2>3. ASSUME NEW j \in s .. InUse' - 1
        PROVE  Of(j)' > done' /\ (Marked(j)' <=> j \in hwCnt' .. hwCnt' + left' - 1)
    <3>1. CASE j \in 0 .. u - 1
      <4>1. j \in s .. u - 1
        BY <1>3, <3>1
      <4>2. Of(j) > done /\ ~Marked(j)
        BY <1>3, <4>1 DEF Steady, Walk
      <4>3. j \notin hwCnt' .. hwCnt' + left' - 1
        BY <1>1, <1>2, <1>3, <1>4, <3>1
      <4> QED
        BY <1>1, <1>6, <3>1, <4>2, <4>3
    <3>2. CASE j \in u .. u + l - 1
      <4>1. Of(j)' = Issued + 1 /\ Marked(j)'
        BY <1>2, <1>7, <3>2
      <4>2. done <= Issued
        <5>1. CASE s < u
          <6>1. Of(s) = done + 1 /\ s \in 0 .. u - 1
            BY <1>3, <5>1 DEF Steady, Walk
          <6> QED
            BY <1>3, <1>8, <6>1
        <5>2. CASE ~(s < u)
          BY <1>3, <5>2 DEF Steady, Walk
        <5> QED
          BY <5>1, <5>2
      <4>3. j \in hwCnt' .. hwCnt' + left' - 1
        BY <1>1, <1>4, <3>2
      <4> QED
        BY <1>1, <1>3, <4>1, <4>2, <4>3
    <3> QED
      BY <1>2, <1>3, <1>4, <3>1, <3>2
  <2>4. s < InUse' /\ Of(s)' = done' + 1
    <3>1. CASE s < u
      <4>1. s \in 0 .. u - 1 /\ Of(s) = done + 1
        BY <1>3, <3>1 DEF Steady, Walk
      <4> QED
        BY <1>1, <1>2, <1>3, <1>4, <1>6, <4>1
    <3>2. CASE ~(s < u)
      <4>1. s = u /\ done = Issued
        BY <1>3, <3>2 DEF Steady, Walk
      <4>2. s \in u .. u + l - 1
        BY <1>2, <1>3, <4>1
      <4>3. Of(s)' = d
        BY <1>7, <4>2
      <4> QED
        BY <1>1, <1>2, <1>3, <1>4, <4>1, <4>3
    <3> QED
      BY <3>1, <3>2
  <2>5. ASSUME NEW j \in s .. c - 1
        PROVE  ~Ends(j)' /\ ~Marked(j)' /\ Of(j)' = done' + 1
    <3>1. j \in 0 .. u - 1
      BY <1>3
    <3>2. ~Ends(j) /\ ~Marked(j) /\ Of(j) = done + 1
      BY DEF Steady, Walk
    <3> QED
      BY <1>1, <1>6, <3>1, <3>2
  <2>6. /\ hw'.pos = Ahead(hwHead', c)
        /\ hw'.mid <=> s < c
        /\ hw'.mid => hw'.first = Ahead(hwHead', s)
        /\ ~hw'.running => hwCnt' <= s
    BY <1>1 DEF Steady, Walk
  <2> QED
    BY <2>1, <2>2, <2>3, <2>4, <2>5, <2>6 DEF Walk
<1> QED
  BY <1>1, <1>9, <1>10 DEF Steady

LEMMA HandOverQuiet ==
  ASSUME Basic, Rings, NEW s \in 0 .. N, NEW c \in 0 .. N, Steady(s, c), HandOver
  PROVE  Rings' /\ Steady(s, c)'
<1> DEFINE k == hwCnt + left - 1
<1>1. /\ pc = "handover" /\ left > 0 /\ left' = left - 1
      /\ bd' = [bd EXCEPT ![Ahead(hwHead, k)].used = FALSE]
      /\ UNCHANGED <<hwHead, hwCnt, preCnt, table, pc, m0, hw, done, torn>> /\ Issued' = Issued
  BY HandedOver DEF HandOver, ringVars, stackVars, Issued
<1>2. /\ k \in hwCnt .. InUse - 1 /\ Ahead(hwHead, k) \in Bds /\ hwCnt \in Nat /\ left \in Nat
      /\ N \in Nat \ {0} /\ hwHead \in Bds /\ InUse \in 0 .. N
  BY <1>1, HandedOver, Numbers
<1>3. InUse' = InUse
  BY <1>1 DEF InUse
<1>4. ASSUME NEW j \in 0 .. N - 1
      PROVE  /\ Of(j)' = Of(j) /\ Kept(j)' = Kept(j)
             /\ Ends(j)' <=> Ends(j)
             /\ Marked(j)' <=> Marked(j) /\ j # k
  <2>1. Ahead(hwHead, j) \in Bds
    BY <1>2, AheadIs
  <2>2. /\ bd'[Ahead(hwHead, j)].used <=> (bd[Ahead(hwHead, j)].used /\ Ahead(hwHead, j) # Ahead(hwHead, k))
        /\ bd'[Ahead(hwHead, j)].last = bd[Ahead(hwHead, j)].last
        /\ bd'[Ahead(hwHead, j)].frame = bd[Ahead(hwHead, j)].frame
    BY <1>1, <1>2, <2>1, UsedBit
  <2>3. k \in 0 .. N - 1
    BY <1>2
  <2> HIDE DEF k
  <2>4. Ahead(hwHead, j) = Ahead(hwHead, k) <=> j = k
    BY <1>2, <2>3, AheadInjective
  <2> QED
    BY <1>1, <2>2, <2>4 DEF Of, Kept, Marked, Ends
<1>5. left' = left - 1 /\ hwCnt' = hwCnt /\ k = hwCnt + left' /\ left' \in Nat
  BY <1>1, <1>2
<1>6. ASSUME NEW j \in 0 .. InUse - 1
      PROVE  j \in 0 .. N - 1
  BY <1>2
<1>7. Rings'
  <2>1. 2 * InUse' <= N /\ m0' = NoFrame /\ ~torn'
    BY <1>1, <1>3 DEF Rings
  <2>2. ASSUME NEW j \in InUse' .. N - 1
        PROVE  Marked(j)' /\ ~Ends(j)'
    <3>1. j \in InUse .. N - 1 /\ j \in 0 .. N - 1 /\ j # k
      BY <1>2, <1>3
    <3> HIDE DEF k
    <3> QED
      BY <1>4, <3>1 DEF Rings
  <2> HIDE DEF k
  <2>3. \A j \in 0 .. InUse' - 1 : Kept(j)' = Of(j)'
    BY <1>3, <1>4, <1>6 DEF Rings
  <2>4. Rising'
    <3>1. ASSUME NEW i \in 0 .. InUse' - 1, NEW j \in 0 .. InUse' - 1, i < j
          PROVE  /\ Of(i)' <= Of(j)'
                 /\ Ends(i)' => Of(i)' < Of(j)'
      BY <1>3, <1>4, <1>6, <3>1 DEF Rings, Rising
    <3>2. ASSUME NEW j \in 1 .. InUse' - 1
          PROVE  Of(j)' = Of(j - 1)' + IF Ends(j - 1)' THEN 1 ELSE 0
      <4>1. PICK i \in 0 .. InUse - 1 : i = j - 1 /\ j \in 0 .. InUse - 1
        BY <1>2, <1>3
      <4>2. Of(j) = Of(i) + IF Ends(i) THEN 1 ELSE 0
        BY <1>3, <4>1 DEF Rings, Rising
      <4>3. Of(j)' = Of(i)' + IF Ends(i)' THEN 1 ELSE 0
        BY <1>4, <1>6, <4>1, <4>2
      <4> QED
        BY <4>1, <4>3
    <3> QED
      BY <3>1, <3>2 DEF Rising
  <2>5. (InUse > 0 => Ends(InUse - 1) /\ Of(InUse - 1) = Issued)'
    <3> SUFFICES ASSUME InUse > 0
                 PROVE  (Ends(InUse - 1) /\ Of(InUse - 1) = Issued)'
      BY <1>3
    <3>1. PICK i \in 0 .. InUse - 1 : i = InUse - 1
      BY <1>2
    <3>2. Ends(i)' /\ Of(i)' = Issued'
      BY <1>1, <1>4, <1>6, <3>1 DEF Rings
    <3> QED
      BY <1>3, <3>1, <3>2 DEF Ends, Of
  <2>6. (hwCnt > 0 => Ends(hwCnt - 1))'
    <3> SUFFICES ASSUME hwCnt > 0
                 PROVE  Ends(hwCnt - 1)'
      BY <1>1
    <3>1. PICK i \in 0 .. InUse - 1 : i = hwCnt - 1
      BY <1>2
    <3>2. Ends(i)'
      BY <1>4, <1>6, <3>1 DEF Rings
    <3> QED
      BY <1>1, <3>1, <3>2 DEF Ends
  <2> QED
    BY <2>1, <2>2, <2>3, <2>4, <2>5, <2>6 DEF Rings
<1>8. Walk(s, c)'
  <2>0. s <= c /\ c <= InUse
    BY DEF Steady, Walk
  <2>1. ASSUME NEW j \in s .. InUse' - 1
        PROVE  Of(j)' > done' /\ (Marked(j)' <=> j \in hwCnt' .. hwCnt' + left' - 1)
    <3>1. j \in s .. InUse - 1 /\ j \in 0 .. N - 1
      BY <1>2, <1>3
    <3>2. Of(j) > done /\ (Marked(j) <=> j \in hwCnt .. hwCnt + left - 1)
      BY <3>1 DEF Steady, Walk
    <3>3. j \in hwCnt .. hwCnt + left - 1 /\ j # k <=> j \in hwCnt' .. hwCnt' + left' - 1
      BY <1>2, <1>5, <3>1
    <3> HIDE DEF k
    <3> QED
      BY <1>1, <1>4, <3>1, <3>2, <3>3
  <2> HIDE DEF k
  <2>2. ASSUME NEW j \in 0 .. s - 1
        PROVE  Of(j)' <= done'
    <3>1. j \in 0 .. N - 1
      BY <1>2, <2>0
    <3> QED
      BY <1>1, <1>4, <3>1 DEF Steady, Walk
  <2>3. IF s < InUse' THEN Of(s)' = done' + 1 ELSE done' = Issued'
    <3>1. CASE s < InUse
      <4>1. s \in 0 .. N - 1
        BY <1>2, <3>1
      <4> QED
        BY <1>1, <1>3, <1>4, <3>1, <4>1 DEF Steady, Walk
    <3>2. CASE ~(s < InUse)
      BY <1>1, <1>3, <3>2 DEF Steady, Walk
    <3> QED
      BY <3>1, <3>2
  <2>4. ASSUME NEW j \in s .. c - 1
        PROVE  ~Ends(j)' /\ ~Marked(j)' /\ Of(j)' = done' + 1
    <3>1. j \in 0 .. N - 1
      BY <1>2, <2>0
    <3>2. ~Ends(j) /\ ~Marked(j) /\ Of(j) = done + 1
      BY DEF Steady, Walk
    <3> QED
      BY <1>1, <1>4, <3>1, <3>2
  <2>5. /\ hw'.pos = Ahead(hwHead', c)
        /\ hw'.mid <=> s < c
        /\ hw'.mid => hw'.first = Ahead(hwHead', s)
        /\ ~hw'.running => hwCnt' <= s
    BY <1>1 DEF Steady, Walk
  <2> QED
    BY <1>3, <2>0, <2>1, <2>2, <2>3, <2>4, <2>5 DEF Walk
<1> QED
  BY <1>1, <1>7, <1>8 DEF Steady

LEMMA SubmitQuiet ==
  ASSUME Basic, Rings, NEW s \in 0 .. N, NEW c \in 0 .. N, Steady(s, c), Submit
  PROVE  Rings' /\ Steady(s, c)'
<1>1. /\ pc = "handover" /\ left = 0 /\ hwCnt' = hwCnt + preCnt /\ preCnt' = 0 /\ pc' = "send"
      /\ UNCHANGED <<bd, table, hwHead, m0, left, done, torn>> /\ Issued' = Issued
      /\ hw' = [hw EXCEPT !.running = ~torn]
  BY DEF Submit, XEmacPs_BdRingToHw, XEmacPs_Transmit, stackVars, Issued
<1>2. /\ hwCnt \in Nat /\ preCnt \in Nat /\ InUse \in Nat
      /\ hw \in [pos : Bds, first : Bds, mid : BOOLEAN, running : BOOLEAN]
  BY Numbers DEF Basic, Shape
<1>3. InUse' = InUse /\ hwCnt' = InUse
  BY <1>1, <1>2 DEF InUse
<1>4. hw'.pos = hw.pos /\ hw'.mid = hw.mid /\ hw'.first = hw.first /\ hw'.running
  <2>1. ~torn
    BY DEF Rings
  <2>2. hw'.running = ~torn
    BY <1>1, <1>2
  <2> QED
    BY <1>1, <1>2, <2>1, <2>2
<1>5. /\ \A j : Of(j)' = Of(j) /\ Kept(j)' = Kept(j)
      /\ \A j : Ends(j)' = Ends(j)
      /\ \A j : Marked(j)' = Marked(j)
  BY <1>1 DEF Of, Kept, Ends, Marked
<1>6. Rings'
  <2>1. Rising'
    BY <1>3, <1>5 DEF Rings, Rising
  <2>2. (InUse > 0 => Ends(InUse - 1) /\ Of(InUse - 1) = Issued)'
    BY <1>1, <1>3 DEF Rings, Ends, Of
  <2>3. (hwCnt > 0 => Ends(hwCnt - 1))'
    BY <1>3, <2>2 DEF Ends
  <2>4. \A j \in InUse' .. N - 1 : Marked(j)' /\ ~Ends(j)'
    BY <1>3, <1>5 DEF Rings
  <2>5. \A j \in 0 .. InUse' - 1 : Kept(j)' = Of(j)'
    BY <1>3, <1>5 DEF Rings
  <2>6. 2 * InUse' <= N /\ m0' = NoFrame /\ ~torn'
    BY <1>1, <1>3 DEF Rings
  <2> QED
    BY <2>1, <2>2, <2>3, <2>4, <2>5, <2>6 DEF Rings
<1>7. Walk(s, c)'
  <2>1. ASSUME NEW j \in s .. InUse' - 1
        PROVE  Of(j)' > done' /\ (Marked(j)' <=> j \in hwCnt' .. hwCnt' + left' - 1)
    <3>1. Of(j) > done /\ (Marked(j) <=> j \in hwCnt .. hwCnt + left - 1)
      BY <1>3 DEF Steady, Walk
    <3>2. j \notin hwCnt .. hwCnt + left - 1 /\ j \notin hwCnt' .. hwCnt' + left' - 1
      BY <1>1, <1>2, <1>3
    <3> QED
      BY <1>1, <1>5, <3>1, <3>2
  <2>2. /\ \A j \in 0 .. s - 1 : Of(j)' <= done'
        /\ IF s < InUse' THEN Of(s)' = done' + 1 ELSE done' = Issued'
        /\ \A j \in s .. c - 1 : ~Ends(j)' /\ ~Marked(j)' /\ Of(j)' = done' + 1
    BY <1>1, <1>3, <1>5 DEF Steady, Walk
  <2>3. /\ s <= c /\ c <= InUse'
        /\ hw'.pos = Ahead(hwHead', c)
        /\ hw'.mid <=> s < c
        /\ hw'.mid => hw'.first = Ahead(hwHead', s)
        /\ hw'.running
    BY <1>1, <1>3, <1>4 DEF Steady, Walk
  <2> QED
    BY <2>1, <2>2, <2>3 DEF Walk
<1> QED
  BY <1>1, <1>6, <1>7 DEF Steady

LEMMA HaltQuiet ==
  ASSUME Basic, Rings, NEW s \in 0 .. N, NEW c \in 0 .. N, Steady(s, c), HwHalt
  PROVE  Rings' /\ Steady(s, c)'
<1>1. /\ UNCHANGED <<bd, table, hwHead, hwCnt, preCnt, m0, left, done, pc, scan>> /\ Issued' = Issued
      /\ hw.running /\ bd[hw.pos].used /\ hw' = [hw EXCEPT !.running = FALSE] /\ torn' = (torn \/ hw.mid)
  BY DEF HwHalt, ringVars, stackVars, Issued
<1>2. hw \in [pos : Bds, first : Bds, mid : BOOLEAN, running : BOOLEAN]
  BY DEF Basic, Shape
<1>3. hw'.pos = hw.pos /\ hw'.mid = hw.mid /\ hw'.first = hw.first
  BY <1>1, <1>2
<1>4. ~hw.mid
  <2>1. Walk(s, c)
    BY DEF Steady
  <2>2. s = c
    BY <1>1, <2>1, AtWork
  <2> QED
    BY <2>1, <2>2, NAssumption DEF Walk
<1>5. ~torn' /\ ~torn
  BY <1>1, <1>4 DEF Rings
<1>6. torn' = torn
  BY <1>1, <1>4, <1>5 DEF Basic, Shape
<1>7. Rings'
  BY <1>1, <1>6, RingsStay
<1>8. Walk(s, c)'
  <2>1. hwCnt <= s
    <3>1. s = c /\ s <= InUse /\ (s < InUse => Marked(s)) /\ s \in 0 .. N - 1
      BY <1>1, AtWork DEF Steady, Walk
    <3>2. hwCnt <= InUse /\ hwCnt \in Nat /\ InUse \in Nat /\ left \in Nat
      BY Numbers, Positions
    <3>3. CASE s < InUse
      <4>1. s \in s .. InUse - 1
        BY <3>1, <3>2, <3>3
      <4>2. s \in hwCnt .. hwCnt + left - 1
        BY <3>1, <3>3, <4>1 DEF Steady, Walk
      <4> QED
        BY <4>2
    <3> QED
      BY <3>1, <3>2, <3>3
  <2> QED
    BY <1>1, <1>3, <2>1 DEF Steady, Walk, InUse, Marked, Ends, Of
<1>9. (pc = "scan" => \E x \in 0 .. N : Scanned(s, x))'
  BY <1>1, ScannedStays, NAssumption
<1> QED
  BY <1>7, <1>8, <1>9 DEF Steady

LEMMA FragmentQuiet ==
  ASSUME Basic, Rings, NEW s \in 0 .. N, NEW c \in 0 .. N, Steady(s, c), HwFragment
  PROVE  Rings' /\ \E t, e \in 0 .. N : Steady(t, e)'
<1>1. /\ UNCHANGED <<bd, table, hwHead, hwCnt, preCnt, m0, left, done, pc, scan, torn>> /\ Issued' = Issued
      /\ hw.running /\ ~bd[hw.pos].used /\ ~bd[hw.pos].last
      /\ hw' = [hw EXCEPT !.pos = Ahead(@, 1), !.first = IF hw.mid THEN @ ELSE hw.pos, !.mid = TRUE]
  BY DEF HwFragment, ringVars, stackVars, Issued
<1>2. hw \in [pos : Bds, first : Bds, mid : BOOLEAN, running : BOOLEAN]
  BY DEF Basic, Shape
<1>3. /\ hw'.pos = Ahead(hw.pos, 1) /\ hw'.mid = TRUE /\ hw'.running
      /\ hw'.first = IF hw.mid THEN hw.first ELSE hw.pos
  BY <1>1, <1>2
<1>4. Walk(s, c)
  BY DEF Steady
<1>5. /\ c \in 0 .. N - 1 /\ c < InUse /\ Of(c) = done + 1 /\ ~Marked(c) /\ ~Ends(c)
      /\ N \in Nat \ {0} /\ InUse \in 0 .. N /\ hwHead \in Bds /\ s <= c
  BY <1>1, <1>4, AtWork, Numbers DEF Walk
<1>6. Rings'
  BY <1>1, RingsStay
<1>7. PICK e \in 0 .. N : e = c + 1 /\ s < e /\ e <= InUse
  BY <1>5
<1>8. Ahead(Ahead(hwHead, c), 1) = Ahead(hwHead, e)
  BY <1>5, <1>7, AheadTwice
<1>9. /\ hw'.pos = Ahead(hwHead, e)
      /\ hw'.mid /\ hw'.running
      /\ hw'.first = Ahead(hwHead, s)
  <2>1. hw.pos = Ahead(hwHead, c) /\ (~hw.mid => s = c) /\ (hw.mid => hw.first = Ahead(hwHead, s))
    BY <1>4, <1>5 DEF Walk
  <2> QED
    BY <1>3, <1>8, <2>1
<1>10. \A j \in s .. e - 1 : ~Ends(j) /\ ~Marked(j) /\ Of(j) = done + 1
  <2> SUFFICES ASSUME NEW j \in s .. e - 1 PROVE ~Ends(j) /\ ~Marked(j) /\ Of(j) = done + 1
    OBVIOUS
  <2>1. j = c \/ j \in s .. c - 1
    BY <1>5, <1>7
  <2> QED
    BY <1>4, <1>5, <2>1 DEF Walk
<1>11. Walk(s, e)'
  <2>1. /\ \A j \in 0 .. s - 1 : Of(j) <= done
        /\ \A j \in s .. InUse - 1 : Of(j) > done /\ (Marked(j) <=> j \in hwCnt .. hwCnt + left - 1)
        /\ IF s < InUse THEN Of(s) = done + 1 ELSE done = Issued
    BY <1>4 DEF Walk
  <2>2. s <= e /\ s < e
    BY <1>5, <1>7
  <2> QED
    BY <1>1, <1>7, <1>9, <1>10, <2>1, <2>2 DEF Walk, InUse, Marked, Ends, Of
<1>12. (pc = "scan" => \E x \in 0 .. N : Scanned(s, x))'
  BY <1>1, ScannedStays, NAssumption
<1> QED
  BY <1>6, <1>11, <1>12 DEF Steady

\* The frame sent is the next one, and what follows it is not sent yet.
LEMMA SentQuiet ==
  ASSUME Basic, Rings, NEW s \in 0 .. N, NEW c \in 0 .. N, Steady(s, c), eth_emacps_send_handler
  PROVE  Rings' /\ (\E t, e \in 0 .. N : Steady(t, e)') /\ done' = done + 1
<1>1. Walk(s, c)
  BY DEF Steady
<1>2. hw \in [pos : Bds, first : Bds, mid : BOOLEAN, running : BOOLEAN]
  BY DEF Basic, Shape
<1>3. /\ UNCHANGED <<table, hwHead, hwCnt, preCnt, m0, left, pc, scan, torn>> /\ Issued' = Issued
      /\ hw.running /\ ~bd[hw.pos].used /\ bd[hw.pos].last /\ done' = bd[hw.pos].frame
      /\ hw' = [hw EXCEPT !.pos = Ahead(@, 1), !.mid = FALSE]
  BY DEF eth_emacps_send_handler, ringVars, stackVars, Issued
<1>4. /\ c \in 0 .. N - 1 /\ c < InUse /\ Of(c) = done + 1 /\ ~Marked(c) /\ Ends(c)
      /\ N \in Nat \ {0} /\ InUse \in 0 .. N /\ hwHead \in Bds /\ s <= c /\ done' = Of(c)
      /\ done \in Nat /\ 2 * InUse <= N /\ hwCnt \in Nat /\ hwCnt <= InUse
      /\ \A j \in 0 .. N - 1 : Of(j) \in 0 .. MaxFrames
  BY <1>1, <1>3, AtWork, Numbers, Positions DEF Walk, Rings
<1>5. InUse' = InUse
  BY <1>3 DEF InUse
<1>6. s \in 0 .. InUse - 1 /\ s \in 0 .. N - 1
  BY <1>4
<1>7. Ahead(hwHead, s) \in Bds /\ bd' = [bd EXCEPT ![Ahead(hwHead, s)].used = TRUE]
  <2> DEFINE first == IF hw.mid THEN hw.first ELSE hw.pos
  <2>1. bd' = [bd EXCEPT ![first].used = TRUE]
    BY DEF eth_emacps_send_handler
  <2>2. hw.pos = Ahead(hwHead, c) /\ (~hw.mid => s = c) /\ (hw.mid => hw.first = Ahead(hwHead, s))
    BY <1>1, <1>4 DEF Walk
  <2>3. first = Ahead(hwHead, s)
    BY <2>2
  <2> HIDE DEF first
  <2> QED
    BY <1>4, <1>6, <2>1, <2>3, AheadIs
<1>8. ASSUME NEW j \in 0 .. N - 1
      PROVE  /\ Of(j)' = Of(j) /\ Kept(j)' = Kept(j)
             /\ Ends(j)' <=> Ends(j)
             /\ Marked(j)' <=> Marked(j) \/ j = s
  <2>1. Ahead(hwHead, j) \in Bds
    BY <1>4, AheadIs
  <2>2. /\ bd'[Ahead(hwHead, j)].used <=> (bd[Ahead(hwHead, j)].used \/ Ahead(hwHead, j) = Ahead(hwHead, s))
        /\ bd'[Ahead(hwHead, j)].last = bd[Ahead(hwHead, j)].last
        /\ bd'[Ahead(hwHead, j)].frame = bd[Ahead(hwHead, j)].frame
    BY <1>7, <2>1, UsedBit
  <2>3. Ahead(hwHead, j) = Ahead(hwHead, s) <=> j = s
    BY <1>4, <1>6, AheadInjective
  <2> QED
    BY <1>3, <2>2, <2>3 DEF Of, Kept, Marked, Ends
<1>9. ASSUME NEW j \in 0 .. InUse - 1
      PROVE  j \in 0 .. N - 1
  BY <1>4
<1>10. done' = done + 1
  BY <1>4
<1>11. Rings'
  <2>1. 2 * InUse' <= N /\ m0' = NoFrame /\ ~torn'
    BY <1>3, <1>5 DEF Rings
  <2>2. ASSUME NEW j \in InUse' .. N - 1
        PROVE  Marked(j)' /\ ~Ends(j)'
    <3>1. j \in InUse .. N - 1 /\ j \in 0 .. N - 1
      BY <1>4, <1>5
    <3> QED
      BY <1>8, <3>1 DEF Rings
  <2>3. \A j \in 0 .. InUse' - 1 : Kept(j)' = Of(j)'
    BY <1>5, <1>8, <1>9 DEF Rings
  <2>4. Rising'
    <3>1. ASSUME NEW i \in 0 .. InUse' - 1, NEW j \in 0 .. InUse' - 1, i < j
          PROVE  /\ Of(i)' <= Of(j)'
                 /\ Ends(i)' => Of(i)' < Of(j)'
      BY <1>5, <1>8, <1>9, <3>1 DEF Rings, Rising
    <3>2. ASSUME NEW j \in 1 .. InUse' - 1
          PROVE  Of(j)' = Of(j - 1)' + IF Ends(j - 1)' THEN 1 ELSE 0
      <4>1. PICK i \in 0 .. InUse - 1 : i = j - 1 /\ j \in 0 .. InUse - 1
        BY <1>4, <1>5
      <4>2. Of(j) = Of(i) + IF Ends(i) THEN 1 ELSE 0
        BY <1>5, <4>1 DEF Rings, Rising
      <4>3. Of(j)' = Of(i)' + IF Ends(i)' THEN 1 ELSE 0
        BY <1>8, <1>9, <4>1, <4>2
      <4> QED
        BY <4>1, <4>3
    <3> QED
      BY <3>1, <3>2 DEF Rising
  <2>5. (InUse > 0 => Ends(InUse - 1) /\ Of(InUse - 1) = Issued)'
    <3>1. PICK i \in 0 .. InUse - 1 : i = InUse - 1 /\ InUse > 0
      BY <1>4
    <3>2. Ends(i)' /\ Of(i)' = Issued'
      BY <1>3, <1>8, <1>9, <3>1 DEF Rings
    <3> QED
      BY <1>5, <3>1, <3>2 DEF Ends, Of
  <2>6. (hwCnt > 0 => Ends(hwCnt - 1))'
    <3> SUFFICES ASSUME hwCnt > 0
                 PROVE  Ends(hwCnt - 1)'
      BY <1>3
    <3>1. PICK i \in 0 .. InUse - 1 : i = hwCnt - 1
      BY <1>4
    <3>2. Ends(i)'
      BY <1>8, <1>9, <3>1 DEF Rings
    <3> QED
      BY <1>3, <3>1, <3>2 DEF Ends
  <2> QED
    BY <2>1, <2>2, <2>3, <2>4, <2>5, <2>6 DEF Rings
<1>12. PICK t \in 0 .. N : t = c + 1 /\ t <= InUse /\ s <= t /\ s < t
  BY <1>4
<1>13. Walk(t, t)'
  <2>1. ASSUME NEW j \in 0 .. t - 1
        PROVE  Of(j)' <= done'
    <3>1. j \in 0 .. InUse - 1 /\ c \in 0 .. InUse - 1 /\ (j < c \/ j = c)
      BY <1>4, <1>12
    <3>2. j < c => Of(j) <= Of(c)
      BY <3>1 DEF Rings, Rising
    <3> QED
      BY <1>4, <1>8, <1>9, <3>1, <3>2
  <2>2. ASSUME NEW j \in t .. InUse' - 1
        PROVE  Of(j)' > done' /\ (Marked(j)' <=> j \in hwCnt' .. hwCnt' + left' - 1)
    <3>1. j \in 0 .. InUse - 1 /\ c \in 0 .. InUse - 1 /\ c < j /\ j # s /\ j \in s .. InUse - 1
      BY <1>4, <1>5, <1>12
    <3>2. Of(c) < Of(j)
      BY <1>4, <3>1 DEF Rings, Rising
    <3>3. Marked(j) <=> j \in hwCnt .. hwCnt + left - 1
      BY <1>1, <3>1 DEF Walk
    <3>4. Of(j) > Of(c)
      BY <1>4, <1>9, <3>1, <3>2
    <3> QED
      BY <1>3, <1>4, <1>8, <1>9, <3>1, <3>3, <3>4
  <2>3. IF t < InUse' THEN Of(t)' = done' + 1 ELSE done' = Issued'
    <3>1. CASE t < InUse
      <4>1. t \in 1 .. InUse - 1 /\ t \in 0 .. InUse - 1 /\ c = t - 1
        BY <1>4, <1>12, <3>1
      <4>2. Of(t) = Of(c) + 1
        BY <1>4, <4>1 DEF Rings, Rising
      <4>3. Of(t)' = done' + 1
        BY <1>4, <1>8, <1>9, <4>1, <4>2
      <4> QED
        BY <1>5, <3>1, <4>3
    <3>2. CASE ~(t < InUse)
      <4>1. c = InUse - 1 /\ InUse > 0
        BY <1>4, <1>12, <3>2
      <4>2. Of(c) = Issued
        BY <4>1 DEF Rings
      <4> QED
        BY <1>3, <1>4, <1>5, <3>2, <4>2
    <3> QED
      BY <3>1, <3>2
  <2>4. /\ hw'.pos = Ahead(hwHead', t)
        /\ ~hw'.mid /\ hw'.running
    <3>1. Ahead(Ahead(hwHead, c), 1) = Ahead(hwHead, t) /\ hw.pos = Ahead(hwHead, c)
      BY <1>1, <1>4, <1>12, AheadTwice DEF Walk
    <3>2. hw'.pos = Ahead(hw.pos, 1) /\ hw'.mid = FALSE /\ hw'.running
      BY <1>2, <1>3
    <3> QED
      BY <1>3, <3>1, <3>2
  <2>5. /\ t <= t /\ t <= InUse' /\ ~(t < t)
        /\ \A j \in t .. t - 1 : FALSE
    BY <1>4, <1>5, <1>12
  <2> QED
    BY <2>1, <2>2, <2>3, <2>4, <2>5 DEF Walk
<1>14. ASSUME pc' = "scan"
       PROVE  \E x \in 0 .. N : Scanned(t, x)'
  <2>1. PICK x \in 0 .. N : Scanned(s, x)
    BY <1>3, <1>14 DEF Steady
  <2>2. scan.count \in Nat /\ scan.partial \in Nat
    BY DEF Basic, Shape
  <2>3. scan.count - scan.partial <= t
    BY <1>4, <1>12, <2>1, <2>2 DEF Scanned
  <2>4. scan.sop => x > 0 /\ ((x - 1 < t /\ ~Ends(x - 1)') \/ x - 1 >= InUse)
    <3> SUFFICES ASSUME scan.sop, ~(x - 1 >= InUse)
                 PROVE  x > 0 /\ x - 1 < t /\ ~Ends(x - 1)'
      BY <1>4, <2>1 DEF Scanned
    <3>1. x > 0 /\ x - 1 < s /\ ~Ends(x - 1)
      BY <2>1 DEF Scanned
    <3>2. PICK i \in 0 .. N - 1 : i = x - 1
      BY <1>4, <3>1
    <3>3. ~Ends(i)'
      BY <1>8, <3>1, <3>2
    <3> QED
      BY <1>4, <1>12, <3>1, <3>2, <3>3
  <2>5. Scanned(t, x)'
    BY <1>3, <1>5, <2>1, <2>3, <2>4 DEF Scanned
  <2> QED
    BY <2>5
<1> QED
  BY <1>10, <1>11, <1>13, <1>14 DEF Steady

-----------------------------------------------------------------------------
(***************************************************************************)
(* Every step keeps the invariant.                                         *)
(***************************************************************************)
\* The table has an entry for each BD in use, by positions.
LEMMA StepTable ==
  ASSUME Basic, TableInv, [Next]_vars
  PROVE  TableInv'
<1>1. CASE Reclaim
  <2>1. /\ Found \in 0 .. hwCnt /\ InUse' = InUse - Found /\ InUse \in 0 .. N /\ N \in Nat \ {0}
        /\ hwCnt <= InUse
    <3>1. Found \in 0 .. hwCnt /\ preCnt = 0 /\ hwCnt \in Nat /\ InUse \in 0 .. N /\ N \in Nat \ {0}
      BY <1>1, FoundIs, Numbers DEF Reclaim
    <3>2. hwCnt' = hwCnt - Found /\ preCnt' = preCnt
      BY <1>1 DEF Reclaim
    <3> QED
      BY <3>1, <3>2 DEF InUse
  <2>2. ASSUME NEW j \in 0 .. N - 1
        PROVE  Kept(j)' # 0 <=> j < InUse'
    <3>1. CASE Found + j < N
      <4>1. Kept(j)' = Kept(Found + j) /\ Found + j \in 0 .. N - 1
        BY <1>1, <2>1, <3>1, Shifted
      <4>2. Kept(Found + j) # 0 <=> Found + j < InUse
        BY <4>1 DEF TableInv
      <4> QED
        BY <2>1, <4>1, <4>2
    <3>2. CASE Found + j >= N
      BY <1>1, <2>1, <3>2, Shifted
    <3> QED
      BY <2>1, <3>1, <3>2
  <2> QED
    BY <2>2 DEF TableInv
<1>2. CASE eth_emacps_sgsend
  <2>1. /\ Frame.len \in Nat \ {0} /\ InUse' = InUse + Frame.len /\ InUse \in 0 .. N /\ N \in Nat \ {0}
        /\ Frame.id # 0
    <3>1. /\ Frame.len \in Nat \ {0} /\ Frame.id \in 1 .. MaxFrames /\ preCnt = 0 /\ hwCnt \in Nat
          /\ InUse \in 0 .. N /\ N \in Nat \ {0}
      BY <1>2, TheFrame, Numbers DEF eth_emacps_sgsend, Basic, Shape
    <3>2. hwCnt' = hwCnt /\ preCnt' = Frame.len
      BY <1>2 DEF eth_emacps_sgsend
    <3> QED
      BY <3>1, <3>2 DEF InUse
  <2>2. ASSUME NEW j \in 0 .. N - 1
        PROVE  Kept(j)' # 0 <=> j < InUse'
    <3>1. CASE j \in InUse .. InUse + Frame.len - 1
      <4>1. Kept(j)' = Frame.id
        BY <1>2, <3>1, Filled
      <4> QED
        BY <2>1, <3>1, <4>1
    <3>2. CASE j \notin InUse .. InUse + Frame.len - 1
      <4>1. Kept(j)' = Kept(j)
        BY <1>2, <3>2, Filled
      <4>2. Kept(j) # 0 <=> j < InUse
        BY DEF TableInv
      <4> QED
        BY <2>1, <3>2, <4>1, <4>2
    <3> QED
      BY <3>1, <3>2
  <2> QED
    BY <2>2 DEF TableInv
<1>3. CASE Submit
  <2>1. InUse' = InUse
    BY <1>3, Numbers DEF Submit, XEmacPs_BdRingToHw, InUse
  <2>2. UNCHANGED <<hwHead, table>>
    BY <1>3 DEF Submit
  <2> QED
    BY <2>1, <2>2 DEF TableInv, Kept
<1>4. ASSUME UNCHANGED <<hwHead, hwCnt, preCnt, table>>
      PROVE  TableInv'
  BY <1>4 DEF TableInv, Kept, InUse
<1>5. CASE UNCHANGED vars
  BY <1>4, <1>5 DEF vars, ringVars
<1>6. CASE \E n \in Lengths : eth_emacps_interface_start(n)
  BY <1>4, <1>6 DEF eth_emacps_interface_start, ringVars
<1>7. CASE Wake \/ XEmacPs_BdRingFromHwTx \/ QueueEmpty
  BY <1>4, <1>7 DEF Wake, XEmacPs_BdRingFromHwTx, QueueEmpty, ringVars
<1>8. CASE RingFull \/ TooFewBds \/ HandOver
  BY <1>4, <1>8 DEF RingFull, TooFewBds, HandOver, ringVars
<1>9. CASE Controller
  BY <1>4, <1>9 DEF Controller, HwHalt, HwFragment, eth_emacps_send_handler, ringVars
<1> QED
  BY <1>1, <1>2, <1>3, <1>5, <1>6, <1>7, <1>8, <1>9 DEF Next, Task

LEMMA StepWoken ==
  ASSUME Basic, Rings, Woken, [Next]_vars, ~crowded'
  PROVE  Woken'
<1>1. CASE \E n \in Lengths : eth_emacps_interface_start(n)
  BY <1>1 DEF eth_emacps_interface_start, Woken
<1>2. CASE QueueEmpty
  BY <1>2 DEF QueueEmpty, Woken
<1>3. CASE RingFull \/ TooFewBds
  BY <1>3, NoRoomCrowds
<1>4. ASSUME pc' # "wait"
      PROVE  Woken'
  BY <1>4 DEF Woken
<1>5. CASE Wake \/ XEmacPs_BdRingFromHwTx \/ Reclaim \/ eth_emacps_sgsend \/ HandOver \/ Submit
  BY <1>4, <1>5 DEF Wake, XEmacPs_BdRingFromHwTx, Reclaim, eth_emacps_sgsend, HandOver, Submit
<1>6. CASE UNCHANGED vars
  BY <1>6 DEF Woken, vars, stackVars
<1>7. CASE Controller
  BY <1>7 DEF Controller, HwHalt, HwFragment, eth_emacps_send_handler, Woken, stackVars
<1> QED
  BY <1>1, <1>2, <1>3, <1>5, <1>6, <1>7 DEF Next, Task

LEMMA StepQuiet ==
  ASSUME Basic, Quiet, [Next]_vars
  PROVE  Quiet'
<1> SUFFICES ASSUME ~crowded' PROVE Rings' /\ Woken' /\ \E t, e \in 0 .. N : Steady(t, e)'
  BY DEF Quiet
<1>1. ~crowded
  BY DEF Next, Task, Controller, vars, Wake, XEmacPs_BdRingFromHwTx, Reclaim, QueueEmpty, RingFull, TooFewBds,
         eth_emacps_sgsend, HandOver, Submit, HwHalt, HwFragment, eth_emacps_send_handler,
         eth_emacps_interface_start, Crowding
<1>2. Rings /\ Woken' /\ \E s, c \in 0 .. N : Steady(s, c)
  BY <1>1, StepWoken DEF Quiet
<1>3. PICK s \in 0 .. N, c \in 0 .. N : Steady(s, c)
  BY <1>2
<1>4. CASE UNCHANGED vars
  <2>1. /\ UNCHANGED <<bd, table, hwHead, hwCnt, preCnt, m0, torn>>
        /\ UNCHANGED <<left, hw, done, pc, scan>> /\ Issued' = Issued
    BY <1>4 DEF vars, ringVars, stackVars, Issued
  <2>2. Rings' /\ Walk(s, c)'
    BY <1>2, <1>3, <2>1, RingsStay, WalkStays DEF Steady
  <2>3. (pc = "scan" => \E x \in 0 .. N : Scanned(s, x))'
    BY <1>3, <2>1, ScannedStays, NAssumption
  <2> QED
    BY <1>2, <2>2, <2>3 DEF Steady
<1>5. CASE \E n \in Lengths : eth_emacps_interface_start(n)
  BY <1>2, <1>3, <1>5, StartQuiet
<1>6. CASE Wake \/ XEmacPs_BdRingFromHwTx \/ QueueEmpty
  BY <1>2, <1>3, <1>6, WakeQuiet, ScanQuiet, EmptyQuiet
<1>7. CASE Reclaim \/ eth_emacps_sgsend
  BY <1>2, <1>3, <1>7, ReclaimQuiet, SendQuiet
<1>8. CASE RingFull \/ TooFewBds
  BY <1>2, <1>8, NoRoomCrowds
<1>9. CASE HandOver \/ Submit
  BY <1>2, <1>3, <1>9, HandOverQuiet, SubmitQuiet
<1>10. CASE Controller
  BY <1>2, <1>3, <1>10, HaltQuiet, FragmentQuiet, SentQuiet DEF Controller
<1> QED
  BY <1>4, <1>5, <1>6, <1>7, <1>8, <1>9, <1>10 DEF Next, Task

LEMMA InitIInv == Init => IInv
<1> SUFFICES ASSUME Init PROVE IInv
  OBVIOUS
<1>1. Basic /\ N \in Nat \ {0}
  BY InitBasic, NAssumption
<1>2. /\ hwHead = 0 /\ hwCnt = 0 /\ preCnt = 0 /\ left = 0 /\ m0 = NoFrame /\ torn = FALSE /\ done = 0
      /\ pc = "wait" /\ InUse = 0 /\ Issued = 0 /\ hw.pos = 0 /\ hw.mid = FALSE
      /\ table = [i \in Bds |-> 0] /\ bd = [i \in Bds |-> Idle]
  <2>1. InUse = 0
    BY DEF Init, InUse
  <2>2. Issued = 0
    <3>1. queue = <<>> /\ queued = 0
      BY DEF Init
    <3>2. Len(<<>>) = 0
      OBVIOUS
    <3>3. Len(queue) = 0
      BY <3>1, <3>2, Zenon
    <3>4. Issued = queued - Len(queue)
      BY DEF Issued
    <3>5. queued = 0
      BY <3>1
    <3> HIDE DEF Issued
    <3> QED
      BY <3>3, <3>4, <3>5
  <2>3. hw.pos = 0 /\ hw.mid = FALSE
    BY DEF Init
  <2> QED
    BY <2>1, <2>2, <2>3 DEF Init
<1>3. Ahead(hwHead, 0) = 0 /\ 0 \in 0 .. N /\ \A j \in 0 .. N : Ahead(hwHead, j) \in Bds
  BY <1>1, <1>2, Numbers, AheadTwice, AheadIs
<1>4. \A j \in 0 .. N : Kept(j) = 0 /\ Marked(j) /\ ~Ends(j)
  BY <1>2, <1>3 DEF Kept, Marked, Ends, Idle
<1>5. TableInv
  BY <1>1, <1>2, <1>4 DEF TableInv
<1>6. Rings
  BY <1>1, <1>2, <1>4 DEF Rings, Rising
<1>7. Walk(0, 0)
  BY <1>1, <1>2, <1>3 DEF Walk
<1>8. Steady(0, 0)
  BY <1>2, <1>7 DEF Steady
<1>9. Woken
  BY DEF Init, Woken
<1> QED
  BY <1>1, <1>3, <1>5, <1>6, <1>8, <1>9 DEF IInv, Basic, Quiet

LEMMA Invariance == Spec => []IInv
<1>1. IInv /\ [Next]_vars => IInv'
  BY StepBasic, StepTable, StepQuiet DEF IInv, Basic
<1> QED
  BY InitIInv, <1>1, PTL DEF Spec

-----------------------------------------------------------------------------
\* Every variable keeps its type, and the counters of the ring account for every
\* BD (XEmacPs_BdRingCheck).
THEOREM TypeCorrect == Spec => []TypeOK
<1>1. IInv => TypeOK
  BY DEF IInv
<1> QED
  BY Invariance, <1>1, PTL

\* The mbuf table has an entry exactly for the BDs in use: eth_emacps_sgsend never
\* overwrites the entry of a fragment that was not freed.
THEOREM TableMatches == Spec => []TableMatchesRing
<1>1. ASSUME IInv
      PROVE  TableMatchesRing
  <2>1. Basic /\ TableInv
    BY <1>1 DEF IInv, Basic
  <2>2. N \in Nat \ {0} /\ hwHead \in Bds /\ InUse \in 0 .. N
    BY <2>1, Numbers
  <2>3. From(hwHead, hwCnt + preCnt) = {Ahead(hwHead, k) : k \in 0 .. InUse - 1}
    BY DEF From, InUse
  <2> SUFFICES ASSUME NEW i \in Bds
               PROVE  (table[i] # 0) <=> (i \in {Ahead(hwHead, k) : k \in 0 .. InUse - 1})
    BY <2>3 DEF TableMatchesRing
  <2>4. PICK j \in 0 .. N - 1 : i = Ahead(hwHead, j)
    BY <2>2, AheadOnto
  <2>5. table[i] # 0 <=> j < InUse
    BY <2>1, <2>4 DEF TableInv, Kept
  <2>6. ASSUME NEW k \in 0 .. InUse - 1, i = Ahead(hwHead, k)
        PROVE  j = k
    <3>1. k \in 0 .. N - 1
      BY <2>2
    <3> QED
      BY <2>2, <2>4, <2>6, <3>1, AheadInjective
  <2> QED
    BY <2>2, <2>4, <2>5, <2>6
<1> QED
  BY Invariance, <1>1, PTL

\* The controller never runs out of the BDs of a frame, as long as the ring was
\* never more than half full.
THEOREM FramesStayWhole == Spec => []FramesWhole
<1>1. IInv => FramesWhole
  BY DEF IInv, Quiet, Rings, FramesWhole
<1> QED
  BY Invariance, <1>1, PTL

\* What the transmit task frees was sent, as long as the ring was never more than
\* half full: the scan of XEmacPs_BdRingFromHwTx, which goes on past the BDs in
\* use, stops counting in time.
THEOREM FreedWasSent == Spec => OnlySentFreed
<1> DEFINE Freed == ~crowded => \A i \in Bds : (table[i] # 0 /\ table'[i] = 0) => table[i] <= done
<1>1. ASSUME IInv, [Next]_vars
      PROVE  Freed
  <2> SUFFICES ASSUME ~crowded, NEW i \in Bds, table[i] # 0, table'[i] = 0
               PROVE  table[i] <= done
    OBVIOUS
  <2>1. Basic /\ TableInv /\ Rings
    BY <1>1 DEF IInv, Basic, Quiet
  <2>2. PICK s \in 0 .. N, c \in 0 .. N : Steady(s, c)
    BY <1>1 DEF IInv, Quiet
  <2>3. CASE Reclaim
    <3>1. i \in From(hwHead, Found)
      BY <2>3 DEF Reclaim
    <3>2. PICK k \in 0 .. Found - 1 : i = Ahead(hwHead, k)
      BY <3>1 DEF From
    <3>3. Found <= s /\ Found \in 0 .. hwCnt /\ hwCnt \in 0 .. InUse /\ s <= InUse
      <4>1. Found <= s
        BY <2>2, <2>3 DEF Reclaim, Steady, Scanned, Found
      <4>2. s <= InUse
        BY <2>1, <2>2, Numbers DEF Steady, Walk
      <4> QED
        BY <2>1, <2>3, <4>1, <4>2, FoundIs, Positions DEF Reclaim
    <3>4. k \in 0 .. s - 1 /\ k \in 0 .. InUse - 1
      BY <2>1, <3>3, Numbers
    <3>5. Of(k) <= done /\ Kept(k) = Of(k)
      BY <2>1, <2>2, <3>4 DEF Steady, Walk, Rings
    <3> QED
      BY <3>2, <3>5 DEF Kept
  <2>4. CASE eth_emacps_sgsend
    <3>1. Frame.id # 0
      BY <2>1, <2>4, TheFrame DEF eth_emacps_sgsend
    <3>2. table'[i] = table[i] \/ table'[i] = Frame.id
      BY <2>4 DEF eth_emacps_sgsend
    <3> QED
      BY <3>1, <3>2
  <2>5. CASE UNCHANGED table
    BY <2>5
  <2>6. CASE UNCHANGED vars
    BY <2>5, <2>6 DEF vars
  <2>7. CASE \E n \in Lengths : eth_emacps_interface_start(n)
    BY <2>5, <2>7 DEF eth_emacps_interface_start
  <2>8. CASE Wake \/ XEmacPs_BdRingFromHwTx \/ QueueEmpty
    BY <2>5, <2>8 DEF Wake, XEmacPs_BdRingFromHwTx, QueueEmpty
  <2>9. CASE RingFull \/ TooFewBds \/ HandOver \/ Submit
    BY <2>5, <2>9 DEF RingFull, TooFewBds, HandOver, Submit
  <2>10. CASE Controller
    BY <2>5, <2>10 DEF Controller, HwHalt, HwFragment, eth_emacps_send_handler
  <2> QED
    BY <1>1, <2>3, <2>4, <2>6, <2>7, <2>8, <2>9, <2>10 DEF Next, Task
<1>2. IInv /\ [Next]_vars => [Freed]_vars
  BY <1>1
<1> HIDE DEF Freed
<1>3. Spec => [][Freed]_vars
  BY Invariance, <1>2, PTL DEF Spec
<1> QED
  BY <1>3 DEF Freed, OnlySentFreed

\* Frames leave in order, each once, as long as the ring was never more than half
\* full.
THEOREM InOrder == Spec => FramesInOrder
<1> DEFINE Order == (~crowded /\ done' # done) => done' = done + 1
<1>1. ASSUME IInv, [Next]_vars
      PROVE  Order
  <2> SUFFICES ASSUME ~crowded, done' # done
               PROVE  done' = done + 1
    OBVIOUS
  <2>1. eth_emacps_send_handler
    BY <1>1 DEF Next, Task, Controller, vars, Wake, XEmacPs_BdRingFromHwTx, Reclaim, QueueEmpty, RingFull,
                TooFewBds, eth_emacps_sgsend, HandOver, Submit, HwHalt, HwFragment,
                eth_emacps_interface_start
  <2>2. PICK s \in 0 .. N, c \in 0 .. N : Steady(s, c)
    BY <1>1 DEF IInv, Quiet
  <2>3. Basic /\ Rings
    BY <1>1 DEF IInv, Basic, Quiet
  <2> QED
    BY <2>1, <2>2, <2>3, SentQuiet
<1>2. IInv /\ [Next]_vars => [Order]_vars
  BY <1>1
<1> HIDE DEF Order
<1>3. Spec => [][Order]_vars
  BY Invariance, <1>2, PTL DEF Spec
<1> QED
  BY <1>3 DEF Order, FramesInOrder

\* As long as the ring was never more than half full, the task does not sleep over
\* a queued frame without its event pending, and the controller does not stop
\* before it has sent what it was given.
THEOREM NothingIsStranded == Spec => []NothingStranded
<1>1. ASSUME IInv
      PROVE  NothingStranded
  <2> SUFFICES ASSUME ~crowded
               PROVE  /\ (pc = "wait" /\ queue # <<>>) => event
                      /\ ~hw.running => \A i \in From(hwHead, hwCnt) : bd[i].frame <= done
    BY DEF NothingStranded
  <2>1. (pc = "wait" /\ queue # <<>>) => event
    BY <1>1 DEF IInv, Quiet, Woken
  <2>2. ASSUME ~hw.running, NEW i \in From(hwHead, hwCnt)
        PROVE  bd[i].frame <= done
    <3>1. PICK s \in 0 .. N, c \in 0 .. N : Walk(s, c)
      BY <1>1 DEF IInv, Quiet, Steady
    <3>2. PICK k \in 0 .. hwCnt - 1 : i = Ahead(hwHead, k)
      BY DEF From
    <3>3. hwCnt \in Nat /\ hwCnt <= s
      BY <1>1, <2>2, <3>1, Numbers DEF IInv, Basic, Walk
    <3>4. k \in 0 .. s - 1
      BY <3>3
    <3> QED
      BY <3>1, <3>2, <3>4 DEF Walk, Of
  <2> QED
    BY <2>1, <2>2
<1> QED
  BY Invariance, <1>1, PTL

=============================================================================
