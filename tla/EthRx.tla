-------------------------------- MODULE EthRx --------------------------------
(***************************************************************************)
(* The receive side of the Zynq Ethernet driver (driver/ethEmacPs) with    *)
(* the ring of buffer descriptors (BDs) of emacps_v1_04_a.                 *)
(*                                                                         *)
(* The controller writes the frames that arrive into the buffers of the    *)
(* BDs it owns (new bit clear) and sets their new bit.  The receive task   *)
(* hands the mbufs of those BDs to the network stack, frees the BDs and    *)
(* refills every free BD with a new mbuf, until it finds no more frames.   *)
(* The stack gives mbufs back to the pool when it is done with them.       *)
(*                                                                         *)
(* A freed BD keeps its new bit and its entry in the table until it is     *)
(* refilled.  A frame is its number in the order of arrival.               *)
(***************************************************************************)
EXTENDS Integers, Sequences, FiniteSets

CONSTANTS
  N,           \* rxUnitCount: BDs in the ring
  TooLow,      \* free BDs from which on the task changes how it allocates
  M_WAIT,      \* RTEMS' flags for mbuf allocation, which the code tests as
  M_DONTWAIT,  \*   Booleans
  Mbufs,       \* mbufs with a cluster
  NONE,        \* no mbuf
  MaxFrames    \* bound of the model: frames that arrive

ASSUME NAssumption == N \in Nat \ {0}
ASSUME TooLowAssumption == TooLow \in Nat
ASSUME FlagsAssumption == M_WAIT \in {0, 1} /\ M_DONTWAIT = 1 - M_WAIT
ASSUME MbufsAssumption == IsFiniteSet(Mbufs) /\ Cardinality(Mbufs) >= N
ASSUME NoneAssumption == NONE \notin Mbufs
ASSUME MaxFramesAssumption == MaxFrames \in Nat

Bds == 0 .. N - 1

VARIABLES
  freeHead, freeCnt,   \* XEmacPs_BdRing: BDs to be allocated
  hwHead, hwCnt,       \* BDs given to the controller
  new,                 \* BDs whose new bit is set
  table,               \* rxMbufTable, which is also what the BDs point to
  frame,               \* what is in the buffer of each mbuf
  pool,                \* mbufs that can be allocated
  stack,               \* mbufs the network stack has
  pc,                  \* where the receive task is
  wait,                \* the flag the task allocates mbufs with
  todo,                \* free BDs the refill still goes for
  event,               \* an event is pending for the task
  pos,                 \* the controller: the next BD
  arrived,             \* frames that arrived
  batch,               \* the frames (nBds) of this turn of the task's loop
  last,                \* history: the last frame handed to the stack
  starved              \* history: an allocation failed

ringVars == <<freeHead, freeCnt, hwHead, hwCnt>>
vars == <<ringVars, new, table, frame, pool, stack, pc, wait, todo, event, pos,
          arrived, batch, last, starved>>

Ahead(i, n) == (i + n) % N

\* The n BDs from i on.
From(i, n) == {Ahead(i, k) : k \in 0 .. n - 1}

\* The interface has been brought up: the task is about to fill the ring.
Init ==
  /\ freeHead = 0 /\ freeCnt = N
  /\ hwHead = 0 /\ hwCnt = 0
  /\ new = {}
  /\ table = [i \in Bds |-> NONE]
  /\ frame = [m \in Mbufs |-> 0]
  /\ pool = Mbufs
  /\ stack = {}
  /\ pc = "init"
  /\ wait = M_WAIT
  /\ todo = N
  /\ event = FALSE
  /\ pos = 0
  /\ arrived = 0
  /\ batch = <<>>
  /\ last = 0
  /\ starved = FALSE

(***************************************************************************)
(* The controller, once the interface is started.                          *)
(***************************************************************************)
\* A frame is written into the next BD's buffer; eth_emacps_recv_handler wakes
\* the task.
eth_emacps_recv_handler ==
  /\ pc \notin {"init", "lost"} /\ arrived < MaxFrames
  /\ pos \notin new
  /\ arrived' = arrived + 1
  /\ frame' = [frame EXCEPT ![table[pos]] = arrived + 1]
  /\ new' = new \cup {pos}
  /\ pos' = Ahead(pos, 1)
  /\ event' = TRUE
  /\ UNCHANGED <<ringVars, table, pool, stack, pc, wait, todo, batch, last, starved>>

\* No BD for the frame: it is lost, and eth_emacps_error_handler wakes the task.
eth_emacps_error_handler ==
  /\ pc \notin {"init", "lost"} /\ arrived < MaxFrames
  /\ pos \in new
  /\ arrived' = arrived + 1
  /\ event' = TRUE
  /\ UNCHANGED <<ringVars, new, table, frame, pool, stack, pc, wait, todo, pos, batch, last,
                 starved>>

(***************************************************************************)
(* The receive task.                                                       *)
(***************************************************************************)
Wake ==
  /\ pc = "wait" /\ event
  /\ event' = FALSE
  /\ pc' = "input"
  /\ UNCHANGED <<ringVars, new, table, frame, pool, stack, wait, todo, pos, arrived, batch, last,
                 starved>>

\* The number of BDs with the new bit from hwHead on.  The scan ends at a BD
\* without it or after BdLimit BDs, not at the last BD of the controller.
XEmacPs_BdRingFromHwRx ==
  IF hwCnt = 0 THEN 0
  ELSE Cardinality({k \in 0 .. N - 1 : From(hwHead, k + 1) \subseteq new})

\* Mutant: from the last BD to the first.
BdRingNext_Backwards(k, n) == Ahead(hwHead, n - k)

\* The k-th of n BDs found.
BdRingNext(k, n) == Ahead(hwHead, k - 1)

\* Mutant: the new bit is cleared when the BD is freed.
XEmacPs_BdRingFree_ClearsNew(n) ==
  /\ hwHead' = Ahead(hwHead, n)
  /\ hwCnt' = hwCnt - n
  /\ freeCnt' = freeCnt + n
  /\ new' = new \ From(hwHead, n)

\* XEmacPs_BdRingFromHwRx moves n BDs out of the controller's, and
\* XEmacPs_BdRingFree frees them.
XEmacPs_BdRingFree(n) ==
  /\ hwHead' = Ahead(hwHead, n)
  /\ hwCnt' = hwCnt - n
  /\ freeCnt' = freeCnt + n
  /\ UNCHANGED new

\* Mutant: the refill stops one BD short.
ToRefill_OneShort(n) == IF freeCnt + n = 0 THEN 0 ELSE freeCnt + n - 1

\* The BDs that the refill goes for once n more are free.
ToRefill(n) == freeCnt + n

\* low_level_input: the mbufs of the BDs found go to the stack, in order, and the
\* BDs are freed.  A scan that went past the BDs of the controller makes the
\* counters wrap: there the model ends.  Then the task chooses how the refill
\* allocates.
eth_emacps_input ==
  /\ pc = "input"
  /\ LET n == XEmacPs_BdRingFromHwRx
     IN  /\ pc' = IF n > hwCnt THEN "lost" ELSE "refill"
         /\ batch' = [k \in 1 .. n |-> frame[table[BdRingNext(k, n)]]]
         /\ last' = IF n = 0 THEN last ELSE batch'[n]
         /\ stack' = stack \cup {table[i] : i \in From(hwHead, n)}
         /\ XEmacPs_BdRingFree(n)
         /\ wait' = IF freeCnt + n < TooLow THEN M_WAIT ELSE M_DONTWAIT
         /\ todo' = ToRefill(n)
  /\ UNCHANGED <<freeHead, table, frame, pool, event, pos, arrived, starved>>

\* Mutant: the BD keeps the mbuf of its last use.
eth_emacps_add_new_mbuf_Recycles(m) ==
  /\ m \in pool
  /\ IF table[freeHead] = NONE
     THEN table' = [table EXCEPT ![freeHead] = m] /\ pool' = pool \ {m}
     ELSE UNCHANGED <<table, pool>>

eth_emacps_add_new_mbuf(m) ==
  /\ m \in pool
  /\ table' = [table EXCEPT ![freeHead] = m]
  /\ pool' = pool \ {m}

\* eth_emacps_process_rxd_bds gives the next free BD a new mbuf and the BD to
\* the controller.
Refill(m) ==
  /\ pc \in {"init", "refill"} /\ todo > 0
  /\ eth_emacps_add_new_mbuf(m)
  /\ new' = new \ {freeHead}
  /\ freeHead' = Ahead(freeHead, 1)
  /\ freeCnt' = freeCnt - 1
  /\ hwCnt' = hwCnt + 1
  /\ todo' = todo - 1
  /\ UNCHANGED <<hwHead, frame, stack, pc, wait, event, pos, arrived, batch, last, starved>>

\* Mutant: the BD is not given back to the ring.
RefillFails_NoUnAlloc ==
  /\ pc = "refill" /\ todo > 0
  /\ pool = {} /\ wait = 0
  /\ todo' = 0
  /\ starved' = TRUE
  /\ freeHead' = Ahead(freeHead, 1)
  /\ freeCnt' = freeCnt - 1
  /\ UNCHANGED <<hwHead, hwCnt, new, table, frame, pool, stack, pc, wait, event, pos, arrived,
                 batch, last>>

\* No mbuf, and the task does not wait for one: the refill ends.
\* eth_emacps_new_mbuf tests the flag as a truth value.
RefillFails ==
  /\ pc = "refill" /\ todo > 0
  /\ pool = {} /\ wait = 0
  /\ todo' = 0
  /\ starved' = TRUE
  /\ UNCHANGED <<ringVars, new, table, frame, pool, stack, pc, wait, event, pos, arrived,
                 batch, last>>

\* Mutant: what happened while the task worked is forgotten.
LoopEnd_ClearsEvent ==
  /\ pc \in {"init", "refill"} /\ todo = 0
  /\ pc' = IF batch = <<>> THEN "wait" ELSE "input"
  /\ event' = (event /\ batch # <<>>)
  /\ batch' = <<>>
  /\ UNCHANGED <<ringVars, new, table, frame, pool, stack, wait, todo, pos, arrived,
                 last, starved>>

\* The task looks for more frames until there are none.
LoopEnd ==
  /\ pc \in {"init", "refill"} /\ todo = 0
  /\ pc' = IF batch = <<>> THEN "wait" ELSE "input"
  /\ batch' = <<>>
  /\ UNCHANGED <<ringVars, new, table, frame, pool, stack, wait, todo, event, pos, arrived,
                 last, starved>>

\* The network stack is done with an mbuf.
m_free(m) ==
  /\ m \in stack /\ pc # "lost"
  /\ stack' = stack \ {m}
  /\ pool' = pool \cup {m}
  /\ frame' = [frame EXCEPT ![m] = 0]
  /\ UNCHANGED <<ringVars, new, table, pc, wait, todo, event, pos, arrived, batch, last,
                 starved>>

-----------------------------------------------------------------------------
Task == Wake \/ eth_emacps_input \/ (\E m \in Mbufs : Refill(m)) \/ RefillFails \/ LoopEnd

Next ==
  \/ eth_emacps_recv_handler \/ eth_emacps_error_handler
  \/ Task
  \/ \E m \in Mbufs : m_free(m)

\* The task runs when its event is pending; the stack gives every mbuf back.
Fairness == WF_vars(Task) /\ \A m \in Mbufs : WF_vars(m_free(m))

Spec == Init /\ [][Next]_vars /\ Fairness

(***************************************************************************)
(* Properties.                                                             *)
(***************************************************************************)
Hw == From(hwHead, hwCnt)

\* A scan went past the last BD of the controller.
Overran == pc = "lost"

\* Every variable stays in its range, and the counters of the ring account for
\* every BD.
TypeOK ==
  ~Overran =>
    /\ freeHead \in Bds /\ hwHead \in Bds /\ pos \in Bds
    /\ freeCnt \in 0 .. N /\ hwCnt \in 0 .. N
    /\ freeCnt + hwCnt = N /\ freeHead = Ahead(hwHead, hwCnt)
    /\ new \subseteq Bds
    /\ table \in [Bds -> Mbufs \cup {NONE}]
    /\ frame \in [Mbufs -> 0 .. MaxFrames]
    /\ todo \in 0 .. freeCnt
    /\ arrived \in 0 .. MaxFrames

\* An mbuf is in one place: in the pool, with the stack, or with the one BD of
\* the controller that points to it.
MbufInOnePlace ==
  ~Overran =>
    /\ pool \cap stack = {}
    /\ \A i \in Hw : table[i] \notin pool \cup stack
    /\ \A i, j \in Hw : table[i] = table[j] => i = j

\* Nothing that the controller may write to belongs to anyone else: once the
\* interface is started, the BDs without the new bit are those given to the
\* controller and not yet filled, although freed BDs keep their old pointers and
\* a refill may stop half way.
ControllerOwnsTargets ==
  (pc # "init" /\ ~Overran) => Bds \ new = {i \in Hw : i \notin new}

\* As long as no allocation failed, the scan stops at the controller's last BD,
\* although it does not look for it.
ScanStaysInRing == Overran => starved

\* The task does not sleep over a frame that was written: the interrupt of a frame
\* that comes after the scan found none, while the task refills the ring, is still
\* pending when the loop ends.
InterruptNotLost == (pc = "wait" /\ ~event) => Hw \cap new = {}

\* The stack is handed the frames in the order of arrival and none of them twice,
\* however the controller's filling, the freeing and the refilling of BDs overlap.
DeliveredInOrder ==
  [][(batch' # batch /\ ~Overran') =>
       \A k \in 1 .. Len(batch') : batch'[k] > (IF k = 1 THEN last ELSE batch'[k - 1])]_vars

\* A frame that was written is handed to the stack in the end, unless a scan
\* went too far.
FrameDelivered ==
  \A i \in Bds : (i \in Hw /\ i \in new) ~> (i \notin Hw \/ i \notin new \/ Overran)

=============================================================================
