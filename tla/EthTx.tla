-------------------------------- MODULE EthTx --------------------------------
(***************************************************************************)
(* The transmit side of the Zynq Ethernet driver (driver/ethEmacPs) with   *)
(* the ring of buffer descriptors (BDs) of the Xilinx library it is built  *)
(* on (emacps_v1_04_a).                                                    *)
(*                                                                         *)
(* The transmit task sleeps until the network stack starts output or the   *)
(* controller has sent a frame.  It then reclaims the BDs of frames that   *)
(* were sent and puts the frames queued by the stack into the ring, one BD *)
(* per fragment.  The controller walks the ring on its own: a BD is its    *)
(* own while the used bit is clear; when it has sent a frame it sets the   *)
(* used bit of the first BD of the frame, and of no other.                 *)
(*                                                                         *)
(* The task holds the network semaphore except while it sleeps, so the     *)
(* stack moves only then; the controller moves at any time, also between   *)
(* two reads of the task's scan of the ring.  A frame is its number, in    *)
(* the order in which the stack queues frames; 0 stands for no frame.      *)
(***************************************************************************)
EXTENDS Integers, Sequences, FiniteSets

CONSTANTS
  N,           \* txUnitCount: BDs in the ring
  Lengths,     \* numbers of fragments of a frame
  MaxFrames    \* bound of the model: frames queued by the stack

ASSUME NAssumption == N \in Nat \ {0}
ASSUME LengthsAssumption == Lengths \subseteq Nat \ {0}
ASSUME MaxFramesAssumption == MaxFrames \in Nat

Bds == 0 .. N - 1

VARIABLES
  freeHead, freeCnt,   \* XEmacPs_BdRing: BDs to be allocated
  preCnt,              \* BDs allocated and not yet given to the controller
  hwHead, hwCnt,       \* BDs given to the controller
  bd,                  \* the BDs: used bit, last bit, whose fragment
  table,               \* txMbufTable
  pc,                  \* where the transmit task is
  left,                \* BDs of the frame still to be handed over
  scan,                \* locals of XEmacPs_BdRingFromHwTx
  m0,                  \* the task's frame that did not fit
  queue,               \* if_snd
  oactive,             \* IFF_OACTIVE
  event,               \* an event is pending for the task
  queued,              \* frames queued so far
  hw,                  \* the controller: position, first BD of its frame, running
  done,                \* history: the last frame sent completely
  torn,                \* history: the controller ran out of a frame's BDs
  crowded              \* history: more than half of the ring was in use or asked for

ringVars == <<freeHead, freeCnt, preCnt, hwHead, hwCnt>>
stackVars == <<queue, oactive, queued>>
vars == <<ringVars, bd, table, pc, left, scan, m0, stackVars, event, hw, done, torn, crowded>>

Ahead(i, n) == (i + n) % N

\* The n BDs from i on.
From(i, n) == {Ahead(i, k) : k \in 0 .. n - 1}

NoScan == [cur |-> 0, count |-> 0, partial |-> 0, sop |-> FALSE, limit |-> 0]

NoFrame == [id |-> 0, len |-> 0]

Idle == [used |-> TRUE, last |-> FALSE, frame |-> 0]

Init ==
  /\ freeHead = 0 /\ freeCnt = N
  /\ preCnt = 0
  /\ hwHead = 0 /\ hwCnt = 0
  /\ bd = [i \in Bds |-> Idle]
  /\ table = [i \in Bds |-> 0]
  /\ pc = "wait"
  /\ left = 0
  /\ scan = NoScan
  /\ m0 = NoFrame
  /\ queue = <<>>
  /\ oactive = FALSE
  /\ event = FALSE
  /\ queued = 0
  /\ hw = [pos |-> 0, first |-> 0, mid |-> FALSE, running |-> FALSE]
  /\ done = 0
  /\ torn = FALSE
  /\ crowded = FALSE

(***************************************************************************)
(* The stack queues a frame of n fragments and starts output if the        *)
(* interface is not active.                                                *)
(***************************************************************************)
eth_emacps_interface_start(n) ==
  /\ pc = "wait"
  /\ queued < MaxFrames
  /\ queued' = queued + 1
  /\ queue' = Append(queue, [id |-> queued + 1, len |-> n])
  /\ oactive' = TRUE
  /\ event' = (event \/ ~oactive)
  /\ UNCHANGED <<ringVars, bd, table, pc, left, scan, m0, hw, done, torn, crowded>>

(***************************************************************************)
(* The task wakes up and reclaims BDs (eth_emacps_process_txd_bds).        *)
(***************************************************************************)
Wake ==
  /\ pc = "wait" /\ event
  /\ event' = FALSE
  /\ IF hwCnt = 0
     THEN pc' = "send" /\ UNCHANGED scan
     ELSE pc' = "scan" /\ scan' = [NoScan EXCEPT !.cur = hwHead, !.limit = hwCnt]
  /\ UNCHANGED <<ringVars, bd, table, left, m0, stackVars, hw, done, torn, crowded>>

\* One turn of the loop of XEmacPs_BdRingFromHwTx: BDs count from one with the
\* used bit up to one with the last bit.
XEmacPs_BdRingFromHwTx ==
  /\ pc = "scan" /\ scan.count < scan.limit
  /\ LET b == bd[scan.cur]
         sop == scan.sop \/ b.used
         n == IF sop THEN 1 ELSE 0
     IN  scan' = [scan EXCEPT !.cur = Ahead(@, 1),
                              !.count = @ + n,
                              !.partial = IF sop /\ b.last THEN 0 ELSE @ + n,
                              !.sop = sop /\ ~b.last]
  /\ UNCHANGED <<ringVars, bd, table, pc, left, m0, stackVars, event, hw, done, torn, crowded>>

\* Mutant: BDs of a frame whose end was not found are not subtracted.
Found_Partial == scan.count

\* The BDs found, without those of a frame whose end was not.
Found == scan.count - scan.partial

\* Mutant: the last bit is set where the used bit was meant.
Reset_Last(i) == [used |-> FALSE, last |-> TRUE, frame |-> 0]

\* A BD reclaimed has its used bit set, whichever BD of its frame it was.
Reset(i) == Idle

\* Mutant: the table keeps the fragments of the BDs reclaimed.
Reclaim_KeepsTable ==
  /\ pc = "scan" /\ scan.count >= scan.limit
  /\ LET set == From(hwHead, Found)
     IN  /\ UNCHANGED table
         /\ bd' = [i \in Bds |-> IF i \in set THEN Reset(i) ELSE bd[i]]
  /\ hwHead' = Ahead(hwHead, Found)
  /\ hwCnt' = hwCnt - Found
  /\ freeCnt' = freeCnt + Found
  /\ scan' = NoScan
  /\ pc' = "send"
  /\ UNCHANGED <<freeHead, preCnt, left, m0, stackVars, event, hw, done, torn, crowded>>

\* The fragments of the BDs found are freed, and the BDs with them.
Reclaim ==
  /\ pc = "scan" /\ scan.count >= scan.limit
  /\ LET set == From(hwHead, Found)
     IN  /\ table' = [i \in Bds |-> IF i \in set THEN 0 ELSE table[i]]
         /\ bd' = [i \in Bds |-> IF i \in set THEN Reset(i) ELSE bd[i]]
  /\ hwHead' = Ahead(hwHead, Found)
  /\ hwCnt' = hwCnt - Found
  /\ freeCnt' = freeCnt + Found
  /\ scan' = NoScan
  /\ pc' = "send"
  /\ UNCHANGED <<freeHead, preCnt, left, m0, stackVars, event, hw, done, torn, crowded>>

(***************************************************************************)
(* The task takes frames from the queue until it is empty.  A frame that   *)
(* did not fit before goes first, in place of the frame just taken.        *)
(***************************************************************************)
Frame == IF m0 = NoFrame THEN Head(queue) ELSE m0

\* The frame makes the ring more than half full, or would if there were BDs for it.
Crowding == crowded' = (crowded \/ 2 * (N - freeCnt + Frame.len) > N)

\* Mutant: the interface stays active.
QueueEmpty_Active ==
  /\ pc = "send" /\ queue = <<>>
  /\ pc' = "wait"
  /\ UNCHANGED <<ringVars, bd, table, left, scan, m0, queue, oactive, queued, event, hw, done, torn, crowded>>

\* Nothing to send: the interface is not active any more.
QueueEmpty ==
  /\ pc = "send" /\ queue = <<>>
  /\ oactive' = FALSE
  /\ pc' = "wait"
  /\ UNCHANGED <<ringVars, bd, table, left, scan, m0, queue, queued, event, hw, done, torn, crowded>>

\* low_level_output finds no BD: the frame is kept for later.
RingFull ==
  /\ pc = "send" /\ queue # <<>>
  /\ freeCnt = 0
  /\ m0' = Frame
  /\ queue' = Tail(queue)
  /\ oactive' = FALSE
  /\ pc' = "wait"
  /\ UNCHANGED <<ringVars, bd, table, left, scan, queued, event, hw, done, torn, crowded>>

\* XEmacPs_BdRingAlloc fails: the frame counts as sent.
TooFewBds ==
  /\ pc = "send" /\ queue # <<>>
  /\ freeCnt > 0 /\ freeCnt < Frame.len
  /\ m0' = NoFrame
  /\ queue' = Tail(queue)
  /\ Crowding
  /\ UNCHANGED <<ringVars, bd, table, pc, left, scan, oactive, queued, event, hw, done, torn>>

\* eth_emacps_sgsend fills a BD for each fragment; they stay its own.
eth_emacps_sgsend ==
  /\ pc = "send" /\ queue # <<>>
  /\ Frame.len <= freeCnt
  /\ LET set == From(freeHead, Frame.len)
         end == Ahead(freeHead, Frame.len - 1)
     IN  /\ table' = [i \in Bds |-> IF i \in set THEN Frame.id ELSE table[i]]
         /\ bd' = [i \in Bds |-> IF i \in set
                                 THEN [used |-> TRUE, last |-> i = end, frame |-> Frame.id]
                                 ELSE bd[i]]
  /\ freeHead' = Ahead(freeHead, Frame.len)
  /\ freeCnt' = freeCnt - Frame.len
  /\ preCnt' = Frame.len
  /\ left' = Frame.len
  /\ m0' = NoFrame
  /\ queue' = Tail(queue)
  /\ pc' = "handover"
  /\ Crowding
  /\ UNCHANGED <<hwHead, hwCnt, scan, oactive, queued, event, hw, done, torn>>

\* Mutant: the BDs are handed over from the first to the last.
HandOver_Forward ==
  /\ pc = "handover" /\ left > 0
  /\ bd' = [bd EXCEPT ![Ahead(freeHead, N - left)].used = FALSE]
  /\ left' = left - 1
  /\ UNCHANGED <<ringVars, table, pc, scan, m0, stackVars, event, hw, done, torn, crowded>>

\* XEmacPs_BdClearTxUsed, from the last BD to the first.
HandOver ==
  /\ pc = "handover" /\ left > 0
  /\ bd' = [bd EXCEPT ![Ahead(freeHead, N - preCnt + left - 1)].used = FALSE]
  /\ left' = left - 1
  /\ UNCHANGED <<ringVars, table, pc, scan, m0, stackVars, event, hw, done, torn, crowded>>

\* Mutant: the BDs of a frame are counted as one.
XEmacPs_BdRingToHw_One ==
  /\ hwCnt' = hwCnt + 1
  /\ preCnt' = 0

XEmacPs_BdRingToHw ==
  /\ hwCnt' = hwCnt + preCnt
  /\ preCnt' = 0

\* Mutant: the controller is not told.
XEmacPs_Transmit_Not == UNCHANGED hw

XEmacPs_Transmit == hw' = [hw EXCEPT !.running = ~torn]

\* The end of eth_emacps_sgsend: the ring is told, then the controller.
Submit ==
  /\ pc = "handover" /\ left = 0
  /\ XEmacPs_BdRingToHw
  /\ XEmacPs_Transmit
  /\ pc' = "send"
  /\ UNCHANGED <<freeHead, freeCnt, hwHead, bd, table, left, scan, m0, stackVars, event, done, torn,
                 crowded>>

(***************************************************************************)
(* The controller.                                                         *)
(***************************************************************************)
\* A BD with its used bit set ends the walk.  In the middle of a frame that is
\* an error: the frame is torn, and the model's controller stays halted (the
\* recovery of eth_emacps_handle_tx_errors is not modelled).
HwHalt ==
  /\ hw.running /\ bd[hw.pos].used
  /\ hw' = [hw EXCEPT !.running = FALSE]
  /\ torn' = (torn \/ hw.mid)
  /\ UNCHANGED <<ringVars, bd, table, pc, left, scan, m0, stackVars, event, done, crowded>>

\* A fragment that is not the last.
HwFragment ==
  /\ hw.running /\ ~bd[hw.pos].used /\ ~bd[hw.pos].last
  /\ hw' = [hw EXCEPT !.pos = Ahead(@, 1), !.first = IF hw.mid THEN @ ELSE hw.pos, !.mid = TRUE]
  /\ UNCHANGED <<ringVars, bd, table, pc, left, scan, m0, stackVars, event, done, torn, crowded>>

\* The last fragment: the frame is sent, the used bit of its first BD is set and
\* the interrupt handler wakes the task.
eth_emacps_send_handler ==
  /\ hw.running /\ ~bd[hw.pos].used /\ bd[hw.pos].last
  /\ LET first == IF hw.mid THEN hw.first ELSE hw.pos
     IN  bd' = [bd EXCEPT ![first].used = TRUE]
  /\ done' = bd[hw.pos].frame
  /\ hw' = [hw EXCEPT !.pos = Ahead(@, 1), !.mid = FALSE]
  /\ event' = TRUE
  /\ UNCHANGED <<ringVars, table, pc, left, scan, m0, stackVars, torn, crowded>>

-----------------------------------------------------------------------------
Task ==
  \/ Wake \/ XEmacPs_BdRingFromHwTx \/ Reclaim
  \/ QueueEmpty \/ RingFull \/ TooFewBds \/ eth_emacps_sgsend \/ HandOver \/ Submit

Controller == HwHalt \/ HwFragment \/ eth_emacps_send_handler

Next ==
  \/ \E n \in Lengths : eth_emacps_interface_start(n)
  \/ Task
  \/ Controller

\* The task runs when its event is pending, since every user of the network gives
\* the semaphore back; the controller runs by itself.
Fairness == WF_vars(Task) /\ WF_vars(Controller)

Spec == Init /\ [][Next]_vars /\ Fairness

(***************************************************************************)
(* Properties.                                                             *)
(***************************************************************************)
\* Every variable stays in its range, and the counters of the ring account for
\* every BD, as XEmacPs_BdRingCheck asks.
TypeOK ==
  /\ freeHead \in Bds /\ hwHead \in Bds
  /\ freeCnt \in 0 .. N /\ preCnt \in 0 .. N /\ hwCnt \in 0 .. N
  /\ freeCnt + preCnt + hwCnt = N
  /\ freeHead = Ahead(hwHead, hwCnt + preCnt)
  /\ bd \in [Bds -> [used : BOOLEAN, last : BOOLEAN, frame : 0 .. MaxFrames]]
  /\ table \in [Bds -> 0 .. MaxFrames]
  /\ pc \in {"wait", "scan", "send", "handover"}
  /\ left \in 0 .. N
  /\ scan.cur \in Bds /\ scan.count \in 0 .. scan.limit /\ scan.partial \in 0 .. scan.count
  /\ queued \in 0 .. MaxFrames /\ done \in 0 .. MaxFrames
  /\ hw.pos \in Bds /\ hw.first \in Bds

\* The mbuf table has an entry exactly for the BDs that are in use, even if BDs
\* are reclaimed too early: eth_emacps_sgsend never finds the entry of a BD it
\* was given occupied, which would make the task keep a pointer to a freed frame.
TableMatchesRing ==
  \A i \in Bds : (table[i] # 0) <=> (i \in From(hwHead, hwCnt + preCnt))

\* As long as the ring was never more than half full, the fragments that the
\* task frees are those of frames that have left the controller, although the
\* scan counts BDs while the controller works, counts past the end of the BDs
\* in use, and finds the used bit only on the first BD of a frame.
OnlySentFreed ==
  [][~crowded => \A i \in Bds : (table[i] # 0 /\ table'[i] = 0) => table[i] <= done]_vars

\* Nor does the controller ever run into a BD of a frame that is not yet, or no
\* longer, handed over.
FramesWhole == ~crowded => ~torn

\* While the task sleeps with a frame queued, its event is pending, although the
\* stack signals only an interface that is not active; and the controller stops
\* only when it has sent all it was given, although it may come to the end of the
\* ring before XEmacPs_BdRingToHw and be started afterwards.
NothingStranded ==
  ~crowded =>
    /\ (pc = "wait" /\ queue # <<>>) => event
    /\ ~hw.running => \A i \in From(hwHead, hwCnt) : bd[i].frame <= done

\* Frames leave in the order in which they were queued and none of them twice:
\* the controller never walks into BDs that were used before, as long as the
\* ring was never more than half full.
FramesInOrder == [][(~crowded /\ done' # done) => done' = done + 1]_vars

\* Every frame that the stack queues is sent in the end, as long as the ring was
\* never more than half full.
FrameSent ==
  \A f \in 1 .. MaxFrames : (queued >= f) ~> (done >= f \/ crowded)

\* xemacps_bdring.c on XEmacPs_BdRingFromHwTx: it returns "The number of BDs
\* processed by hardware".
OnlyProcessedReturned ==
  [][\A i \in Bds : (table[i] # 0 /\ table'[i] = 0) => table[i] <= done]_vars

=============================================================================
