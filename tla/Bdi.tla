--------------------------------- MODULE Bdi ---------------------------------
(***************************************************************************)
(* The bulk data interface of the PGP plugin (ppi/pgp): one device, that   *)
(* is one link of one virtual channel.                                     *)
(*                                                                         *)
(* The PGP task receives frames and lays their data end to end into pages  *)
(* of a fixed size (_fork).  The inbound engine moves the data, in the     *)
(* order the frames were retired, and announces a finished page through    *)
(* the device's rundown mailbox.  A user thread takes pages (BDI_Wait) and *)
(* gives them back (BDI_Free).  Data that does not fit into a page is      *)
(* carried over to the next one in two copies made by the user thread.     *)
(*                                                                         *)
(* A unit of data is a number: the n-th unit received on the device.       *)
(***************************************************************************)
EXTENDS Integers, FiniteSets, SequencesExt

CONSTANTS
  Pages,       \* the pages of the device's resource set
  PageSize,    \* units a page holds
  MaxFrame,    \* SIZEOF_PPI_FRAME: the most units a frame can have
  FrameSizes,  \* sizes of the data of a frame
  Copied,      \* is a frame's data moved by the engine (FALSE) or by the CPU (TRUE)
  MaxUnits,    \* bound of the model: units received
  NONE         \* no page

ASSUME PageSizeAssumption == PageSize \in Nat \ {0}
ASSUME MaxFrameAssumption == MaxFrame \in Nat \ {0}
ASSUME FrameSizesAssumption == FrameSizes \subseteq 1 .. MaxFrame
ASSUME CopiedAssumption == Copied \subseteq BOOLEAN
ASSUME MaxUnitsAssumption == MaxUnits \in Nat
ASSUME NoneAssumption == NONE \notin Pages

\* A frame descriptor: start and end of a PGP frame, size, who moves the data.
Frames == [sof : BOOLEAN, eof : BOOLEAN, size : FrameSizes, copied : Copied]

VARIABLES
  free,        \* free pages of the resource set
  dma,         \* device->dma: the page being filled
  status,      \* device->status: BDI_SEQ is set
  sequence,    \* device->sequence
  fails,       \* device->fails
  discard,     \* device->discard
  page,        \* BDI_Page and BDI_Dma of each page
  data,        \* the data buffer of each page, with room for an overflow
  stamped,     \* pages whose vc and link have been set by a fork
  work,        \* frames retired to the inbound engine, in order
  rundown,     \* the FIFO of the device's rundown mailbox
  held,        \* pages the user has
  rx,          \* units received so far
  seen,        \* history: last page the user was given
  tainted,     \* history: pages discarded with movements into them outstanding
  lost         \* history: pages that nobody refers to any more

devVars == <<dma, status, sequence, fails, discard>>
vars == <<free, devVars, page, data, stamped, work, rundown, held, rx, seen, tainted, lost>>

\* What _alloc makes of a page; the data stays as it was.  upto is a history
\* field: the last unit received for the page.
Fresh == [size |-> 0, first |-> FALSE, last |-> FALSE, err |-> FALSE, seq |-> 0,
          next |-> NONE, ovflow |-> <<>>, upto |-> 0]

\* BDI_Open allocates room for one more frame behind a page.
Offsets == 0 .. PageSize + MaxFrame - 1

\* A page takes the largest frame.  BDI_Open does not ask for it: the caller has to
\* see to it.  With a smaller page, what is carried over from one page can be more
\* than the next one holds, and grows from page to page until it leaves the buffer.
PageTakesFrame == MaxFrame <= PageSize

Init ==
  /\ free = Pages
  /\ dma = NONE
  /\ status = FALSE
  /\ sequence = 0
  /\ fails = 0
  /\ discard = 0
  /\ page = [p \in Pages |-> Fresh]
  /\ data = [p \in Pages |-> [o \in Offsets |-> 0]]
  /\ stamped = {}
  /\ work = <<>>
  /\ rundown = <<>>
  /\ held = {}
  /\ rx = 0
  /\ seen = [unit |-> 0, seq |-> 0, last |-> TRUE]
  /\ tainted = {}
  /\ lost = {}

(***************************************************************************)
(* _fork, in the PGP task.  A frame arrives and takes one of four ways.    *)
(***************************************************************************)
Receive(f) ==
  /\ rx + f.size <= MaxUnits
  /\ rx' = rx + f.size

\* The outcomes of BDI_Free(p): the vc and link of a page that was never forked
\* are uninitialised memory, and the page may not get back into its set.
Freed(p) ==
  \/ free' = free \cup {p} /\ UNCHANGED lost
  \/ p \notin stamped /\ lost' = lost \cup {p} /\ UNCHANGED free

\* Mutant: the page is freed and stays the active page.
_discard_KeepsPage(f) ==
  /\ Receive(f)
  /\ status /\ ~f.sof
  /\ IF dma = NONE THEN UNCHANGED <<free, lost>> ELSE Freed(dma)
  /\ discard' = discard + 1
  /\ UNCHANGED <<dma, status, sequence, fails, page, data, stamped, work, rundown, held,
                 seen, tainted>>

\* After a failure, frames are discarded until a start of frame; an active page
\* is freed.
_discard(f) ==
  /\ Receive(f)
  /\ status /\ ~f.sof
  /\ IF dma = NONE THEN UNCHANGED <<free, lost>> ELSE Freed(dma)
  /\ dma' = NONE
  /\ discard' = discard + 1
  /\ tainted' = IF dma \in Range([i \in DOMAIN work |-> work[i].page])
                THEN tainted \cup {dma} ELSE tainted
  /\ UNCHANGED <<status, sequence, fails, page, data, stamped, work, rundown, held, seen>>

\* _alloc and _paginate find no page.
Fail ==
  /\ fails' = fails + 1
  /\ discard' = discard + 1
  /\ sequence' = 0
  /\ status' = TRUE

NoPage(f) ==
  /\ Receive(f)
  /\ ~(status /\ ~f.sof)
  /\ dma = NONE /\ free = {}
  /\ Fail
  /\ UNCHANGED <<free, dma, page, data, stamped, work, rundown, held, seen, tainted, lost>>

\* The page that takes the frame: the active one, or a new one.
Target(p) == dma = p \/ (dma = NONE /\ p \in free)

\* Mutant: _alloc leaves the fields of the page as its last use left them.
Active_Stale(p) == page[p]

Active(p) == IF dma = NONE THEN Fresh ELSE page[p]

\* The frame overflows the page and there is no second page: the frame is
\* flushed and the page that was active is no longer device->dma.
NoNextPage(f, p) ==
  /\ Receive(f)
  /\ ~(status /\ ~f.sof)
  /\ Target(p)
  /\ Active(p).size + f.size > PageSize
  /\ free \ {p} = {}
  /\ Fail
  /\ dma' = NONE
  /\ free' = free \ {p}
  /\ lost' = lost \cup {p}
  /\ UNCHANGED <<page, data, stamped, work, rundown, held, seen, tainted>>

\* The units of frame f laid into buffer b at offset o.
Laid(b, o, first, n) == [x \in Offsets |-> IF x \in o .. o + n - 1 THEN first + (x - o) ELSE b[x]]

\* Mutant: the sequence number of a page that ends a frame is kept.
Stamp_KeepsSequence(f, forked) ==
  LET seq == IF f.sof THEN 0 ELSE sequence
  IN  /\ sequence' = IF forked THEN seq + 1 ELSE seq
      /\ status' = (status /\ ~forked)

\* The device's sequence number and error flag after a frame.
Stamp(f, forked) ==
  LET seq == IF f.sof THEN 0 ELSE sequence
  IN  /\ sequence' = IF forked THEN (IF f.eof THEN 0 ELSE seq + 1) ELSE seq
      /\ status' = (status /\ ~forked)

\* device->dma after a frame: the next page on overflow, none after a fork.
NextDma(p, q, total, forked) ==
  IF total > PageSize THEN q ELSE IF forked THEN NONE ELSE p

\* What is asked of the inbound engine for frame f, whose data goes to offset o
\* of page p: to move the data, and to announce the page.
Job(f, p, o, forked) ==
  [page |-> p, off |-> o, unit |-> rx + 1,
   size |-> IF f.copied THEN 0 ELSE f.size, rundown |-> forked]

\* Mutant: the page is announced at once, ahead of the movement of its data.
_retire_TellsAtOnce(f, p, o, forked) ==
  /\ data' = IF f.copied THEN [data EXCEPT ![p] = Laid(@, o, rx + 1, f.size)] ELSE data
  /\ work' = IF f.copied THEN work ELSE Append(work, Job(f, p, o, FALSE))
  /\ rundown' = IF forked THEN Append(rundown, p) ELSE rundown

\* Data that came with the descriptor is copied here and now; the rest is left
\* to the engine.
_retire(f, p, o, forked) ==
  /\ data' = IF f.copied THEN [data EXCEPT ![p] = Laid(@, o, rx + 1, f.size)] ELSE data
  /\ work' = IF f.copied /\ ~forked THEN work ELSE Append(work, Job(f, p, o, forked))
  /\ UNCHANGED rundown

Store(f, p, q) ==
  LET active == Active(p)
      total == active.size + f.size
      over == total > PageSize
      forked == total >= PageSize \/ f.eof
      filled == [active EXCEPT !.size = total,
                               !.first = @ \/ f.sof,
                               !.last = @ \/ f.eof,
                               !.next = IF over THEN q ELSE NONE,
                               !.seq = IF ~forked THEN @ ELSE IF f.sof THEN 0 ELSE sequence,
                               !.err = @ \/ (forked /\ status),
                               !.upto = rx + f.size]
  IN  /\ Receive(f)
      /\ ~(status /\ ~f.sof)
      /\ Target(p)
      /\ IF over THEN q \in free \ {p} ELSE q = NONE
      /\ free' = free \ {p, q}
      /\ page' = [x \in Pages |-> CASE x = p -> filled
                                    [] x = q -> [Fresh EXCEPT !.size = total - PageSize, !.upto = rx + f.size]
                                    [] OTHER -> page[x]]
      /\ dma' = NextDma(p, q, total, forked)
      /\ Stamp(f, forked)
      /\ stamped' = IF forked THEN stamped \cup {p} ELSE stamped
      /\ _retire(f, p, active.size, forked)
      /\ UNCHANGED <<fails, discard, held, seen, tainted, lost>>

\* The inbound engine: moves the data of the next frame into its page and, if
\* asked, puts the page into the rundown FIFO.
Engine ==
  /\ work # <<>>
  /\ LET job == Head(work)
     IN  /\ data' = [data EXCEPT ![job.page] = Laid(@, job.off, job.unit, job.size)]
         /\ rundown' = IF job.rundown THEN Append(rundown, job.page) ELSE rundown
  /\ work' = Tail(work)
  /\ UNCHANGED <<free, devVars, page, stamped, held, rx, seen, tainted, lost>>

(***************************************************************************)
(* The user thread.  BDI_Wait returns the page of the next rundown message *)
(* after _wait has completed it with the data carried over from the page   *)
(* before, and has set aside what is to be carried over to the page after. *)
(***************************************************************************)
\* Mutant: the data to carry over is taken before the data carried in is put
\* at the head of the page, which loses the latter.
Completed_OnlyOut(p) == data[p]

\* The buffer of p with the data carried over to it put in place.
Completed(p) ==
  [x \in Offsets |-> IF x < Len(page[p].ovflow) THEN page[p].ovflow[x + 1] ELSE data[p][x]]

_wait(p) ==
  LET n == page[p].next
      over == page[p].size - PageSize
  IN  /\ data' = [data EXCEPT ![p] = Completed(p)]
      /\ page' = [x \in Pages |->
                    CASE x = p -> [page[p] EXCEPT !.ovflow = <<>>,
                                                  !.size = IF n = NONE THEN @ ELSE PageSize]
                      [] x = n -> [page[n] EXCEPT !.ovflow =
                                     [i \in 1 .. over |-> Completed(p)[PageSize + i - 1]]]
                      [] OTHER -> page[x]]

BDI_Wait ==
  /\ rundown # <<>>
  /\ LET p == Head(rundown)
     IN  /\ _wait(p)
         /\ held' = held \cup {p}
         /\ seen' = [unit |-> page[p].upto - (page[p].size - page'[p].size),
                     seq |-> page[p].seq, last |-> page[p].last]
  /\ rundown' = Tail(rundown)
  /\ UNCHANGED <<free, devVars, stamped, work, rx, tainted, lost>>

BDI_Free(p) ==
  /\ p \in held
  /\ held' = held \ {p}
  /\ free' = free \cup {p}
  /\ UNCHANGED <<devVars, page, data, stamped, work, rundown, rx, seen, tainted, lost>>

-----------------------------------------------------------------------------
_fork(f) ==
  \/ _discard(f)
  \/ NoPage(f)
  \/ \E p \in Pages : NoNextPage(f, p)
  \/ \E p \in Pages, q \in Pages \cup {NONE} : Store(f, p, q)

Next ==
  \/ \E f \in Frames : _fork(f)
  \/ Engine
  \/ BDI_Wait
  \/ \E p \in Pages : BDI_Free(p)

Spec == Init /\ [][Next]_vars

(***************************************************************************)
(* Properties.                                                             *)
(***************************************************************************)
Units == 0 .. MaxUnits
PageFields == [size : Offsets, first : BOOLEAN, last : BOOLEAN, err : BOOLEAN, seq : Nat,
               next : Pages \cup {NONE}, ovflow : Seq(Units), upto : Nat]
Jobs == [page : Pages, off : Offsets, unit : Units, size : Units, rundown : BOOLEAN]

\* What the engine is asked to move stays inside the buffer of its page, and what is
\* carried over to a page inside its ovflow.
InBuffers ==
  /\ \A i \in DOMAIN work : work[i].off + work[i].size <= PageSize + MaxFrame
  /\ \A p \in Pages : Len(page[p].ovflow) < MaxFrame

\* Every variable stays in its range.  If a page takes the largest frame, the page
\* being filled is never full, the data of a frame stays inside the buffer that
\* BDI_Open allocated for its page, and the data carried over fits into ovflow.
TypeOK ==
  /\ free \subseteq Pages
  /\ dma \in Pages \cup {NONE}
  /\ dma # NONE => page[dma].size < PageSize
  /\ status \in BOOLEAN
  /\ sequence \in Nat /\ fails \in Nat /\ discard \in Nat
  /\ page \in [Pages -> PageFields]
  /\ data \in [Pages -> [Offsets -> Units]]
  /\ stamped \subseteq Pages
  /\ work \in Seq(Jobs)
  /\ \A i \in DOMAIN work : work[i].unit + work[i].size <= MaxUnits + 1
  /\ rundown \in Seq(Pages)
  /\ held \subseteq Pages
  /\ rx \in Units
  /\ tainted \subseteq Pages
  /\ lost \subseteq Pages
  /\ InBuffers

\* The jobs that announce their page when they are done.
Announcing == {i \in DOMAIN work : work[i].rundown}

\* The hands a page can be in.
Place == [free |-> free, dma |-> {dma} \ {NONE}, work |-> {work[i].page : i \in Announcing},
          rundown |-> Range(rundown), held |-> held, lost |-> lost]

\* A page is never in two hands: free, being filled, on its way to the user,
\* with the user, although the task, the engine and the user pass it around
\* without a lock.
PageInOnePlace ==
  /\ \A i, j \in DOMAIN Place : i # j => Place[i] \cap Place[j] = {}
  /\ \A i, j \in Announcing : work[i].page = work[j].page => i = j
  /\ IsInjective(rundown)

\* While the user has a page, nothing the task, the engine or the completion of
\* the following pages does changes it.
UserPageStable ==
  [][\A p \in held \cap held' : data'[p] = data[p] /\ page'[p] = page[p]]_vars

\* The page a step hands to the user.
Given == held' \ held

\* The data of each page continues the data of the page before it, with no unit
\* missing, repeated or out of order, unless the page carries BDI_SEQ: across
\* page boundaries that split a frame, allocation failures and discards.  The
\* one exception is a page that _discard freed while the engine still had data
\* to move into it: that data may land on what the CPU copied later.
NoSilentGap ==
  [][\A p \in Given : page[p].err \/ p \in tainted \/
       \A o \in 0 .. page'[p].size - 1 : data'[p][o] = seen.unit + o + 1]_vars

\* The sequence numbers tell the user of every break: a page that does not
\* follow the number of the page before starts or follows the end of a
\* PGP frame, or carries BDI_SEQ.
SequenceTells ==
  [][\A p \in Given :
       \/ page[p].seq = seen.seq + 1 /\ ~seen.last
       \/ page[p].seq = 0 /\ (page[p].first \/ page[p].err \/ seen.last)]_vars

\* Bdi.c on _discard: "when in error, discard active page, flush until start of
\* next PGP frame".  No page is dropped on the floor by an error.
NoPageLost == lost = {}

=============================================================================
