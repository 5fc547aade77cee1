# A TLA+ model of the RCE Gen3 software library

This directory holds TLA+ specifications of the parts of `rce-gen3-sw-lib` that
move data between firmware, interrupt handlers and threads, the TLC
configurations that check them on small instances, and proofs of their main
properties that the TLA+ proof system (TLAPS) checks for every instance.
`PROJECT.json` lists components, runs, findings, hazards and theorems, and maps
each definition to the lines it models.

## 1. The system

The library runs on Zynq ARM processors under RTEMS (parts of it under Linux).
Firmware moves frames between plug-ins (PGP, XAUI) and memory; software talks to
it through FIFOs mapped into the AXI space, where **a read pops an entry and a
write pushes one, atomically**. Two CPUs and many tasks share those FIFOs.

| part | state | operations | hard because |
|---|---|---|---|
| **SAS sessions** `service/sas/src/Sas.c`, `Mailbox.c` | free lists of sessions and rundown mailboxes (FIFOs), session structures in on-chip memory, interrupt table | `SAS_Open`, `SAS_Close`, `SAS_Bind`, `SAS_IbBind`, `SAS_ObBind`, `SAS_AppBind` | several threads, free lists without a lock, operations of several steps, one step failing |
| **SAS input loop** `Mailbox.c`, `rtems/Interrupt.c` | enabled mask, floating-point registers with popped inputs, armed sources, a binary semaphore | `SAS_Wait`, `SAS_EnableWait`, `SAS_Enable*`, `IntrHandleMbx`, `IntrWaitSync` | interrupts race the decision to block; reads are destructive |
| **Resource sets** `tool/memory/src/armCA9/memResource*` | 64-bit bitsets in memory; the master set manages the sets, itself included | `mem_rsOpen`, `mem_rsClose`, `mem_rsAlloc`, `mem_rsFree` | lock-free, LDREXD/STREXD retry loops on two CPUs |
| **BDI** `ppi/pgp/src/Bdi.c` | pages of a resource set, the page being filled, error status, sequence numbers | `_fork` (PGP task), `BDI_Wait`, `BDI_Free` (user), the inbound engine | three actors pass pages around without a lock; data split over pages; exhaustion |
| BDI event mode `BdiEm.c` | stage of one page per link | `_fork`, `BDIEM_Wait` | pages freed under posted transfers |
| **RRI** `ppi/pgp/src/Rri.c` | a session and a mailbox for each device, outbound descriptors, inbound frames | `RRI_Open`, `RRI_Close`, `RRI_Post`, `RRI_Wait`, `RRI_Read` and its like, `RRI_Fork` | lost requests, late answers, mailboxes that change hands |
| RRI event mode `RriEm.c` | a round of requests over a list | `RRIEM_Open`, `RRIEM_Post` | socket shared by devices |
| PGP task `Pgp.c` | dispatch table by virtual channel | `Pgp_Bind`, `Pgp_Unbind`, `_process` | table changed under the reader |
| **XAUI transmitter** `ppi/xaui/src/Xaui_Transmit.c` | one session, its free list of outbound descriptors, a buffer set for each device | `Xaui_TxOpen`, `Xaui_Alloc`, `Xaui_Post`, the rundown task | descriptors read after they are given back; a task blocked for the wrong mailboxes |
| **Zynq Ethernet** `driver/ethEmacPs/src` on `emacps_v1_04_a` | rings of buffer descriptors shared with the controller, tables of mbufs, events | transmit and receive tasks, interrupt handlers | the controller works on the ring while a task scans, frees and refills it |
| XAUI receiver, ethXaui | callbacks by frame type | | |
| SAS configuration `Sas.c` | descriptor area in on-chip memory, name tables | `SAS_Construct`, `SAS_Plugin`, `SAS_AppRegister` | arithmetic at the limit of the area |
| concurrency, pool, list, kvt | mutexes, once-flags, threads; free lists; hash table | | lock-free primitives; sequential algorithms |
| services, loader, cluster management, bootstrap, `xilinx`, `configuration` | | | sockets, console, ELF, vendor code, tables: not modelled |

How they interact. `BDI_Open` opens a resource set for its pages, opens a SAS
session and binds a rundown mailbox. The PGP task is a `SAS_Wait` loop whose
handler dispatches a frame to `_fork` by virtual channel. `_fork` answers with
an opcode; the inbound engine executes the opcodes in order and writes finished
pages into the rundown mailbox. `BDI_Wait` is a `SAS_EnableWait` on that mailbox
whose handler is `_wait`. `RRI_Post` takes an outbound descriptor and sends the
number of the device's mailbox with the request; the answer comes back with that
number, the PGP task forks it into the mailbox, and `RRI_Wait`, a
`SAS_EnableWait` too, handles it. `Xaui_Post` does not wait: a task in `SAS_Wait`
over the mailboxes of all devices frees the buffers of the frames sent. The
Ethernet driver shares nothing with SAS: its tasks sleep on RTEMS events and
share rings with the controller, and the network semaphore with the stack.

What makes each part correct:

* sessions: a session and a rundown mailbox have one owner; the interrupt of a
  mailbox wakes its owner; an open session keeps its maps and semaphore;
* input loop: no input lost, repeated, overtaken, or given to a disabled
  mailbox; no sleep on a FIFO that holds an input;
* resource sets: a resource has one owner whatever the interleaving; the master
  is never given out; a new set is all free;
* BDI: a page is in one hand; pages continue each other to the byte or say that
  they do not; no page is lost;
* RRI: a frame is kept by one message; a call gets the answer to its own request,
  and gets it;
* XAUI transmitter: a buffer is freed once, after it was sent, and it is freed;
* Ethernet: nothing the controller still needs is freed or overwritten; frames
  pass in order, once, whole; no wake-up is lost; counters and tables agree with
  the ring.

## 2. Modules

| module | models | abstract counterpart | proofs |
|---|---|---|---|
| `SasWait` | the input loop of one session | `Mailbox` | `SasWaitProofs` |
| `SasSession` | sessions, mailboxes, free lists | | `SasSessionProofs` |
| `Rset` | resource sets | `ResourceClaims` | `RsetProofs` |
| `Bdi` | data path of one BDI device | | `BdiProofs` |
| `Rri` | devices, requests and answers, links | | `RriProofs` |
| `XauiTx` | transmitter of the XAUI plugin | | `XauiTxProofs` |
| `EthTx` | transmit task of the Zynq Ethernet driver, with the controller | | `EthTxProofs` |
| `EthRx` | receive task of the same, with the controller | | `EthRxProofs` |
| `MCSasWait`, `MCSasSession`, `MCRset`, `MCBdi` | constants and symmetry for TLC | | |

Operators whose comment begins with "Mutant" are not part of a specification.
Each states a plausible slip in the operator that follows it, and serves to show
that a property can fail.

### SasWait

The thread is a program counter: `out` (not in `SAS_Wait`), `load`, `service`,
`arm`, `wait`. Each step that touches something shared is an action: one FIFO
read (`Load`), one handler call (`Handle`), one write of an interrupt enable
register (`Arm`), the wait (`IntrWaitSync`). `active`, `reg`, `idx`, `valid` and
`abort` are the locals of `SAS_Wait`; `valid` and `abort` are the two facts the
code keeps in `state` (its counter stays below bit 30, eight inputs a pass).
`SAS_DISABLE` and `SAS_ABORT` are any mixture; a handler may also enable
mailboxes of its session. The interrupt handler is two actions: the read of the
disable register, which disarms the requesting sources of a group and returns
them, and the release for each of them. The semaphore is a simple binary one:
set or not. `Post` and the request line are firmware, marked external.

All of the user's calls are made by the session's thread, as they are in this
repository: a binding or enabling by another thread during `SAS_Wait` is not
modelled. The `PROFILE` counters are left out.

### SasSession

A step is one store, or one access to a FIFO with the loads it needs. `SAS_Open`
takes an offset (`OpenTake`), creates the semaphore, and sets maps and count. A
bind takes a mailbox (`BindTake` for `SAS_Bind` and `SAS_ObBind`, `SAS_IbBind` for
`SAS_IbBind` and `SAS_AppBind`), then `_bindMbx` stores the id (`BindMid`) and the
count (`BindCount`), and `_bindMbxIntr` the interrupt base (`BindBase`) and the entry
of the interrupt table (`BindIntr`). `SAS_Close` deletes the semaphore; each turn of
its loop loads the count (`CloseLoad`), gives the mailbox back and stores the count
(`CloseFree`); then it gives the offset back (`CloseGive`) and clears the structure
word by word, in the order of `Map.h:570` (`CloseClear`).

The memset therefore runs under whatever the session's next owner does, and can
erase any word that owner has just stored. Two things depend on the compiler, and
the model has every outcome: in a bind the count and the id may be loaded again
where the source names them again (`Loaded`, `BindIntr`), or be kept in a register.
In the loop of `SAS_Close` the count is loaded once a turn, as in the optimised
build (`make/sw/flags.mk:585`). The two stores of `OpenInit` are one step, as the
memset stores the same zero into the count.

A thread that follows a cleared map leaves the registers and the memory modelled
here (it would use address 0 as the base of the AXI space) and takes no further
step; hence the guards `Usable` and `CHECK_DEADLOCK FALSE`. The entries that the
interrupt table has for sockets, handlers, FIFO addresses and the enabled mask are
left out. A semaphore cannot be created when all of `Syncs` exist; then `SAS_Open`
drops the offset. Zero is an id like any other: mailbox 0 exists, and an erased id
reads as mailbox 0.

History variables: `lost` (sessions dropped by an open), `torn` (a memset has erased
a mailbox id under a new owner of the session).

### Rset

Bits are positions. `Ldrexd` records what was loaded and reserves, `Stored` is
the STREXD that succeeds, `Retry` the one that fails; `Clrex` is the loss of a
reservation at any time. A store into a bitset, exclusive or not, ends all
reservations of it. `mem_rsOpen` allocates from the master (`OpenAlloc`), sets up
the bitset with a plain store and returns; `mem_rsClose` frees to the master and
stores NULL through its argument, which its callers in `ppi/pgp` pass as the
handle, so the store clears the low word of the bitset (`CloseNull`). Callers
are disciplined: a thread frees what it holds and closes a set nobody else uses.
The argument checks of `mem_rsOpen` reject a call before it has any effect; the
set-up has `n` in `1 .. MaxOpen`.

### Bdi

The n-th unit received on the device is the number n, so the content of a page
can be compared with what should be there. A frame takes one of four ways
through `_fork`: `_discard`, `NoPage`, `NoNextPage` or `Store`; `_paginate`,
`_alloc` and `_retire` are part of them. `_fork` is atomic: the fields it
changes belong to the PGP task, and those of a page to whoever has the page.
`work` holds the opcodes returned to the inbound engine, executed in order.
`BDI_Wait` is the whole call, `_wait` included, for a device that has the
default processor `_synch`: it returns one page. `BDI_Free` by the user thread
is a step. A page freed by `_discard` before it was ever forked has
uninitialised `vc` and `link`: `Freed` has both outcomes, the right set and
another one. `BDI_Open` allocates a buffer of `PageSize + MaxFrame` for a page
(`MaxFrame` is `SIZEOF_PPI_FRAME`, `Bdi.c:35`, `:539`). It does not compare the two:
that a page takes the largest frame, `PageTakesFrame`, is left to the caller, and
the properties hold for pages that do. Caching and counters other than `fails` and `discard` are left out.

History variables: `seen` (last page given), `tainted` (a page was discarded
under an outstanding transfer), `lost` (pages nobody refers to), `upto`.

### Rri

A device is the mailbox its client has; a request is its number with that
mailbox. Requests wait in `outbound` (each holds a descriptor), are on the
`wire`, wait in `inbound` for an inbound frame, and are messages in a `fifo`,
where each keeps its frame. The links answer in any order and lose requests and
answers (`Lose`). `RRI_Read`, `RRI_Write`, `RRI_Bis` and `RRI_Bic` are one action,
`RRI_Read`: post, whether or not a descriptor was there, then wait. `_wait` is
one step, because `SAS_EnableWait` of a session with one mailbox reads and
handles one message; `Return` is the processor that ends the wait (`_synch`, and
any bound one), `WaitOn` one that goes on, which only `Binders` have. `RRI_Close`
gives the mailbox back with what its FIFO holds. `RRI_OpenFails` keeps the
session that `RRI_Open` loses when no mailbox is left. The content of requests
and the fault bits are left out. Steps of `SAS_Open` and `SAS_Close` are in
`SasSession`; here they are atomic.

History variables: `gone` (clients with a request that gets no answer), `dirty`
(mailboxes closed with answers outstanding), `since` (calls of `_post` when each
client opened its device, which tells its own requests from those of the
mailbox's earlier clients).

### XauiTx

A descriptor says in `fd` what `fd->payload` and `fd->size` tell `_rundown`: a
header frame, a sync frame, or a buffer. `Send` is the engine executing
`SAS_OB_PAYLOAD_RUNDOWN` (`Sas.h:126`, "insert rundown context, free descriptor
at completion"); `_rundown` reads the descriptor afterwards, whoever has it by
then. The task's `SAS_Wait` is taken pass by pass: `Load` reads the mask and one
message of every enabled mailbox; if there is none the task blocks for the
mailboxes of that mask, and `Wake` needs a message in one of them. This is the
grain at which a mailbox that is enabled while the task is blocked is missed,
which is why `Xaui_TxOpen` posts a sync frame to the first device. Whether a device
is the first is tested (`FindsNone`, `FindsFirst`), noted (`SetsFirst`) and acted upon
(`StartTask`) in separate steps, so two threads can both be first; the second start
of the task then ends in a panic, after which nothing runs (`Running`). Bind and
enable are one step (`Xaui_TxOpen`), so two threads enabling at the same instant
are left out. Allocation errors of `Xaui_TxOpen`, statistics, the cache and the
callback of `Xaui_TxBind` are left out.

History variables: `lost` (buffers of frames that `_post` dropped), `lapped` (a
descriptor was written again before its message was handled).

### EthTx and EthRx

Both share a scheme: indices of the ring are numbers modulo `N`, the controller
is a set of actions of its own, and the task holds the network semaphore except
while it sleeps (in `EthTx` the stack therefore queues only then).

`EthTx`: one turn of the loop of `XEmacPs_BdRingFromHwTx` is one action, so that
the controller works during the scan; `Reclaim` is the rest of that function,
the loop of `eth_emacps_process_txd_bds` and `XEmacPs_BdRingFree`, which touch
only descriptors found. `eth_emacps_sgsend` fills the descriptors, `HandOver`
clears one used bit, `Submit` calls `XEmacPs_BdRingToHw` and starts the
controller. The controller sets the used bit of the first descriptor of a frame
only; that is what makes the driver set it on the others when it reclaims them.
`RingFull` and `TooFewBds` are the two ways in which a frame does not fit. One
event stands for `TXSTART` and `INTERRUPT`, which the task treats alike. Init is
the interface just brought up, which leaves an empty ring.

`EthRx`: `eth_emacps_input` is one action, since the controller fills the ring in
order and so a scan that takes time finds what one at its last read would find.
Refilling is one action for each descriptor. `wait` is the flag the task computes
and the driver then tests as a truth value; with RTEMS' values
(`M_WAIT` 0, `M_DONTWAIT` 1) the two are exchanged, so the task waits for mbufs
when many descriptors are free and fails when few are. The constants leave the
values open. When a scan enters descriptors that are not the controller's, the
counters wrap and the model stops (`pc = "lost"`).

History variables: `done`, `torn`, `crowded` (a frame made the ring more than half
full, or would have if there had been descriptors for it) in `EthTx`; `last`, `starved` (an allocation failed) in `EthRx`.

Recovery from DMA errors (`eth_emacps_handle_tx_errors`, the error task) and
bringing the interface down and up re-create the rings while the other side may
be using them; they are not modelled.

## 3. Runs

| run | checks | instance | distinct states |
|---|---|---|---|
| `sas_wait` | `TypeOK NoInputLost NoLostWakeup HandledOnlyEnabled ImplementsMailbox InputServed` | 2 mailboxes in 1 group, 3 inputs each | 49 684 |
| `sas_session` | `TypeOK SessionInOnePlace RundownInOnePlace InterruptWakesOwner` | 2 threads, sessions, mailboxes, semaphores; 1 socket; 2 inputs a session | 2 164 913 |
| `rset` | `TypeOK ResourceHeldOnce MasterReserved ImplementsClaims` | 2 threads, 3 sets, sets of up to 2 resources | 170 292 |
| `bdi` | `TypeOK PageInOnePlace UserPageStable SequenceTells NoSilentGap` | 2 pages of 2 units, frames of up to 2, 7 units received | 273 262 |
| `rri` | `TypeOK FrameKeptOnce OwnAnswer CallReturns` | 3 clients, 2 mailboxes, 2 frames, 1 descriptor, 2 requests | 230 388 |
| `xaui_tx` | `TypeOK BufferInOnePlace PayloadFreed` | 2 devices with 1 buffer each, 2 descriptors, 3 frames | 84 127 |
| `eth_tx` | `TypeOK TableMatchesRing FramesWhole OnlySentFreed FramesInOrder NothingStranded FrameSent` | 6 descriptors, 5 frames of 1 or 2 fragments | 147 406 |
| `eth_rx` | `TypeOK MbufInOnePlace ControllerOwnsTargets ScanStaysInRing DeliveredInOrder InterruptNotLost FrameDelivered` | 3 descriptors, 4 mbufs, 5 frames | 100 925 |
| `sas_session_map` | `OpenSessionMapped`, **violated** | as `sas_session` | |
| `rset_fresh` | `FreshSetAllFree`, **violated** | as `rset` | |
| `bdi_leak` | `NoPageLost`, **violated** | 2 pages, 6 units | |
| `eth_tx_over` | `OnlyProcessedReturned`, **violated** | 4 descriptors, 5 frames | |

Why the bounds suffice to make the cases happen. Two mailboxes
let one be empty or aborting while the other is valid, and one interrupt find
both; three inputs let a source be disarmed, armed again and interrupt again.
Two threads and two of each resource reach
exhaustion and reuse; in `sas_session` one thread clears a session while the other
opens it, binds one or two mailboxes and closes it again, and two inputs let the
memset reset the count, or erase an id, between two binds and between two turns of
the loop of `SAS_Close`. Three sets are the master and two to compete for; a low
word of one bit makes the word boundary fall inside a set. Two pages are enough
for one to overflow into the other and for none to be left, and seven units for
the page to be used again after that. A frame as large as a page is
the limit of `PageTakesFrame`. Pages are interchangeable (`AnyPage`), and so are the
threads of `rset` (`AnyThread`) and the threads and semaphores of `sas_session`. In `rri` three clients for two
mailboxes make an open fail and a mailbox change hands with an answer under way;
one descriptor makes a second request fail while the first is being sent; two
frames can be used up by messages nobody waits for. In `xaui_tx` two descriptors
allow the sync frame to find none, and a descriptor to be taken again before its
message is handled. In `eth_tx` six descriptors leave room for frames of two
fragments below and above half of the ring, and for the ring to wrap; in `eth_rx`
the fourth mbuf lets a refill succeed in part, and five frames let the ring wrap
and overflow.

Deadlock is not checked where the system may stop: when the bound on inputs,
units, requests or frames is reached, when a thread has faulted (`SasSession`),
or when a client waits for an answer that was lost (`Rri`). It is checked for
`Rset`.

Fairness. A thread runs when it is not blocked, which the RTEMS scheduler gives
a ready task; an interrupt that is requested is taken and its handler ends, and
an engine or controller executes what it is given, which the hardware gives.
Nothing obliges a user to call, a front-end to send, or a link to answer, with
these exceptions, which the properties need and name: in `Rri` the links deal
with a request by answering or losing it; in `EthRx` the network stack gives
every mbuf back; in `XauiTx` a thread that is inside `Xaui_TxOpen` comes to its
end.

Properties with a condition. Some properties hold only as long as something has
not happened, and the condition is the part of the result a user of the code
should know:

* `RundownInOnePlace`, `InterruptWakesOwner`: of mailbox 0, only until a memset has
  erased a mailbox id of a reopened session (`torn`, `Safe`). From then on the
  session's structure names mailbox 0 in place of the mailbox it had: its `SAS_Close`
  frees mailbox 0, which may be free or bound elsewhere, and never frees the other.
  Both happen in the model. All other mailboxes keep one owner, whatever was erased.
  `InterruptWakesOwner` also says nothing of a session whose semaphore was erased;
  `OpenSessionMapped` shows that this happens.
* all of `Bdi`: a page takes the largest frame (`PageTakesFrame`). With `PageSize = 2`
  and frames of three units TLC finds an over-full page (`Bdi.c:355`) in a few steps.
* `OwnAnswer`: no other request of the client is under way, and the mailbox was
  not closed with answers outstanding (`dirty`); without that a late answer of
  the earlier client ends the call.
* `CallReturns`: the request was neither dropped nor lost (`gone`) and inbound
  frames do not run out for good.
* `BufferInOnePlace`, `PayloadFreed`: no descriptor was written again before its
  message was handled (`lapped`). The free list makes that unlikely as long as
  it is long and the task prompt; nothing in the code excludes it. `PayloadFreed`
  also ends with the panic of two first opens.
* `OnlySentFreed`, `FramesWhole`, `NothingStranded`, `FramesInOrder`, `FrameSent`:
  the ring was never more than half full (`crowded`; a frame that is dropped because
  it does not fit counts). With at most half of it in use, the free
  descriptors, all marked used and none of them the end of a frame, are enough
  for the scan's count, so it stops before it comes round to descriptors in use.
* `ScanStaysInRing`: no allocation failed (`starved`).
* `NoSilentGap`: no page was discarded under a transfer (`tainted`).

### What the violated properties show

1. `SAS_Close` gives the session back before it clears it (`Sas.c:302`, `:310`). The
   next owner can lose its maps, its semaphore, its count of mailboxes and their ids;
   an erased id makes its own `SAS_Close` free mailbox 0 instead.
2. `mem_rsClose` stores NULL into a set it has already freed (`memResource.c:77`).
3. `_fork` drops the active page when there is no second one (`Bdi.c:347`).
4. `XEmacPs_BdRingFromHwTx` returns descriptors that the controller has not
   processed, and the driver frees their fragments (`xemacps_bdring.c:702`).

Each is quoted against the comment it contradicts in `PROJECT.json`. Noticed as
well, without a run:

* `mem_rsClose` called with a pointer to the handle, as its documentation says,
  frees a set computed from the address of the handle (`memResource.c:76`).
* `_discard` frees a page under an outstanding transfer; the page can be
  reallocated, filled by the CPU and then overwritten (`Bdi.c:280`).
* After a failure, frames are flushed past the next start of frame (`Bdi.c:275`).
* A frame that ends a PGP frame and overflows its page sets `BDI_LAST` on the
  full page (`Bdi.c:341`), and the rest of its data goes to the next page, which
  is not marked and waits for another frame.
* `XEmacPs_BdRingFromHwRx` goes past the last descriptor of the controller when a
  refill stopped half way; `ScanStaysInRing` says that this takes a failed
  allocation.
* A frame kept because the ring was full displaces the frame taken next
  (`ethernet.c:437`, `:456`), and a frame with more fragments than free
  descriptors counts as sent (`ethEmacPs.c:140`).
* `BDI_Open` accepts pages smaller than a frame. What overflows such a page is more
  than the next one holds, and what is carried over grows with every frame until it
  leaves the buffer and `ovflow` (`Bdi.c:355`, `:440`).
* Two threads that open the first XAUI device at once both start the task
  (`Xaui_Transmit.c:472`, `:474`), and the second panics.
* `BDI_Bind` dereferences a device that does not exist (`Bdi.c:578`).
* `_post` of the XAUI plugin drops the buffer of a frame for which it finds no
  descriptor (`Xaui_Transmit.c:150`), and `RRI_Open` the session for which it
  finds no mailbox (`Rri.c:171`).

## 4. Theorems

For every value of the constants that satisfies the `ASSUME`s of the modules (a
positive number of mailboxes, or of sets with a word boundary among them; a ring of
at least one descriptor; frames of at least one fragment; in `EthRx` no fewer mbufs
than descriptors, so that the first filling of the ring succeeds; in `SasSession` 0 is
the id of a rundown mailbox and of a socket; in `Bdi` no frame is larger than
`MaxFrame`, the length the firmware is documented to keep to at `Bdi.c:35`). The
theorems of `Bdi` have one more condition, in their statements: `PageTakesFrame`, which
`BDI_Open` does not enforce.

* `SasWaitProofs`: `TypeCorrect`, `WakeupNotLost`, `OnlyEnabledHandled`,
  `InputsNotLost`, `LoopImplementsMailbox`.
* `SasSessionProofs`: `TypeCorrect`, `SessionsApart`, `RundownsApart`, `OwnerWoken`
  (for finite sets of sessions and mailboxes).
* `RsetProofs`: `TypeCorrect`, `HeldOnce`, `MasterKept`, `SetsImplementClaims`.
* `RriProofs`: `TypeCorrect`, `FramesKept`, `AnswersOwn`.
* `BdiProofs`: `TypeCorrect`, `PagesApart`, `HeldPagesStable`, `NumbersTell`,
  `DataContinues`, each for pages that take the largest frame.
* `XauiTxProofs`: `TypeCorrect`, `BuffersApart` (for a finite set of descriptors).
* `EthTxProofs`: `TypeCorrect`, `TableMatches`, `FramesStayWhole`, `FreedWasSent`,
  `InOrder`, `NothingIsStranded`.
* `EthRxProofs`: `TypeCorrect`, `ScanInRing`, `MbufsApart`, `TargetsOwned`, `InOrder`,
  `InterruptKept`.

Together they state every property of the passing runs except the five that are
liveness. For three of those the safety core is proved: `NoLostWakeup`,
`NothingStranded` and `InterruptNotLost` say that whoever should act next is not
asleep, and fairness does the rest.

The arguments. In `SasWait`, `NoLostWakeup` speaks of the blocked state only; the
inductive invariant extends it to the arm loop: while the loop is at index `i`,
every enabled source above `i` is armed, in the hands of an interrupt handler,
or the semaphore is already set, and the pass works on the enabled mask. For
`HandledOnlyEnabled` it adds that in a pass `active` is within `enabled`, as a
handler can disable only its own mailbox, which is retired in the same step.
The refinement maps a
mailbox's queue to its register followed by its FIFO: lemmas show that `Load`
leaves the queue alone, `Handle` takes its head, `Post` appends to it and all
other steps keep it. `NoInputLost` follows from the same lemmas by induction
over the steps.

In `SasSession`, no invariant on free lists is inductive alone: that `SAS_Close`
returns a mailbox that is not already on the list needs that the session has one
owner and that a mailbox is bound once. With a memset under way, `srcs` does not say
which mailboxes a session has: a bind or a turn of the closing loop that has loaded
the count stores it later, over the zero of the memset, and brings mailboxes back
that seemed gone. So the invariant speaks of the mailboxes in reach (`Reach`, `Names`):
those below the count, and those below a count that has been loaded and may still be
stored, without the one being bound. `Places` and `Wakes` are the two properties for
these. `Local` says what the steps of an operation know of each other: a position in
use is in range and not below the count, and the structure holds what was stored or
the zeroes of a memset. A store of the memset then takes names away, resets a count,
or turns an id into 0, which sets `torn` (`WipeEffect`, `NoNewNames`); no step makes a
new name of a safe mailbox but the bind of the thread that took it. The proof never
uses the order of the memset's stores: the theorems hold for any order of them.

In `Rset`, the invariant adds: a thread whose reservation stands has in its
registers the bitset that is in memory; the call a thread is in agrees with its
program counter and with what it has; and a set that is open, being opened or
being closed is used only by threads that may. The successful STREXD is then
an atomic step on the current bitset, which gives `ResourceHeldOnce`, and
`Lowest`, proved from well-foundedness, keeps the master.

In `Rri`, `FrameKeptOnce` is inductive: `RRI_Fork` puts a free frame into a new
message and `_wait` frees that of the message it takes, and the two lemmas that
say so follow positions in the FIFOs. `OwnAnswer` needs two facts about what is
under way for a mailbox (`Pending`: requests queued, on the wire or answered, and
messages in the FIFO). `Clean`: for a mailbox that was never closed too early it
is nothing while the mailbox is free, and only its client's own requests (made
after `since`) while it is not. `Alone`: what a synchronous call waits for is then
all there is. Only `_post` adds to `Pending`, and only for the client's mailbox,
which no other client has; every other step shrinks it. `Accounted` (free sessions
and open devices together are at most `NumSessions`) gives `TypeOK` its bound on
`sessions`.

In `Bdi`, `TypeOK` holds the bounds of the buffers (`InBuffers`): a frame is laid behind
less than a page of data, so it ends within `PageSize + MaxFrame`, and what exceeds the
page is less than `MaxFrame`. That the next page is not full when it begins with this
rest is where `PageTakesFrame` is needed. `PageInOnePlace` is not inductive alone. `_fork` links a page to the next
while it announces it, and `_wait` later writes into that next page through the
link: `NextBehind` says that the page linked to is being filled, behind the page
on its way to the user, or lost, and, once an error has been noted, not the one
that will be discarded; so it has not reached the user. `JobsBefore` says that no
job moves data into a page after the job that announces it, which, with the jobs
done in order, keeps the engine away from pages of the user even when they were
discarded and given out again while jobs for them were waiting. `UserPageStable`
follows from the two.

What `_wait` hands over has been through three hands: `_fork` numbers a page and
plans its data, the engine or the processor moves it, `_wait` completes it. The
invariants behind `SequenceTells` and `NoSilentGap` therefore speak of all pages on
their way to the user (`Flying`: announced by a job or in a message). `Filling` and
`InOrder` order these pages, and the one being filled, by the unit they end with.
`Chain` says that each `Follows` the page behind which it comes, the first of them
the page the user was given last, and that the page the device completes next will
follow the last of them (`Ready`); to follow is to have the right number and, unless
an error is marked, to begin where the other ends. That end is known from the time
a page is announced, before anything is moved. `DataInv` says what is in memory: a
waiting job moves data to where the frame was laid (`JobsRight`); every unit of a
page is in its place, still to be moved, or to be carried in from the page before
(`DataRight`); what was carried in is what the page begins with (`CarriedIn`), and the
rest of a page that overflows is in the page linked to it (`CarryOver`). A page that
was discarded under a transfer may be moved into by an old job, which is what
`tainted` is for.

In `XauiTx`, the invariant joins the places of a descriptor (`Descriptors`: free,
with one thread or posted; or in a mailbox, possibly as well as in one of these),
what the task has read (`Registers`), and, as long as `lapped` is false,
`Messages` (a descriptor named by a message is named once, is as it was when it
was sent, and its buffer is of the device it was sent for) and `BuffersKept`,
which is `BufferInOnePlace` without counting. That a buffer goes back to the right
set is part of it: `_rundown` frees to the device whose mailbox it read.

In `EthTx`, everything is said of positions counted from `hwHead` on. Two numbers
describe the controller: it has sent the frames of the first `s` positions and works
at position `c` (`Walk`); between them lie fragments of the frame it is sending, and
from `s` on the used bits are set exactly on the descriptors that are still being
handed over. `Rings` says what the descriptors hold: frames in rising order, each
ending with the last bit, the rest of the ring used and without the last bit, and
at least half of the ring is such. The scan is then followed by its position `x`
(`Scanned`): up to `s` it may count; from `s` to the end of the descriptors in use it
finds no used bit and counts nothing; past the end every descriptor it counts stays
partial, since none has the last bit. As each of them raises the count by one and
the scan stops when the count reaches the number in use, `x` stays below twice that
number, hence, with the ring at most half full, in the ring; and what it found less
what is partial is at most `s`. The proof also shows that the condition is used
nowhere else: `TypeOK` and `TableMatchesRing` are proved without it.

In `EthRx`, lemmas about numbers modulo the size of the ring turn what is said of BDs
into what is said of positions from `hwHead` on. Then the invariant is: the
controller has filled the first `k` of its BDs, with frames in increasing order, and
goes on with the next (`Filled`); freed BDs keep their new bit (`FreeBds`); and free
BDs are left after a refill only if an allocation failed (`Refilled`). `Scan`
concludes that `XEmacPs_BdRingFromHwRx` counts these `k`, or, when the controller
has filled all of its BDs and some are free, goes round the whole ring: that is the
overrun, and `Refilled` says what it takes. `Signalled` extends `InterruptNotLost` to
the refill after a scan that found nothing: until an event is pending no descriptor
of the controller has the new bit.

Only model-checked: every liveness property (`InputServed`, `CallReturns`,
`PayloadFreed`, `FrameSent`, `FrameDelivered`), which rests on fairness. The proof
of `SasWait`'s `Mailbox` refinement is of its safety part, which is all that
`Mailbox` states.

## 5. Not modelled, and what is left

* **`BDI_Close`, `BDI_Reset`, `BDI_Bind` and the dispatch table of `Pgp.c`.** They
  change what the PGP task uses without any lock; the caller must stop the link
  first, which is not part of the code. `BDI_Bind` fails on its first call. `BDI_Open`
  is the initial state of `Bdi`; pages smaller than a frame are outside of it.
* **`BdiEm.c`, `RriEm.c`.** Variants of `Bdi.c` and `Rri.c` for a fixed set of links
  that are read in rounds; the pages, frames and mailboxes follow the scheme that
  `Bdi` and `Rri` have.
* **Metrics and fault interrupts, the Linux build of `Interrupt.c`.** The handlers
  count and print. The Linux build polls and does not run on the target.
* **`SAS_Plugin`, `SAS_AppRegister`, `memRegion.c`.** Start-up code of one thread.
* **Recovery and restart of the Ethernet driver.** The error task and
  `eth_emacps_handle_tx_errors` re-create rings inside interrupt locks; the
  latter runs in an interrupt handler under a scan of the transmit task.
* **XAUI receiver, ethXaui, ethPio, SD driver.** Register protocols and callbacks.
* **Pool, list, key-value table, concurrency primitives.** Sequential or a few
  lines each.
* **Vendored code (`xilinx`, but for the descriptor rings), constant tables
  (`configuration`), boot code, loader, console, socket and cluster services.**

Next would be: the life cycle of a BDI device composed with `Bdi`; error recovery
as a fault in `EthTx`; a bounded FIFO of frames that `EthTx` implements while the
ring is not crowded, and `EthRx` while no frame is dropped.
