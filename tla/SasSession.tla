------------------------------ MODULE SasSession ------------------------------
(***************************************************************************)
(* The life of SAS sessions (service/sas): SAS_Open, the binding of        *)
(* mailboxes and SAS_Close, called by several threads.                     *)
(*                                                                         *)
(* Session structures live in on-chip memory.  Their free offsets, and the *)
(* free rundown mailboxes, are kept in two hardware FIFOs: a read takes an *)
(* entry (or returns EMPTY), a write gives one back, and both are atomic.  *)
(* All the rest of an operation is ordinary memory traffic between those   *)
(* accesses: a step is one store, or one FIFO access with the loads that   *)
(* it needs.                                                               *)
(*                                                                         *)
(* SAS_Close gives the offset of a session back before it clears the       *)
(* structure.  The memset may therefore run under the SAS_Open, the binds  *)
(* and the SAS_Close of the session's next owner, word by word.            *)
(***************************************************************************)
EXTENDS Integers, FiniteSets, SequencesExt

CONSTANTS
  Threads,     \* the threads that use SAS
  Sessions,    \* MAX_SESSIONS session structures
  Rundowns,    \* the ids of the MAX_RUNDWN_CHANNELS rundown mailboxes
  Sockets,     \* the ids of the sockets
  ZERO,        \* id 0, which is also what a cleared id reads as
  Syncs,       \* RTEMS semaphores the configuration provides
  MaxInputs,   \* MAX_SESSION_INPUTS
  NONE         \* a zero handle: no session, no semaphore

ASSUME MaxInputsAssumption == MaxInputs \in Nat \ {0}
ASSUME NoneAssumption == NONE \notin Sessions \cup Syncs
ASSUME ZeroAssumption == ZERO \in Rundowns \cap Sockets
ASSUME FiniteAssumption == IsFiniteSet(Sessions) /\ IsFiniteSet(Rundowns)

VARIABLES
  freeSess,    \* UTIL(axi)->session: FIFO of free session offsets
  freeRun,     \* UTIL(axi)->rundwn: FIFO of free rundown mailboxes
  mapped,      \* s->ocm and s->axi of each session: are they set
  sync,        \* s->sync of each session
  srcs,        \* s->srcs of each session
  mid,         \* m->mid of each mailbox of each session
  base,        \* m->intrBase of each mailbox of each session
  syncs,       \* semaphores that exist
  intrTable,   \* the semaphore that the interrupt of each rundown mailbox releases
  pc,          \* where each thread is
  handle,      \* the session each thread is working on
  input,       \* the id and the base of the mailbox each thread is binding
  at,          \* the position each thread is binding or freeing: s->srcs as loaded
  clearing,    \* the words that the memset of each thread has still to clear
  lost,        \* history: sessions dropped by an open that failed
  torn         \* history: a memset has erased a mailbox id under a new owner

fifos == <<freeSess, freeRun>>
struct == <<mapped, sync, srcs, mid, base>>
sems == <<syncs, intrTable>>
vars == <<fifos, struct, sems, pc, handle, input, at, clearing, lost, torn>>

Slots == 1 .. MaxInputs

\* A mailbox is told by its id and its interrupt base.  The base of the inbound
\* sockets is 0, as a cleared one is.
Ids == Rundowns \cup Sockets
RUNDWN == "rundown"
PEND == "pend"
Input(i, b) == [mid |-> i, base |-> b]
Inputs == {Input(i, RUNDWN) : i \in Rundowns} \cup {Input(i, PEND) : i \in Sockets}
Nothing == Input(ZERO, PEND)

\* The words of a session structure, and their order in memory.
Words == ({"srcs", "sync", "maps"} \X {0}) \cup ({"mid", "base"} \X Slots)

Address(w) ==
  CASE w[1] = "srcs" -> 0
    [] w[1] = "sync" -> 1
    [] w[1] = "maps" -> 2
    [] w[1] = "mid" -> 2 * w[2] + 1
    [] w[1] = "base" -> 2 * w[2] + 2

Init ==
  /\ freeSess = SetToSeq(Sessions)
  /\ freeRun = SetToSeq(Rundowns)
  /\ mapped = [s \in Sessions |-> FALSE]
  /\ sync = [s \in Sessions |-> NONE]
  /\ srcs = [s \in Sessions |-> 0]
  /\ mid = [s \in Sessions |-> [i \in Slots |-> ZERO]]
  /\ base = [s \in Sessions |-> [i \in Slots |-> PEND]]
  /\ syncs = {}
  /\ intrTable = [x \in Rundowns |-> NONE]
  /\ pc = [t \in Threads |-> "idle"]
  /\ handle = [t \in Threads |-> NONE]
  /\ input = [t \in Threads |-> Nothing]
  /\ at = [t \in Threads |-> 0]
  /\ clearing = [t \in Threads |-> {}]
  /\ lost = {}
  /\ torn = FALSE

Goto(t, from, to) ==
  /\ pc[t] = from
  /\ pc' = [pc EXCEPT ![t] = to]

\* The threads that own a session: from taking its offset to giving it back.
Owners(s) == {t \in Threads : handle[t] = s /\ pc[t] # "clear"}

(***************************************************************************)
(* SAS_Open: take a session offset, create the semaphore, set the maps.    *)
(* When the free list is empty it fails and changes nothing.               *)
(***************************************************************************)
OpenTake(t) ==
  /\ Goto(t, "idle", "alloc")
  /\ freeSess # <<>>
  /\ handle' = [handle EXCEPT ![t] = Head(freeSess)]
  /\ freeSess' = Tail(freeSess)
  /\ UNCHANGED <<freeRun, struct, sems, input, at, clearing, lost, torn>>

IntrAllocSync(t, id) ==
  /\ Goto(t, "alloc", "init")
  /\ id \notin syncs
  /\ syncs' = syncs \cup {id}
  /\ sync' = [sync EXCEPT ![handle[t]] = id]
  /\ UNCHANGED <<fifos, mapped, srcs, mid, base, intrTable, handle, input, at, clearing, lost, torn>>

\* No semaphore is left: SAS_Open returns SAS_OPEN_ERROR, and the offset it
\* took goes nowhere.
OpenFails(t) ==
  /\ Goto(t, "alloc", "idle")
  /\ Syncs \subseteq syncs
  /\ lost' = lost \cup {handle[t]}
  /\ handle' = [handle EXCEPT ![t] = NONE]
  /\ UNCHANGED <<fifos, struct, sems, input, at, clearing, torn>>

\* One step for two stores: the memset stores the same zero into srcs.
OpenInit(t) ==
  /\ Goto(t, "init", "open")
  /\ mapped' = [mapped EXCEPT ![handle[t]] = TRUE]
  /\ srcs' = [srcs EXCEPT ![handle[t]] = 0]
  /\ UNCHANGED <<fifos, sync, mid, base, sems, handle, input, at, clearing, lost, torn>>

(***************************************************************************)
(* Binding a mailbox.  SAS_Bind and SAS_ObBind take a rundown mailbox;     *)
(* SAS_IbBind and SAS_AppBind use the source of a named socket.            *)
(* A thread that follows a cleared map leaves the registers and the memory *)
(* modelled here, and takes no further step: hence the guards on mapped.   *)
(***************************************************************************)
Usable(t) == mapped[handle[t]]

Srcs(t) == srcs[handle[t]]

\* Mutant: the limit is compared without the input about to be added.
Room_OffByOne(t) == Srcs(t) <= MaxInputs

Room(t) == Srcs(t) + 1 <= MaxInputs

BindStart(t, x) ==
  /\ Goto(t, "open", "mid")
  /\ Usable(t) /\ Room(t)
  /\ input' = [input EXCEPT ![t] = x]
  /\ at' = [at EXCEPT ![t] = Srcs(t) + 1]
  /\ UNCHANGED <<freeSess, struct, sems, handle, clearing, lost, torn>>

BindTake(t) ==
  /\ freeRun # <<>>
  /\ BindStart(t, Input(Head(freeRun), RUNDWN))
  /\ freeRun' = Tail(freeRun)

SAS_IbBind(t, x) ==
  /\ BindStart(t, Input(x, PEND))
  /\ UNCHANGED freeRun

\* The code that follows loads s->srcs again, at any time up to the store that
\* needs it: it finds what was there before, or what is there now.
Loaded(t) == {at[t], Srcs(t) + 1}

\* _bindMbx: the id of the mailbox, then the count of the mailboxes.
BindMid(t) ==
  /\ Goto(t, "mid", "count")
  /\ \E i \in Loaded(t) :
       /\ at' = [at EXCEPT ![t] = i]
       /\ mid' = [mid EXCEPT ![handle[t]][i] = input[t].mid]
  /\ UNCHANGED <<fifos, mapped, sync, srcs, base, sems, handle, input, clearing, lost, torn>>

BindCount(t) ==
  /\ Goto(t, "count", "base")
  /\ \E n \in Loaded(t) : srcs' = [srcs EXCEPT ![handle[t]] = n]
  /\ UNCHANGED <<fifos, mapped, sync, mid, base, sems, handle, input, at, clearing, lost, torn>>

\* _bindMbxIntr: the interrupt base of the mailbox, then the entry of the interrupt
\* table, whose place depends on the id as it was stored or as it reads now.
BindBase(t) ==
  /\ Goto(t, "base", "intr")
  /\ Usable(t)
  /\ base' = [base EXCEPT ![handle[t]][at[t]] = input[t].base]
  /\ UNCHANGED <<fifos, mapped, sync, srcs, mid, sems, handle, input, at, clearing, lost, torn>>

\* Mutant: the interrupt table entry is written only while it is empty.
Entry_KeepsOld(t, i) ==
  intrTable' = IF input[t].base = RUNDWN /\ intrTable[i] = NONE
               THEN [intrTable EXCEPT ![i] = sync[handle[t]]] ELSE intrTable

\* The entries of the other sources are left out.
Entry(t, i) ==
  intrTable' = IF input[t].base = RUNDWN
               THEN [intrTable EXCEPT ![i] = sync[handle[t]]] ELSE intrTable

BindIntr(t) ==
  /\ Goto(t, "intr", "open")
  /\ Usable(t)
  /\ \E i \in {input[t].mid, mid[handle[t]][at[t]]} : Entry(t, i)
  /\ input' = [input EXCEPT ![t] = Nothing]
  /\ at' = [at EXCEPT ![t] = 0]
  /\ UNCHANGED <<fifos, struct, syncs, handle, clearing, lost, torn>>

(***************************************************************************)
(* SAS_Close: delete the semaphore, give back the rundown mailboxes, last  *)
(* bound first, give back the session offset, and then clear the session   *)
(* structure.                                                              *)
(***************************************************************************)
CloseSync(t) ==
  /\ Goto(t, "open", "close")
  /\ syncs' = syncs \ {sync[handle[t]]}
  /\ sync' = [sync EXCEPT ![handle[t]] = NONE]
  /\ UNCHANGED <<fifos, mapped, srcs, mid, base, intrTable, handle, input, at, clearing, lost, torn>>

\* A turn of the loop loads srcs, which is not 0, and stores it less one.
CloseLoad(t) ==
  /\ Goto(t, "close", "free")
  /\ Srcs(t) # 0
  /\ at' = [at EXCEPT ![t] = Srcs(t)]
  /\ UNCHANGED <<fifos, struct, sems, handle, input, clearing, lost, torn>>

\* Mutant: every turn of the loop frees the first mailbox of the session.
_freeMbx_First(s, i) ==
  /\ base[s][1] = RUNDWN => mapped[s]
  /\ freeRun' = IF base[s][1] = RUNDWN THEN Append(freeRun, mid[s][1]) ELSE freeRun

_freeMbx(s, i) ==
  /\ base[s][i] = RUNDWN => mapped[s]
  /\ freeRun' = IF base[s][i] = RUNDWN THEN Append(freeRun, mid[s][i]) ELSE freeRun

CloseFree(t) ==
  /\ Goto(t, "free", "close")
  /\ _freeMbx(handle[t], at[t])
  /\ srcs' = [srcs EXCEPT ![handle[t]] = at[t] - 1]
  /\ at' = [at EXCEPT ![t] = 0]
  /\ UNCHANGED <<freeSess, mapped, sync, mid, base, sems, handle, input, clearing, lost, torn>>

\* Mutant: the session offset is not given back.
CloseGive_Forgets(t) ==
  /\ Goto(t, "close", "clear")
  /\ Srcs(t) = 0
  /\ Usable(t)
  /\ clearing' = [clearing EXCEPT ![t] = Words]
  /\ UNCHANGED <<fifos, struct, sems, handle, input, at, lost, torn>>

CloseGive(t) ==
  /\ Goto(t, "close", "clear")
  /\ Srcs(t) = 0
  /\ Usable(t)
  /\ freeSess' = Append(freeSess, handle[t])
  /\ clearing' = [clearing EXCEPT ![t] = Words]
  /\ UNCHANGED <<freeRun, struct, sems, handle, input, at, lost, torn>>

\* A store of the memset into word w of session s.
Wipe(s, w) ==
  /\ mapped' = IF w[1] = "maps" THEN [mapped EXCEPT ![s] = FALSE] ELSE mapped
  /\ sync' = IF w[1] = "sync" THEN [sync EXCEPT ![s] = NONE] ELSE sync
  /\ srcs' = IF w[1] = "srcs" THEN [srcs EXCEPT ![s] = 0] ELSE srcs
  /\ mid' = IF w[1] = "mid" THEN [mid EXCEPT ![s][w[2]] = ZERO] ELSE mid
  /\ base' = IF w[1] = "base" THEN [base EXCEPT ![s][w[2]] = PEND] ELSE base

\* It erases a mailbox id, and the session has a new owner.
Tears(s, w) == w[1] = "mid" /\ mid[s][w[2]] # ZERO /\ Owners(s) # {}

CloseClear(t, w) ==
  /\ pc[t] = "clear"
  /\ w \in clearing[t]
  /\ \A v \in clearing[t] : Address(w) <= Address(v)
  /\ Wipe(handle[t], w)
  /\ torn' = (torn \/ Tears(handle[t], w))
  /\ clearing' = [clearing EXCEPT ![t] = @ \ {w}]
  /\ UNCHANGED <<fifos, sems, pc, handle, input, at, lost>>

CloseDone(t) ==
  /\ Goto(t, "clear", "idle")
  /\ clearing[t] = {}
  /\ handle' = [handle EXCEPT ![t] = NONE]
  /\ UNCHANGED <<fifos, struct, sems, input, at, clearing, lost, torn>>

-----------------------------------------------------------------------------
SAS_Open(t) ==
  \/ OpenTake(t) \/ OpenFails(t) \/ OpenInit(t)
  \/ \E id \in Syncs : IntrAllocSync(t, id)

SAS_Bind(t) ==
  \/ BindTake(t) \/ BindMid(t) \/ BindCount(t) \/ BindBase(t) \/ BindIntr(t)
  \/ \E x \in Sockets : SAS_IbBind(t, x)

SAS_Close(t) ==
  \/ CloseSync(t) \/ CloseLoad(t) \/ CloseFree(t) \/ CloseGive(t) \/ CloseDone(t)
  \/ \E w \in Words : CloseClear(t, w)

Next == \E t \in Threads : SAS_Open(t) \/ SAS_Bind(t) \/ SAS_Close(t)

Spec == Init /\ [][Next]_vars

(***************************************************************************)
(* Properties.                                                             *)
(***************************************************************************)
\* Every variable stays in its range: a session never has more inputs than
\* MAX_SESSION_INPUTS, also when a memset resets the count during a bind, and only
\* ids of rundown mailboxes get into their free list.
TypeOK ==
  /\ freeSess \in Seq(Sessions)
  /\ freeRun \in Seq(Rundowns)
  /\ mapped \in [Sessions -> BOOLEAN]
  /\ sync \in [Sessions -> Syncs \cup {NONE}]
  /\ srcs \in [Sessions -> 0 .. MaxInputs]
  /\ mid \in [Sessions -> [Slots -> Ids]]
  /\ base \in [Sessions -> [Slots -> {RUNDWN, PEND}]]
  /\ syncs \subseteq Syncs
  /\ intrTable \in [Rundowns -> Syncs \cup {NONE}]
  /\ pc \in [Threads -> {"idle", "alloc", "init", "open", "mid", "count", "base", "intr",
                         "close", "free", "clear"}]
  /\ handle \in [Threads -> Sessions \cup {NONE}]
  /\ input \in [Threads -> Inputs]
  /\ at \in [Threads -> 0 .. MaxInputs]
  /\ clearing \in [Threads -> SUBSET Words]
  /\ lost \subseteq Sessions
  /\ torn \in BOOLEAN

\* A session offset is at any time in exactly one place: once in the free list,
\* with one thread, or lost to an open that found no semaphore.
SessionInOnePlace ==
  /\ IsInjective(freeSess)
  /\ \A s \in Sessions : \A t, u \in Owners(s) : t = u
  /\ \A s \in Range(freeSess) : s \notin lost /\ Owners(s) = {}
  /\ \A s \in lost : Owners(s) = {}
  /\ \A s \in Sessions : s \in Range(freeSess) \/ s \in lost \/ Owners(s) # {}

Binding(t) == pc[t] \in {"mid", "count", "base", "intr"}

\* The rundown mailboxes that no torn structure names by mistake.
Safe == IF torn THEN Rundowns \ {ZERO} ELSE Rundowns

\* Where rundown mailbox x is: its places in the free list, the threads that bind
\* it, and whether it is the i-th mailbox of session s.
Free(x) == {i \in DOMAIN freeRun : freeRun[i] = x}
Taken(x) == {t \in Threads : Binding(t) /\ input[t] = Input(x, RUNDWN)}
Has(s, i, x) ==
  /\ i <= srcs[s] /\ mid[s][i] = x /\ base[s][i] = RUNDWN
  /\ \A t \in Owners(s) : Binding(t) => at[t] # i

\* A rundown mailbox is never handed to two sessions: it is at most once in the
\* free list, on its way to a session, or bound to one.  This is so also when a
\* session is reopened, bound and closed while its last owner is still clearing it.
\* Only mailbox 0 is excepted, from the time on when a memset has erased a mailbox
\* id of a reopened session: the id then reads as 0.
RundownInOnePlace ==
  \A x \in Safe :
    /\ \A i, j \in Free(x) : i = j
    /\ \A t, u \in Taken(x) : t = u
    /\ Free(x) = {} \/ Taken(x) = {}
    /\ \A s \in Sessions : \A i \in Slots : Has(s, i, x) =>
         /\ Free(x) = {} /\ Taken(x) = {}
         /\ \A r \in Sessions : \A j \in Slots : Has(r, j, x) => r = s /\ j = i

\* The interrupt of a rundown mailbox wakes the session it is bound to: as long as
\* the session has its semaphore, the table never keeps that of an earlier owner of
\* the mailbox, nor gets that of another session.
InterruptWakesOwner ==
  \A x \in Safe : \A s \in Sessions : \A i \in Slots : Has(s, i, x) =>
    \A t \in Owners(s) : pc[t] = "open" /\ sync[s] # NONE => intrTable[x] = sync[s]

\* Sas.c on SAS_Open: "Each new session maintains its own memory map of the
\* ocm and axi space".  A session a thread has open has its maps and its
\* semaphore.
OpenSessionMapped ==
  \A t \in Threads : pc[t] = "open" \/ Binding(t) =>
    mapped[handle[t]] /\ sync[handle[t]] \in syncs

=============================================================================
