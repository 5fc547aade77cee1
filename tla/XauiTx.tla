-------------------------------- MODULE XauiTx --------------------------------
(***************************************************************************)
(* The transmitter of the XAUI plugin (ppi/xaui/src/Xaui_Transmit.c): the  *)
(* threads that send frames, the outbound engine, and the task that frees  *)
(* the payload buffers of the frames sent.                                 *)
(*                                                                         *)
(* All devices share one session and its outbound descriptors.  A small    *)
(* frame is built inside a descriptor; a large one in a buffer of the      *)
(* device's resource set, and a descriptor is taken only when it is        *)
(* posted.  The engine gives the descriptor back to the free list when it  *)
(* has sent the frame, and only then puts the descriptor's address into    *)
(* the mailbox of the device: the task learns from the descriptor, by then *)
(* free or in use again, which buffer to free.                             *)
(*                                                                         *)
(* SAS_Wait is taken pass by pass (SasWait has it read by read): a pass    *)
(* reads the mask of the session and one message of every enabled mailbox, *)
(* and blocks for those mailboxes when it finds none.                      *)
(***************************************************************************)
EXTENDS Integers, Sequences, FiniteSets, SequencesExt

CONSTANTS
  Devices,     \* transmit devices, one mailbox each, used by one thread each
  Fds,         \* outbound descriptors
  Buffers,     \* buffers of every device's resource set
  MaxFrames,   \* bound of the model: frames allocated
  NONE         \* no device, no message

ASSUME MaxFramesAssumption == MaxFrames \in Nat
ASSUME NoneAssumption == NONE \notin Devices \cup Fds

\* What fd->payload and fd->size say: a header frame (both zero), a sync frame
\* (size 0, payload 1), or the payload buffer.
Header == [kind |-> "header"]
Sync == [kind |-> "sync"]
Buffer == [kind : {"buffer"}, dev : Devices, no : Buffers]
Payload == Buffer \cup {Header, Sync}

ASSUME FdsAssumption == IsFiniteSet(Fds) /\ Fds \cap Buffer = {}

VARIABLES
  state,     \* each device: closed; enabled, first, start: inside Xaui_TxOpen; open; panic
  first,     \* _context->mbx: the device whose mailbox takes sync frames
  free,      \* the free list of descriptors (hardware)
  fd,        \* what each descriptor holds: payload, and the mailbox mid
  rset,      \* the free buffers of each device
  held,      \* what each thread got from Xaui_Alloc and has not posted
  queue,     \* descriptors posted to the outbound engine
  fifo,      \* the FIFO of each device's mailbox: addresses of descriptors
  task,      \* the transmit task: none, pass, handle, blocked
  mask,      \* the mailboxes that the current pass looks at or that are armed
  reg,       \* the message that the pass has read from each mailbox
  frames,    \* frames allocated so far
  lost,      \* history: buffers of frames that _post dropped
  lapped     \* history: a descriptor was written before its message was handled

client == <<state, first, held, frames, lost>>
waiter == <<task, mask, reg>>
vars == <<client, free, fd, rset, queue, fifo, waiter, lapped>>

Init ==
  /\ state = [d \in Devices |-> "closed"]
  /\ first = NONE
  /\ free = SetToSeq(Fds)
  /\ fd \in [Fds -> {[payload |-> Header, mid |-> NONE]}]
  /\ rset = [d \in Devices |-> {b \in Buffer : b.dev = d}]
  /\ held = [d \in Devices |-> {}]
  /\ queue = <<>>
  /\ fifo = [d \in Devices |-> <<>>]
  /\ task = "none"
  /\ mask = {}
  /\ reg = [d \in Devices |-> NONE]
  /\ frames = 0
  /\ lost = {}
  /\ lapped = FALSE

Enabled == {d \in Devices : state[d] # "closed"}

\* Descriptors whose messages the task has not handled.
Unhandled == UNION {Range(fifo[d]) \cup ({reg[d]} \ {NONE}) : d \in Devices}

\* The descriptor is written and goes to the engine.
SAS_ObPost(f, payload, d) ==
  /\ fd' = [fd EXCEPT ![f] = [payload |-> payload, mid |-> d]]
  /\ queue' = Append(queue, f)
  /\ lapped' = (lapped \/ f \in Unhandled)

(***************************************************************************)
(* Xaui_TxOpen.                                                            *)
(***************************************************************************)
\* Bind and enable a mailbox, make the resource set.
Xaui_TxOpen(d) ==
  /\ state[d] = "closed"
  /\ state' = [state EXCEPT ![d] = "enabled"]
  /\ UNCHANGED <<first, held, frames, lost, free, fd, rset, queue, fifo, waiter, lapped>>

\* The thread finds that no device was there before it.
FindsNone(d) ==
  /\ state[d] = "enabled" /\ first = NONE
  /\ state' = [state EXCEPT ![d] = "first"]
  /\ UNCHANGED <<first, held, frames, lost, free, fd, rset, queue, fifo, waiter, lapped>>

\* Mutant: it does not leave its mailbox for the sync frames.
SetsFirst_Not(d) ==
  /\ state[d] = "first"
  /\ state' = [state EXCEPT ![d] = "start"]
  /\ UNCHANGED <<first, held, frames, lost, free, fd, rset, queue, fifo, waiter, lapped>>

\* It leaves its mailbox for the sync frames.
SetsFirst(d) ==
  /\ state[d] = "first"
  /\ state' = [state EXCEPT ![d] = "start"]
  /\ first' = d
  /\ UNCHANGED <<held, frames, lost, free, fd, rset, queue, fifo, waiter, lapped>>

\* It starts the task.  When another thread has found no device either and was
\* here before, the task is already running, and the program ends in a panic.
StartTask(d) ==
  /\ state[d] = "start"
  /\ state' = [state EXCEPT ![d] = IF task = "none" THEN "open" ELSE "panic"]
  /\ task' = IF task = "none" THEN "pass" ELSE task
  /\ UNCHANGED <<first, held, frames, lost, free, fd, rset, queue, fifo, mask, reg, lapped>>

\* Mutant: no sync frame.
_postSync_Not == UNCHANGED <<free, fd, queue, lapped>>

\* A later one wakes it with a sync frame, if a descriptor is free.
_postSync ==
  IF free # <<>>
  THEN /\ free' = Tail(free)
       /\ SAS_ObPost(Head(free), Sync, first)
  ELSE UNCHANGED <<free, fd, queue, lapped>>

FindsFirst(d) ==
  /\ state[d] = "enabled" /\ first # NONE
  /\ state' = [state EXCEPT ![d] = "open"]
  /\ _postSync
  /\ UNCHANGED <<first, held, frames, lost, rset, fifo, waiter>>

(***************************************************************************)
(* Xaui_Alloc and Xaui_Post.                                               *)
(***************************************************************************)
AllocHeader(d) ==
  /\ free # <<>>
  /\ held' = [held EXCEPT ![d] = @ \cup {Head(free)}]
  /\ free' = Tail(free)
  /\ UNCHANGED rset

AllocPayload(d) ==
  \E b \in rset[d] :
    /\ rset' = [rset EXCEPT ![d] = @ \ {b}]
    /\ held' = [held EXCEPT ![d] = @ \cup {b}]
    /\ UNCHANGED free

Xaui_Alloc(d) ==
  /\ state[d] = "open" /\ frames < MaxFrames
  /\ frames' = frames + 1
  /\ AllocHeader(d) \/ AllocPayload(d)
  /\ UNCHANGED <<state, first, lost, fd, queue, fifo, waiter, lapped>>

\* Mutant: a header frame keeps the payload that its descriptor had.
_postHeader_KeepsPayload(d, f) ==
  /\ SAS_ObPost(f, fd[f].payload, d)
  /\ UNCHANGED <<free, lost>>

_postHeader(d, f) ==
  /\ SAS_ObPost(f, Header, d)
  /\ UNCHANGED <<free, lost>>

\* Without a descriptor the frame is dropped, and nobody has its buffer any more.
_postPayload(d, b) ==
  IF free # <<>>
  THEN /\ SAS_ObPost(Head(free), b, d)
       /\ free' = Tail(free)
       /\ UNCHANGED lost
  ELSE /\ lost' = lost \cup {b}
       /\ UNCHANGED <<free, fd, queue, lapped>>

Xaui_Post(d, h) ==
  /\ h \in held[d]
  /\ held' = [held EXCEPT ![d] = @ \ {h}]
  /\ IF h \in Fds THEN _postHeader(d, h) ELSE _postPayload(d, h)
  /\ UNCHANGED <<state, first, frames, rset, fifo, waiter>>

(***************************************************************************)
(* The outbound engine: SAS_OB_PAYLOAD_RUNDOWN.                            *)
(***************************************************************************)
Send ==
  /\ queue # <<>>
  /\ LET f == Head(queue)
     IN  /\ fifo' = [fifo EXCEPT ![fd[f].mid] = Append(@, f)]
         /\ free' = Append(free, f)
  /\ queue' = Tail(queue)
  /\ UNCHANGED <<client, fd, rset, waiter, lapped>>

(***************************************************************************)
(* The transmit task: SAS_Wait and its handler.                            *)
(***************************************************************************)
Load ==
  /\ task = "pass"
  /\ mask' = Enabled
  /\ LET ready == {d \in Enabled : fifo[d] # <<>>}
     IN  /\ reg' = [d \in Devices |-> IF d \in ready THEN Head(fifo[d]) ELSE NONE]
         /\ fifo' = [d \in Devices |-> IF d \in ready THEN Tail(fifo[d]) ELSE fifo[d]]
         /\ task' = IF ready = {} THEN "blocked" ELSE "handle"
  /\ UNCHANGED <<client, free, fd, rset, queue, lapped>>

\* What the task frees for the message f of device d.
Freed(f) == {fd[f].payload} \cap Buffer

_rundown(d) ==
  /\ task = "handle" /\ reg[d] # NONE
  /\ rset' = [rset EXCEPT ![d] = @ \cup Freed(reg[d])]
  /\ reg' = [reg EXCEPT ![d] = NONE]
  /\ task' = IF \A e \in Devices \ {d} : reg[e] = NONE THEN "pass" ELSE "handle"
  /\ UNCHANGED <<client, free, fd, queue, fifo, mask, lapped>>

\* An interrupt of a mailbox that was armed.
Wake ==
  /\ task = "blocked"
  /\ \E d \in mask : fifo[d] # <<>>
  /\ task' = "pass"
  /\ UNCHANGED <<client, free, fd, rset, queue, fifo, mask, reg, lapped>>

-----------------------------------------------------------------------------
Task == Load \/ Wake \/ \E d \in Devices : _rundown(d)

Opening(d) == FindsNone(d) \/ SetsFirst(d) \/ StartTask(d) \/ FindsFirst(d)

\* A panic stops everything.
Running == \A d \in Devices : state[d] # "panic"

Next ==
  /\ Running
  /\ \/ \E d \in Devices :
          \/ Xaui_TxOpen(d) \/ Opening(d) \/ Xaui_Alloc(d)
          \/ \E h \in Fds \cup Buffer : Xaui_Post(d, h)
     \/ Send
     \/ Task

\* The engine sends what is posted, the task runs, and a thread inside
\* Xaui_TxOpen comes to its end.  Nobody has to send anything.
Fairness ==
  /\ WF_vars(Running /\ Send)
  /\ WF_vars(Running /\ Task)
  /\ \A d \in Devices : WF_vars(Running /\ Opening(d))

Spec == Init /\ [][Next]_vars /\ Fairness

(***************************************************************************)
(* Properties.                                                             *)
(***************************************************************************)
\* Every variable stays in its range, and once the task runs there is a mailbox for
\* the sync frames.
TypeOK ==
  /\ state \in [Devices -> {"closed", "enabled", "first", "start", "open", "panic"}]
  /\ first \in Devices \cup {NONE}
  /\ task # "none" => first # NONE
  /\ \A d \in Devices : state[d] = "start" => first # NONE
  /\ free \in Seq(Fds) /\ queue \in Seq(Fds)
  /\ fd \in [Fds -> [payload : Payload, mid : Devices \cup {NONE}]]
  /\ rset \in [Devices -> SUBSET Buffer]
  /\ held \in [Devices -> SUBSET (Fds \cup Buffer)]
  /\ fifo \in [Devices -> Seq(Fds)]
  /\ task \in {"none", "pass", "handle", "blocked"}
  /\ mask \subseteq Devices
  /\ reg \in [Devices -> Fds \cup {NONE}]
  /\ frames \in 0 .. MaxFrames
  /\ lost \subseteq Buffer
  /\ lapped \in BOOLEAN

\* The frames sent or to be sent whose descriptors name buffer b.
Uses(b) == {f \in Range(queue) \cup Unhandled : fd[f].payload = b}

\* Until a descriptor is written before its message is handled, every buffer is in
\* one place: free, held by a thread, dropped with its frame, or named by the one
\* descriptor whose message will free it.  So the task never frees the buffer of a
\* frame that the engine has still to read, and none twice, although it reads
\* descriptors that are no longer its own.
BufferInOnePlace ==
  ~lapped =>
    \A b \in Buffer :
      Cardinality({d \in Devices : b \in rset[d]}) + Cardinality({d \in Devices : b \in held[d]})
        + Cardinality({b} \cap lost) + Cardinality(Uses(b)) = 1

\* Every payload buffer that is posted comes back to its device, also when its
\* device's mailbox was bound while the task was blocked for the others and no
\* descriptor was free for the sync frame; unless two threads have opened the first
\* device, which ends in a panic.
PayloadFreed ==
  \A b \in Buffer :
    (\E f \in Range(queue) : fd[f].payload = b) ~> (b \in rset[b.dev] \/ lapped \/ ~Running)

=============================================================================
