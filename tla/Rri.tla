--------------------------------- MODULE Rri ---------------------------------
(***************************************************************************)
(* The register interface of the PGP plugin (ppi/pgp): clients that send   *)
(* register requests over PGP links and wait for the answers.              *)
(*                                                                         *)
(* A client opens a device: a session with one rundown mailbox.  A request *)
(* takes an outbound descriptor until the engine has sent it, and carries  *)
(* the number of the mailbox with it.  The answer comes back with that     *)
(* number and takes an inbound frame; RRI_Fork, in the PGP task, leaves    *)
(* the frame with the message that it forks into that mailbox, and the     *)
(* client frees the frame when it handles the message.  Nothing on the way *)
(* knows which client a mailbox belongs to: a mailbox goes from client to  *)
(* client with whatever its FIFO holds and whatever is still on its way.   *)
(*                                                                         *)
(* A request is its number.  The links answer in any order.                *)
(***************************************************************************)
EXTENDS Integers, FiniteSets, Sequences, Functions

CONSTANTS
  Clients,      \* threads that use the interface
  Binders,      \* those that bind a processor of their own
  Mailboxes,    \* rundown mailboxes
  Frames,       \* inbound frames
  Descriptors,  \* number of outbound descriptors
  NumSessions,  \* number of sessions
  MaxRequests,  \* bound of the model: calls of _post
  NONE          \* no mailbox

ASSUME BindersAssumption == Binders \subseteq Clients
ASSUME DescriptorsAssumption == Descriptors \in Nat
ASSUME NumSessionsAssumption == NumSessions \in Nat
ASSUME MaxRequestsAssumption == MaxRequests \in Nat
ASSUME NoneAssumption == NONE \notin Mailboxes

VARIABLES
  sessions,   \* free sessions
  freeMbx,    \* free rundown mailboxes
  device,     \* each client's device: its mailbox
  bound,      \* clients that have bound a processor
  outbound,   \* requests that wait for the outbound engine
  wire,       \* requests sent and not yet answered
  inbound,    \* answers that wait for an inbound frame
  ibFree,     \* free inbound frames
  fifo,       \* the FIFO of each mailbox: answers with their frames
  pc,         \* what each client does: idle, a synchronous call, RRI_Wait
  want,       \* the request of the synchronous call, if none came before it
  calls,      \* calls of _post so far
  gone,       \* history: clients with a request that gets no answer
  dirty,      \* history: mailboxes closed with answers outstanding
  since       \* history: calls of _post when each client opened the device it has

netVars == <<outbound, wire, inbound>>
vars == <<sessions, freeMbx, device, bound, netVars, ibFree, fifo, pc, want,
          calls, gone, dirty, since>>

Init ==
  /\ sessions = NumSessions
  /\ freeMbx = Mailboxes
  /\ device = [c \in Clients |-> NONE]
  /\ bound = {}
  /\ outbound = <<>>
  /\ wire = {}
  /\ inbound = <<>>
  /\ ibFree = Frames
  /\ fifo = [b \in Mailboxes |-> <<>>]
  /\ pc = [c \in Clients |-> "idle"]
  /\ want = [c \in Clients |-> 0]
  /\ calls = 0
  /\ gone = {}
  /\ dirty = {}
  /\ since = [c \in Clients |-> 0]

Idle(c) == device[c] # NONE /\ pc[c] = "idle"

\* The requests of mailbox b under way and the answers in its FIFO.
Pending(b) ==
  {r \in Range(outbound) \cup wire \cup Range(inbound) : r.mbx = b}
    \cup {m.req : m \in Range(fifo[b])}

(***************************************************************************)
(* Open and close.                                                         *)
(***************************************************************************)
RRI_Open(c, b) ==
  /\ device[c] = NONE /\ sessions > 0 /\ b \in freeMbx
  /\ sessions' = sessions - 1
  /\ freeMbx' = freeMbx \ {b}
  /\ device' = [device EXCEPT ![c] = b]
  /\ bound' = bound \ {c}
  /\ since' = [since EXCEPT ![c] = calls]
  /\ UNCHANGED <<netVars, ibFree, fifo, pc, want, calls, gone, dirty>>

\* No mailbox: the session stays open and nobody has it.
RRI_OpenFails(c) ==
  /\ device[c] = NONE /\ sessions > 0 /\ freeMbx = {}
  /\ sessions' = sessions - 1
  /\ UNCHANGED <<freeMbx, device, bound, netVars, ibFree, fifo, pc, want, calls,
                 gone, dirty, since>>

RRI_Bind(c) ==
  /\ Idle(c) /\ c \in Binders \ bound
  /\ bound' = bound \cup {c}
  /\ UNCHANGED <<sessions, freeMbx, device, netVars, ibFree, fifo, pc, want, calls,
                 gone, dirty, since>>

\* Mutant: the client keeps the device it has closed.
RRI_Close_KeepsDevice(c) ==
  /\ Idle(c)
  /\ sessions' = sessions + 1
  /\ freeMbx' = freeMbx \cup {device[c]}
  /\ dirty' = IF Pending(device[c]) # {} THEN dirty \cup {device[c]} ELSE dirty
  /\ gone' = gone \ {c}
  /\ since' = [since EXCEPT ![c] = 0]
  /\ UNCHANGED <<device, bound, netVars, ibFree, fifo, pc, want, calls>>

RRI_Close(c) ==
  /\ Idle(c)
  /\ sessions' = sessions + 1
  /\ freeMbx' = freeMbx \cup {device[c]}
  /\ device' = [device EXCEPT ![c] = NONE]
  /\ dirty' = IF Pending(device[c]) # {} THEN dirty \cup {device[c]} ELSE dirty
  /\ gone' = gone \ {c}
  /\ since' = [since EXCEPT ![c] = 0]
  /\ UNCHANGED <<bound, netVars, ibFree, fifo, pc, want, calls>>

(***************************************************************************)
(* Requests.                                                               *)
(***************************************************************************)
\* Mutant: the answer is sent for without the number of the mailbox.
Request_AnyMailbox(c) == [id |-> calls + 1, mbx |-> CHOOSE b \in Mailboxes : TRUE]

Request(c) == [id |-> calls + 1, mbx |-> device[c]]

\* _post: without a descriptor the request is dropped.
_post(c) ==
  /\ calls < MaxRequests
  /\ calls' = calls + 1
  /\ IF Len(outbound) < Descriptors
     THEN /\ outbound' = Append(outbound, Request(c))
          /\ UNCHANGED gone
     ELSE /\ gone' = gone \cup {c}
          /\ UNCHANGED outbound

\* RRI_Post and RRI_PostVc: the caller goes on.
RRI_Post(c) ==
  /\ Idle(c)
  /\ _post(c)
  /\ UNCHANGED <<sessions, freeMbx, device, bound, wire, inbound, ibFree, fifo, pc, want,
                 dirty, since>>

RRI_Wait(c) ==
  /\ Idle(c)
  /\ pc' = [pc EXCEPT ![c] = "wait"]
  /\ UNCHANGED <<sessions, freeMbx, device, bound, netVars, ibFree, fifo, want,
                 calls, gone, dirty, since>>

\* The requests under way that c has made on its device.
Own(c) == {r \in Pending(device[c]) : r.id > since[c]}

\* RRI_Read, RRI_Write, RRI_Bis and RRI_Bic: post, then wait.
RRI_Read(c) ==
  /\ Idle(c)
  /\ _post(c)
  /\ pc' = [pc EXCEPT ![c] = "sync"]
  /\ want' = [want EXCEPT ![c] = IF Own(c) = {} THEN calls + 1 ELSE 0]
  /\ UNCHANGED <<sessions, freeMbx, device, bound, wire, inbound, ibFree, fifo, dirty, since>>

(***************************************************************************)
(* The engines and the links.                                              *)
(***************************************************************************)
Send ==
  /\ outbound # <<>>
  /\ wire' = wire \cup {Head(outbound)}
  /\ outbound' = Tail(outbound)
  /\ UNCHANGED <<sessions, freeMbx, device, bound, inbound, ibFree, fifo, pc, want,
                 calls, gone, dirty, since>>

Answer(r) ==
  /\ r \in wire
  /\ wire' = wire \ {r}
  /\ inbound' = Append(inbound, r)
  /\ UNCHANGED <<sessions, freeMbx, device, bound, outbound, ibFree, fifo, pc, want,
                 calls, gone, dirty, since>>

\* The client, if any, that the answers of mailbox b go to.
Owner(b) == {c \in Clients : device[c] = b}

\* The request or its answer is lost on the link.
Lose(r) ==
  /\ r \in wire
  /\ wire' = wire \ {r}
  /\ gone' = gone \cup Owner(r.mbx)
  /\ UNCHANGED <<sessions, freeMbx, device, bound, outbound, inbound, ibFree, fifo, pc, want, calls, dirty, since>>

RRI_Fork(f) ==
  /\ inbound # <<>> /\ f \in ibFree
  /\ LET r == Head(inbound)
     IN  fifo' = [fifo EXCEPT ![r.mbx] = Append(@, [req |-> r, frame |-> f])]
  /\ inbound' = Tail(inbound)
  /\ ibFree' = ibFree \ {f}
  /\ UNCHANGED <<sessions, freeMbx, device, bound, outbound, wire, pc, want, calls,
                 gone, dirty, since>>

\* The frame does not start a PGP frame: it is freed at once, the answer is lost.
RRI_ForkFree ==
  /\ inbound # <<>> /\ ibFree # {}
  /\ gone' = gone \cup Owner(Head(inbound).mbx)
  /\ inbound' = Tail(inbound)
  /\ UNCHANGED <<sessions, freeMbx, device, bound, outbound, wire, ibFree, fifo, pc, want, calls, dirty, since>>

(***************************************************************************)
(* _wait, in the client that waits.  The processor bound by the client     *)
(* says whether the wait goes on.                                          *)
(***************************************************************************)
\* The message that c handles next: its answer becomes device->result.
Message(c) == Head(fifo[device[c]])

\* Mutant: the frame of the answer is not freed.
_wait_KeepsFrame(c) ==
  /\ pc[c] \in {"wait", "sync"} /\ fifo[device[c]] # <<>>
  /\ fifo' = [fifo EXCEPT ![device[c]] = Tail(@)]
  /\ UNCHANGED ibFree

_wait(c) ==
  /\ pc[c] \in {"wait", "sync"} /\ fifo[device[c]] # <<>>
  /\ ibFree' = ibFree \cup {Message(c).frame}
  /\ fifo' = [fifo EXCEPT ![device[c]] = Tail(@)]

\* Mutant: _synch asks for the next message.
Return_Reenable(c) ==
  /\ _wait(c)
  /\ UNCHANGED <<sessions, freeMbx, device, bound, netVars, pc, want, calls, gone, dirty, since>>

Return(c) ==
  /\ _wait(c)
  /\ pc' = [pc EXCEPT ![c] = "idle"]
  /\ want' = [want EXCEPT ![c] = 0]
  /\ UNCHANGED <<sessions, freeMbx, device, bound, netVars, calls, gone, dirty, since>>

WaitOn(c) ==
  /\ c \in bound
  /\ _wait(c)
  /\ UNCHANGED <<sessions, freeMbx, device, bound, netVars, pc, want, calls, gone, dirty, since>>

-----------------------------------------------------------------------------
Engines ==
  \/ Send
  \/ \E r \in wire : Answer(r) \/ Lose(r)
  \/ RRI_ForkFree
  \/ \E f \in Frames : RRI_Fork(f)

Next ==
  \/ \E c \in Clients :
       \/ \E b \in Mailboxes : RRI_Open(c, b)
       \/ RRI_OpenFails(c) \/ RRI_Bind(c) \/ RRI_Close(c)
       \/ RRI_Post(c) \/ RRI_Wait(c) \/ RRI_Read(c)
       \/ Return(c) \/ WaitOn(c)
  \/ Engines

\* The engines and the links work by themselves, and a client that waits runs
\* when there is a message for it.  Nothing is asked of a client that is idle.
Fairness ==
  /\ WF_vars(Engines)
  /\ \A c \in Clients : WF_vars(Return(c) \/ WaitOn(c))

Spec == Init /\ [][Next]_vars /\ Fairness

(***************************************************************************)
(* Properties.                                                             *)
(***************************************************************************)
Requests == [id : 1 .. MaxRequests, mbx : Mailboxes]
Messages == [req : Requests, frame : Frames]

\* Every variable stays in its range, and a device's mailbox is nobody else's.
TypeOK ==
  /\ sessions \in 0 .. NumSessions
  /\ freeMbx \subseteq Mailboxes
  /\ device \in [Clients -> Mailboxes \cup {NONE}]
  /\ \A c \in Clients : device[c] # NONE => device[c] \notin freeMbx /\ Owner(device[c]) = {c}
  /\ bound \subseteq Clients
  /\ outbound \in Seq(Requests) /\ Len(outbound) <= Descriptors
  /\ wire \subseteq Requests
  /\ inbound \in Seq(Requests)
  /\ ibFree \subseteq Frames
  /\ fifo \in [Mailboxes -> Seq(Messages)]
  /\ pc \in [Clients -> {"idle", "wait", "sync"}]
  /\ \A c \in Clients : device[c] = NONE => pc[c] = "idle"
  /\ want \in [Clients -> 0 .. MaxRequests]
  /\ calls \in 0 .. MaxRequests
  /\ since \in [Clients -> 0 .. MaxRequests]

\* An inbound frame is free or kept by exactly one message, also while mailboxes
\* with messages in them pass from one client to the next.
FrameKeptOnce ==
  /\ \A f \in Frames \ ibFree :
       \E b \in Mailboxes : \E i \in DOMAIN fifo[b] : fifo[b][i].frame = f
  /\ \A b \in Mailboxes : \A i \in DOMAIN fifo[b] :
       /\ fifo[b][i].frame \notin ibFree
       /\ \A a \in Mailboxes : \A j \in DOMAIN fifo[a] :
            fifo[a][j].frame = fifo[b][i].frame => a = b /\ j = i

\* A synchronous call of a client that has no other request under way returns the
\* answer to its own request, although answers carry no name of the caller and
\* nobody looks at the transaction number: except on a mailbox that an earlier
\* client closed with answers outstanding.
OwnAnswer ==
  [][\A c \in Clients :
       (want[c] # 0 /\ pc[c] = "sync" /\ pc'[c] = "idle" /\ device[c] \notin dirty)
         => Message(c).req.id = want[c]]_vars

\* A synchronous call returns in the end, unless its request was dropped or lost,
\* or the inbound frames are used up for good by messages nobody waits for.
CallReturns ==
  []<>(ibFree # {}) =>
    \A c \in Clients : (pc[c] = "sync") ~> (pc[c] = "idle" \/ c \in gone \/ c \in bound)

=============================================================================
