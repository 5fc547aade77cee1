------------------------------- MODULE SasWait -------------------------------
(***************************************************************************)
(* The input loop of one SAS session (service/sas): the thread inside      *)
(* SAS_Wait, the hardware that fills the pend FIFOs of the session's       *)
(* mailboxes, and the RTEMS interrupt handler that wakes the thread.       *)
(*                                                                         *)
(* SAS_Wait reads every enabled FIFO once into a register (a read pops the *)
(* FIFO), runs the handler of every valid input, and only when a whole     *)
(* pass found nothing arms the interrupt of each enabled source and blocks *)
(* on the session's binary semaphore.  The interrupt handler disarms the   *)
(* sources that fired and releases the semaphore.                          *)
(***************************************************************************)
EXTENDS Integers, Sequences, FiniteSetsExt

CONSTANTS
  NumMbx,      \* MAX_SESSION_INPUTS: mailboxes a session can hold (8 in the code)
  Groups,      \* the interrupt groups, one interrupt line each
  GroupOf,     \* intrMap: the interrupt group of each mailbox's source
  MaxInput     \* bound of the model: inputs the hardware posts to one mailbox

Mbx == 0 .. NumMbx - 1

ASSUME NumMbxAssumption == NumMbx \in Nat \ {0}
ASSUME GroupOfAssumption == GroupOf \in [Mbx -> Groups]
ASSUME MaxInputAssumption == MaxInput \in Nat

\* A FIFO read with the INPUT_EMPTY bit set; inputs are numbered from 1.
EMPTY == 0

\* What a mailbox handler returns: any mixture of the two option bits.
Options == [disable : BOOLEAN, abort : BOOLEAN]

VARIABLES
  fifo,        \* pend FIFO of each source (hardware)
  posted,      \* number of inputs the hardware has put into each FIFO
  armed,       \* sources whose bit is set in the interrupt enable registers
  disabled,    \* sources an interrupt handler has disarmed and not yet walked
  sync,        \* the session's simple binary semaphore
  srcs,        \* number of bound mailboxes: 0 .. srcs-1 are bound
  enabled,     \* mailboxes enabled by the user
  pc,          \* where the session's thread is
  active,      \* local of SAS_Wait: sources still to be looked at
  reg,         \* s16..s23: the input loaded from each source
  idx,         \* the source the load loop or the arm loop is at
  valid,       \* state # 0: some input of this pass was valid
  abort,       \* SAS_ABORT latched in state
  handled      \* history: inputs given to each mailbox's handler, in order

hwVars == <<fifo, posted>>
intrVars == <<armed, disabled, sync>>
sessVars == <<srcs, enabled>>
loopVars == <<pc, active, reg, idx, valid, abort>>
vars == <<fifo, posted, armed, disabled, sync, srcs, enabled,
          pc, active, reg, idx, valid, abort, handled>>

Init ==
  /\ fifo = [m \in Mbx |-> <<>>]
  /\ posted = [m \in Mbx |-> 0]
  /\ armed = {}
  /\ disabled = {}
  /\ sync = 0
  /\ srcs = 0
  /\ enabled = {}
  /\ pc = "out"
  /\ active = {}
  /\ reg = [m \in Mbx |-> EMPTY]
  /\ idx = 0
  /\ valid = FALSE
  /\ abort = FALSE
  /\ handled = [m \in Mbx |-> <<>>]

Bound == 0 .. srcs - 1

(***************************************************************************)
(* The hardware puts an input into the pend FIFO of a source.              *)
(***************************************************************************)
Post(m) ==
  /\ posted[m] < MaxInput
  /\ posted' = [posted EXCEPT ![m] = @ + 1]
  /\ fifo' = [fifo EXCEPT ![m] = Append(@, posted[m] + 1)]
  /\ UNCHANGED <<intrVars, sessVars, loopVars, handled>>

(***************************************************************************)
(* The user's side, between two waits: bind a mailbox, enable one, wait.   *)
(***************************************************************************)
\* Mutant: no check against MAX_SESSION_INPUTS.
SAS_Bind_Unchecked ==
  /\ pc = "out"
  /\ srcs <= NumMbx
  /\ srcs' = srcs + 1
  /\ UNCHANGED <<hwVars, intrVars, enabled, loopVars, handled>>

SAS_Bind ==
  /\ pc = "out"
  /\ srcs + 1 <= NumMbx
  /\ srcs' = srcs + 1
  /\ UNCHANGED <<hwVars, intrVars, enabled, loopVars, handled>>

SAS_Enable(m) ==
  /\ pc = "out"
  /\ m \in Bound
  /\ enabled' = enabled \cup {m}
  /\ UNCHANGED <<hwVars, intrVars, srcs, loopVars, handled>>

\* Mutant: a pass looks at every bound mailbox, enabled or not.
StartPass_AllBound(e) ==
  /\ pc' = "load"
  /\ active' = Bound
  /\ idx' = 0

\* The first load of a pass over the sources in e.
StartPass(e) ==
  /\ pc' = "load"
  /\ active' = e
  /\ idx' = 0

\* With nothing enabled SAS_Wait returns at once and changes nothing.
SAS_Wait ==
  /\ pc = "out"
  /\ enabled # {}
  /\ StartPass(enabled)
  /\ valid' = FALSE
  /\ abort' = FALSE
  /\ UNCHANGED <<hwVars, intrVars, sessVars, reg, handled>>

SAS_EnableWait ==
  /\ pc = "out"
  /\ srcs > 0
  /\ enabled' = enabled \cup Bound
  /\ StartPass(enabled')
  /\ valid' = FALSE
  /\ abort' = FALSE
  /\ UNCHANGED <<hwVars, intrVars, srcs, reg, handled>>

(***************************************************************************)
(* Step 1 of SAS_Wait: load one input from each active source, in index    *)
(* order.  The read removes the input from the FIFO.                       *)
(***************************************************************************)
Load ==
  /\ pc = "load"
  /\ IF idx \in active
     THEN IF fifo[idx] = <<>>
          THEN /\ reg' = [reg EXCEPT ![idx] = EMPTY]
               /\ UNCHANGED fifo
          ELSE /\ reg' = [reg EXCEPT ![idx] = Head(fifo[idx])]
               /\ fifo' = [fifo EXCEPT ![idx] = Tail(@)]
     ELSE UNCHANGED <<reg, fifo>>
  /\ idx' = idx + 1
  /\ pc' = IF idx = NumMbx - 1 THEN "service" ELSE "load"
  /\ UNCHANGED <<posted, intrVars, sessVars, active, valid, abort, handled>>

(***************************************************************************)
(* Step 2: the loaded inputs, lowest mailbox first.  An empty one is       *)
(* retired; a valid one goes to the handler, whose result may latch an     *)
(* abort or disable this mailbox.  The handler may enable mailboxes of     *)
(* its session (e).                                                        *)
(***************************************************************************)
First == Min(active)

Retire ==
  /\ pc = "service"
  /\ active # {}
  /\ reg[First] = EMPTY
  /\ active' = active \ {First}
  /\ UNCHANGED <<hwVars, intrVars, sessVars, pc, reg, idx, valid, abort, handled>>

\* Mutant: an abort leaves the pass at once, with inputs still in registers.
Handle_AbortAtOnce(option, e) ==
  /\ pc = "service"
  /\ active # {}
  /\ reg[First] # EMPTY
  /\ handled' = [handled EXCEPT ![First] = Append(@, reg[First])]
  /\ enabled' = IF option.disable THEN (enabled \cup e) \ {First} ELSE enabled \cup e
  /\ abort' = (abort \/ option.abort)
  /\ valid' = TRUE
  /\ active' = IF option.abort THEN {} ELSE active \ {First}
  /\ UNCHANGED <<hwVars, intrVars, srcs, pc, reg, idx>>

\* Mutant: the bit of a mailbox that disables itself is not singled out.
Handle_DisablesAll(option, e) ==
  /\ pc = "service"
  /\ active # {}
  /\ reg[First] # EMPTY
  /\ handled' = [handled EXCEPT ![First] = Append(@, reg[First])]
  /\ enabled' = IF option.disable THEN {} ELSE enabled \cup e
  /\ abort' = (abort \/ option.abort)
  /\ valid' = TRUE
  /\ active' = active \ {First}
  /\ UNCHANGED <<hwVars, intrVars, srcs, pc, reg, idx>>

Handle(option, e) ==
  /\ pc = "service"
  /\ active # {}
  /\ reg[First] # EMPTY
  /\ handled' = [handled EXCEPT ![First] = Append(@, reg[First])]
  /\ enabled' = IF option.disable THEN (enabled \cup e) \ {First} ELSE enabled \cup e
  /\ abort' = (abort \/ option.abort)
  /\ valid' = TRUE
  /\ active' = active \ {First}
  /\ UNCHANGED <<hwVars, intrVars, srcs, pc, reg, idx>>

(***************************************************************************)
(* Steps 3 and 4: leave on an abort or when nothing is enabled, start over *)
(* if any input was valid, otherwise go and arm the interrupts.            *)
(***************************************************************************)
EndPass ==
  /\ pc = "service"
  /\ active = {}
  /\ \/ /\ abort \/ enabled = {}
        /\ pc' = "out"
        /\ UNCHANGED <<active, idx, valid, abort>>
     \/ /\ ~abort /\ enabled # {} /\ valid
        /\ StartPass(enabled)
        /\ valid' = FALSE
        /\ UNCHANGED abort
     \/ /\ ~abort /\ enabled # {} /\ ~valid
        /\ pc' = "arm"
        /\ active' = enabled
        /\ idx' = srcs - 1
        /\ UNCHANGED <<valid, abort>>
  /\ UNCHANGED <<hwVars, intrVars, sessVars, reg, handled>>

\* Mutant: the arm loop ends one source too early.
Arm_SkipsLast ==
  /\ pc = "arm"
  /\ armed' = IF idx \in active /\ idx # 0 THEN armed \cup {idx} ELSE armed
  /\ IF idx = 0
     THEN pc' = "wait" /\ UNCHANGED idx
     ELSE idx' = idx - 1 /\ UNCHANGED pc
  /\ UNCHANGED <<hwVars, disabled, sync, sessVars, active, reg, valid, abort, handled>>

\* Step 5: enable the interrupt of each active source, highest index first.
Arm ==
  /\ pc = "arm"
  /\ armed' = IF idx \in active THEN armed \cup {idx} ELSE armed
  /\ IF idx = 0
     THEN pc' = "wait" /\ UNCHANGED idx
     ELSE idx' = idx - 1 /\ UNCHANGED pc
  /\ UNCHANGED <<hwVars, disabled, sync, sessVars, active, reg, valid, abort, handled>>

\* Mutant: after a wake-up the sources are armed again, and not loaded.
IntrWaitSync_BackToArm ==
  /\ pc = "wait"
  /\ sync = 1
  /\ sync' = 0
  /\ pc' = "arm"
  /\ idx' = srcs - 1
  /\ UNCHANGED <<hwVars, armed, disabled, sessVars, active, reg, valid, abort, handled>>

\* Steps 6 and 7: obtain the semaphore and go back to the load.
IntrWaitSync ==
  /\ pc = "wait"
  /\ sync = 1
  /\ sync' = 0
  /\ StartPass(active)
  /\ UNCHANGED <<hwVars, armed, disabled, sessVars, reg, valid, abort, handled>>

(***************************************************************************)
(* The interrupt handler of a group.  A source requests an interrupt while *)
(* it is armed and its FIFO holds an input.  Reading the group's disable   *)
(* register disarms the requesting sources and returns them; the handler   *)
(* then releases the semaphore once for each of them.                      *)
(***************************************************************************)
Requesting(g) == {m \in armed : GroupOf[m] = g /\ fifo[m] # <<>>}

InHandler(g) == {m \in disabled : GroupOf[m] = g}

IntrHandleMbx(g) ==
  /\ InHandler(g) = {}
  /\ Requesting(g) # {}
  /\ armed' = armed \ Requesting(g)
  /\ disabled' = disabled \cup Requesting(g)
  /\ UNCHANGED <<hwVars, sync, sessVars, loopVars, handled>>

IntrRelease(m) ==
  /\ m \in disabled
  /\ \A n \in InHandler(GroupOf[m]) : m <= n
  /\ disabled' = disabled \ {m}
  /\ sync' = IF m \in Bound THEN 1 ELSE sync
  /\ UNCHANGED <<hwVars, armed, sessVars, loopVars, handled>>

-----------------------------------------------------------------------------
\* The steps SAS_Wait takes by itself once it has been called.
Loop ==
  \/ Load
  \/ Retire
  \/ \E option \in Options, e \in SUBSET Bound : Handle(option, e)
  \/ EndPass
  \/ Arm
  \/ IntrWaitSync

User ==
  \/ SAS_Bind
  \/ \E m \in Mbx : SAS_Enable(m)
  \/ SAS_Wait
  \/ SAS_EnableWait

Interrupt ==
  \/ \E g \in Groups : IntrHandleMbx(g)
  \/ \E m \in Mbx : IntrRelease(m)

Next ==
  \/ \E m \in Mbx : Post(m)
  \/ User
  \/ Loop
  \/ Interrupt

Spec == Init /\ [][Next]_vars

(***************************************************************************)
(* The thread runs while it is not blocked, and an interrupt that is       *)
(* requested is taken and its handler finishes.  Nothing obliges the       *)
(* hardware to post or the user to call.                                   *)
(***************************************************************************)
Fairness ==
  /\ WF_vars(Loop)
  /\ \A g \in Groups : WF_vars(IntrHandleMbx(g))
  /\ \A m \in Mbx : WF_vars(IntrRelease(m))

LiveSpec == Spec /\ Fairness

(***************************************************************************)
(* Properties.                                                             *)
(***************************************************************************)
\* Every variable stays in its range; srcs never passes MAX_SESSION_INPUTS
\* and only bound mailboxes are ever enabled, loaded or armed.
TypeOK ==
  /\ fifo \in [Mbx -> Seq(Nat \ {0})]
  /\ posted \in [Mbx -> 0 .. MaxInput]
  /\ srcs \in 0 .. NumMbx
  /\ enabled \subseteq Bound
  /\ active \subseteq Bound
  /\ armed \subseteq Bound
  /\ disabled \subseteq Bound
  /\ sync \in {0, 1}
  /\ pc \in {"out", "load", "service", "arm", "wait"}
  /\ reg \in [Mbx -> Nat]
  /\ idx \in 0 .. NumMbx
  /\ valid \in BOOLEAN
  /\ abort \in BOOLEAN
  /\ handled \in [Mbx -> Seq(Nat \ {0})]

\* The input popped from the FIFO of m by this pass and not yet handled.
Loaded(m) ==
  IF /\ m \in active
     /\ reg[m] # EMPTY
     /\ pc = "service" \/ (pc = "load" /\ m < idx)
  THEN <<reg[m]>>
  ELSE <<>>

\* SAS_Wait reads the FIFOs destructively, several of them before the first
\* handler runs, and a handler may abort the wait or disable a mailbox in
\* between.  Still every input posted to a mailbox is, exactly once and in the
\* order of posting, with its handler, in a register of a pass under way, or
\* in the FIFO; after a return of SAS_Wait there is no register left.
NoInputLost ==
  \A m \in Mbx : handled[m] \o (Loaded(m) \o fifo[m]) = [i \in 1 .. posted[m] |-> i]

\* When the thread blocks on the semaphore and it is not set, the interrupt
\* of every enabled source is armed or its handler is on its way to the
\* release: an input that arrives between the last empty read and the block
\* cannot leave the thread asleep.
NoLostWakeup ==
  (pc = "wait" /\ sync = 0) => enabled \subseteq (armed \cup disabled)

\* A handler runs only for a mailbox that is enabled at that moment: once it
\* has returned SAS_DISABLE it is not called again before a SAS_Enable, even
\* though the pass works on a copy of the enabled mask.
HandledOnlyEnabled ==
  [][\A m \in Mbx : handled'[m] # handled[m] => m \in enabled]_vars

\* An input posted to a mailbox is handled, unless the mailbox is disabled
\* or the wait returns first.
InputServed ==
  \A m \in Mbx, i \in 1 .. MaxInput :
    (pc # "out" /\ m \in enabled /\ posted[m] >= i)
      ~> (Len(handled[m]) >= i \/ pc = "out" \/ m \notin enabled)

\* The mailbox queue the user sees: the input in a register of the pass under
\* way, then the FIFO.
Queues == INSTANCE Mailbox WITH queue <- [m \in Mbx |-> Loaded(m) \o fifo[m]]

\* The loop, its registers and the interrupts implement the mailbox queues.
ImplementsMailbox == Queues!Spec

=============================================================================
