---------------------------- MODULE SasWaitProofs ----------------------------
(***************************************************************************)
(* Theorems about SasWait for every number of mailboxes, every assignment  *)
(* of mailboxes to interrupt groups and every number of inputs.            *)
(***************************************************************************)
EXTENDS SasWait, WellFoundedInduction, SequenceTheorems, TLAPS

\* The facts about the loop that TypeOK, NoLostWakeup and HandledOnlyEnabled
\* rest on.  While inputs are loaded and serviced, the copy active of the
\* enabled mask holds no mailbox that is not enabled; while interrupts are
\* armed and the thread is blocked it is the enabled mask.  Each source the arm
\* loop has passed is armed, in the hands of an interrupt handler, or the
\* semaphore is set.
LoopInv ==
  /\ pc = "out" => active = {}
  /\ pc \in {"load", "service"} => active \subseteq enabled
  /\ pc = "load" => idx < NumMbx
  /\ pc \in {"arm", "wait"} => active = enabled
  /\ pc = "arm" =>
       /\ idx < NumMbx
       /\ \A m \in active : m > idx => (m \in armed \cup disabled \/ sync = 1)
  /\ pc = "wait" => (active \subseteq (armed \cup disabled) \/ sync = 1)

IInv == TypeOK /\ LoopInv

\* The lowest member of a set of mailboxes is one of them.
LEMMA FirstInActive ==
  ASSUME TypeOK, active # {}
  PROVE  First \in active
<1>1. active \subseteq Nat
  BY NumMbxAssumption DEF TypeOK, Bound
<1>2. PICK m \in active : \A n \in active : ~(<<n, m>> \in OpToRel(<, Nat))
  BY <1>1, NatLessThanWellFounded, WFMin
<1>3. ASSUME NEW n \in active
      PROVE  m <= n
  <2>1. <<n, m>> \in Nat \X Nat /\ n \in Nat /\ m \in Nat
    BY <1>1
  <2>2. ~(n < m)
    BY <1>2, <2>1 DEF OpToRel
  <2> QED
    BY <2>1, <2>2
<1> QED
  BY <1>3 DEF First, Min

-----------------------------------------------------------------------------
\* A session that nobody has bound or waited on satisfies the invariant.
LEMMA InitIInv == Init => IInv
BY NumMbxAssumption, MaxInputAssumption DEF Init, IInv, TypeOK, LoopInv, Mbx, Bound, EMPTY

\* Every step of the session's thread, of the hardware and of the interrupt
\* handlers keeps IInv.
LEMMA NextIInv == IInv /\ [Next]_vars => IInv'
<1> SUFFICES ASSUME IInv, [Next]_vars
             PROVE  IInv'
  OBVIOUS
<1> USE NumMbxAssumption, MaxInputAssumption
<1>t. TypeOK /\ LoopInv
  BY DEF IInv
<1>1. ASSUME NEW m \in Mbx, Post(m)
      PROVE  IInv'
  <2>1. fifo' \in [Mbx -> Seq(Nat \ {0})] /\ posted' \in [Mbx -> 0 .. MaxInput]
    BY <1>t, <1>1 DEF Post, TypeOK
  <2> QED
    BY <1>t, <1>1, <2>1 DEF Post, IInv, TypeOK, LoopInv, Bound, intrVars, sessVars, loopVars
<1>2. CASE SAS_Bind
  <2>1. TypeOK'
    BY <1>t, <1>2 DEF SAS_Bind, Bound, hwVars, intrVars, loopVars, TypeOK
  <2>2. LoopInv'
    BY <1>t, <1>2 DEF SAS_Bind, Bound, Mbx, hwVars, intrVars, loopVars, TypeOK, LoopInv
  <2> QED
    BY <2>1, <2>2 DEF IInv
<1>3. ASSUME NEW m \in Mbx, SAS_Enable(m)
      PROVE  IInv'
  BY <1>t, <1>3 DEF SAS_Enable, IInv, TypeOK, LoopInv, Bound, hwVars, intrVars, loopVars
<1>4. CASE SAS_Wait
  <2>b. valid' \in BOOLEAN /\ abort' \in BOOLEAN
    BY <1>t, <1>4, Zenon DEF SAS_Wait, StartPass, TypeOK
  <2>1. TypeOK'
    BY <1>t, <1>4, <2>b DEF SAS_Wait, StartPass, Bound, hwVars, intrVars, sessVars, TypeOK, LoopInv
  <2>2. LoopInv'
    BY <1>t, <1>4 DEF SAS_Wait, StartPass, Bound, hwVars, intrVars, sessVars, TypeOK, LoopInv
  <2> QED
    BY <2>1, <2>2 DEF IInv
<1>5. CASE SAS_EnableWait
  <2>b. valid' \in BOOLEAN /\ abort' \in BOOLEAN
    BY <1>t, <1>5, Zenon DEF SAS_EnableWait, StartPass, TypeOK
  <2>1. TypeOK'
    BY <1>t, <1>5, <2>b DEF SAS_EnableWait, StartPass, Bound, hwVars, intrVars, sessVars, TypeOK, LoopInv
  <2>2. LoopInv'
    BY <1>t, <1>5 DEF SAS_EnableWait, StartPass, Bound, hwVars, intrVars, TypeOK, LoopInv
  <2> QED
    BY <2>1, <2>2 DEF IInv
<1>6. CASE Load
  <2>1. idx \in Mbx /\ idx' \in 0 .. NumMbx
    BY <1>t, <1>6 DEF Load, TypeOK, LoopInv, Mbx
  <2>2. reg' \in [Mbx -> Nat] /\ fifo' \in [Mbx -> Seq(Nat \ {0})]
    <3>1. CASE idx \in active /\ fifo[idx] # <<>>
      <4>1. Head(fifo[idx]) \in Nat \ {0} /\ Tail(fifo[idx]) \in Seq(Nat \ {0})
        BY <1>t, <2>1, <3>1, HeadTailProperties DEF TypeOK
      <4> QED
        BY <1>t, <1>6, <2>1, <3>1, <4>1 DEF Load, TypeOK
    <3>2. CASE ~(idx \in active /\ fifo[idx] # <<>>)
      BY <1>t, <1>6, <2>1, <3>2 DEF Load, TypeOK, EMPTY
    <3> QED
      BY <3>1, <3>2
  <2>3. TypeOK'
    BY <1>t, <1>6, <2>1, <2>2 DEF Load, Bound, intrVars, sessVars, TypeOK
  <2>4. LoopInv'
    BY <1>t, <1>6 DEF Load, intrVars, sessVars, TypeOK, LoopInv
  <2> QED
    BY <2>3, <2>4 DEF IInv
<1>7. CASE Retire
  BY <1>t, <1>7 DEF Retire, IInv, TypeOK, LoopInv, Bound, hwVars, intrVars, sessVars
<1>8. ASSUME NEW option \in Options, NEW e \in SUBSET Bound, Handle(option, e)
      PROVE  IInv'
  <2>1. First \in active /\ First \in Mbx
    <3>1. active # {}
      BY <1>8 DEF Handle
    <3>2. First \in active
      BY <1>t, <3>1, FirstInActive
    <3> QED
      BY <1>t, <3>2 DEF TypeOK, Bound, Mbx
  <2>2. TypeOK'
    BY <1>t, <1>8, <2>1 DEF Handle, Options, TypeOK, Bound, hwVars, intrVars, EMPTY
  <2>3. LoopInv'
    BY <1>t, <1>8, <2>1 DEF Handle, Options, LoopInv, hwVars, intrVars
  <2> QED
    BY <2>2, <2>3 DEF IInv
<1>9. CASE EndPass
  <2>1. CASE (abort \/ enabled = {}) /\ pc' = "out" /\ UNCHANGED <<active, idx, valid, abort>>
    BY <1>t, <1>9, <2>1 DEF EndPass, Bound, hwVars, intrVars, sessVars, IInv, TypeOK, LoopInv
  <2>2. CASE StartPass(enabled) /\ valid' = FALSE /\ UNCHANGED abort
    <3>1. valid' \in BOOLEAN /\ abort' \in BOOLEAN
      BY <1>t, <2>2, Zenon DEF TypeOK
    <3> QED
      BY <1>t, <1>9, <2>2, <3>1
         DEF EndPass, StartPass, Bound, hwVars, intrVars, sessVars, IInv, TypeOK, LoopInv
  <2>3. CASE /\ enabled # {} /\ pc' = "arm" /\ active' = enabled /\ idx' = srcs - 1
             /\ UNCHANGED <<valid, abort>>
    <3>1. \A m \in enabled : m \in 0 .. srcs - 1
      BY <1>t DEF TypeOK, Bound
    <3>2. idx' \in 0 .. NumMbx /\ idx' < NumMbx /\ \A m \in active' : ~(m > idx')
      BY <1>t, <2>3, <3>1 DEF TypeOK
    <3> QED
      BY <1>t, <1>9, <2>3, <3>2
         DEF EndPass, Bound, hwVars, intrVars, sessVars, IInv, TypeOK, LoopInv
  <2> QED
    BY <1>9, <2>1, <2>2, <2>3 DEF EndPass
<1>10. CASE Arm
  BY <1>t, <1>10 DEF Arm, IInv, TypeOK, LoopInv, Bound, hwVars, sessVars
<1>11. CASE IntrWaitSync
  BY <1>t, <1>11 DEF IntrWaitSync, StartPass, IInv, TypeOK, LoopInv, Bound, hwVars, sessVars
<1>12. ASSUME NEW g \in Groups, IntrHandleMbx(g)
       PROVE  IInv'
  BY <1>t, <1>12 DEF IntrHandleMbx, Requesting, IInv, TypeOK, LoopInv, Bound, hwVars, sessVars, loopVars
<1>13. ASSUME NEW m \in Mbx, IntrRelease(m)
       PROVE  IInv'
  BY <1>t, <1>13 DEF IntrRelease, IInv, TypeOK, LoopInv, Bound, hwVars, sessVars, loopVars
<1>14. CASE UNCHANGED vars
  BY <1>t, <1>14 DEF vars, IInv, TypeOK, LoopInv, Bound
<1> QED
  BY <1>1, <1>2, <1>3, <1>4, <1>5, <1>6, <1>7, <1>8, <1>9, <1>10, <1>11, <1>12, <1>13, <1>14
     DEF Next, User, Loop, Interrupt

\* The invariant holds in every state of every behaviour.
LEMMA Invariance == Spec => []IInv
BY InitIInv, NextIInv, PTL DEF Spec

\* The type invariant holds for every number of mailboxes and inputs: the
\* session never counts more than MAX_SESSION_INPUTS sources, and what is
\* enabled, loaded or armed is bound.
THEOREM TypeCorrect == Spec => []TypeOK
BY Invariance, PTL DEF IInv

\* The session's thread never blocks while the interrupt of a source it
\* waits for is disarmed and nobody is about to release the semaphore.
THEOREM WakeupNotLost == Spec => []NoLostWakeup
<1>1. IInv => NoLostWakeup
  BY DEF IInv, LoopInv, NoLostWakeup
<1> QED
  BY <1>1, Invariance, PTL

\* No handler is called for a mailbox that is not enabled at the call.
THEOREM OnlyEnabledHandled == Spec => HandledOnlyEnabled
<1> DEFINE A == \A m \in Mbx : handled'[m] # handled[m] => m \in enabled
<1>1. IInv /\ [Next]_vars => [A]_vars
  <2> SUFFICES ASSUME IInv, Next, NEW m \in Mbx, handled'[m] # handled[m]
               PROVE  m \in enabled
    BY DEF vars
  <2>1. PICK option \in Options, e \in SUBSET Bound : Handle(option, e)
    BY DEF Next, User, Loop, Interrupt, Post, SAS_Bind, SAS_Enable, SAS_Wait, SAS_EnableWait,
           Load, Retire, EndPass, Arm, IntrWaitSync, IntrHandleMbx, IntrRelease
  <2>2. First \in active
    BY <2>1, FirstInActive DEF Handle, IInv
  <2>3. m = First
    BY <2>1, <2>2 DEF Handle, IInv, TypeOK
  <2> QED
    BY <2>1, <2>2, <2>3 DEF Handle, IInv, LoopInv
<1> QED
  BY <1>1, Invariance, PTL DEF Spec, HandledOnlyEnabled

-----------------------------------------------------------------------------
(***************************************************************************)
(* The loop implements the mailbox queues.  Q is the refinement mapping.   *)
(***************************************************************************)
Q == [m \in Mbx |-> Loaded(m) \o fifo[m]]

\* What a register contributes to a queue is a sequence of inputs.
LEMMA LoadedType ==
  ASSUME IInv, NEW m \in Mbx
  PROVE  Loaded(m) \in Seq(Nat \ {0}) /\ fifo[m] \in Seq(Nat \ {0})
<1>1. reg[m] # EMPTY => reg[m] \in Nat \ {0}
  BY DEF IInv, TypeOK, EMPTY
<1>2. reg[m] # EMPTY => <<reg[m]>> \in Seq(Nat \ {0})
  BY <1>1
<1>3. Loaded(m) = <<>> \/ (reg[m] # EMPTY /\ Loaded(m) = <<reg[m]>>)
  BY DEF Loaded
<1>4. fifo[m] \in Seq(Nat \ {0})
  BY DEF IInv, TypeOK
<1>5. <<>> \in Seq(Nat \ {0})
  OBVIOUS
<1> QED
  BY <1>2, <1>3, <1>4, <1>5

\* A destructive read moves the head of the FIFO into the register and leaves
\* the queue of the mailbox as it was.
LEMMA LoadKeepsQueue ==
  ASSUME IInv, Load, NEW m \in Mbx
  PROVE  (Loaded(m) \o fifo[m])' = Loaded(m) \o fifo[m]
<1>1. idx \in Mbx /\ idx < NumMbx /\ pc = "load"
  BY NumMbxAssumption DEF Load, IInv, TypeOK, LoopInv, Mbx
<1>2. CASE m # idx
  <2>1. reg'[m] = reg[m] /\ fifo'[m] = fifo[m] /\ active' = active
    BY <1>1, <1>2 DEF Load, IInv, TypeOK
  <2>2. (pc' = "service" \/ (pc' = "load" /\ m < idx')) <=> m < idx
    BY <1>1, <1>2, NumMbxAssumption DEF Load, Mbx
  <2> QED
    BY <1>1, <2>1, <2>2 DEF Loaded
<1>3. CASE m = idx /\ m \notin active
  BY <1>1, <1>3 DEF Load, Loaded
<1>4. CASE m = idx /\ m \in active /\ fifo[m] = <<>>
  <2>1. reg'[m] = EMPTY /\ fifo' = fifo /\ active' = active
    BY <1>1, <1>4 DEF Load, IInv, TypeOK
  <2>2. Loaded(m) = <<>> /\ Loaded(m)' = <<>>
    BY <1>1, <1>4, <2>1 DEF Loaded, Mbx
  <2> QED
    BY <2>1, <2>2
<1>5. CASE m = idx /\ m \in active /\ fifo[m] # <<>>
  <2>1. fifo[m] \in Seq(Nat \ {0})
    BY DEF IInv, TypeOK
  <2>2. Head(fifo[m]) \in Nat \ {0} /\ Tail(fifo[m]) \in Seq(Nat \ {0})
    BY <1>5, <2>1, HeadTailProperties
  <2>3. reg'[m] = Head(fifo[m]) /\ fifo'[m] = Tail(fifo[m]) /\ active' = active
    BY <1>1, <1>5 DEF Load, IInv, TypeOK
  <2>4. pc' = "service" \/ (pc' = "load" /\ m < idx')
    BY <1>1, <1>5, NumMbxAssumption DEF Load, Mbx
  <2>5. Loaded(m) = <<>>
    BY <1>1, <1>5 DEF Loaded, Mbx
  <2>6. Loaded(m)' = <<Head(fifo[m])>>
    BY <1>5, <2>2, <2>3, <2>4 DEF Loaded, EMPTY
  <2>7. <<Head(fifo[m])>> \o Tail(fifo[m]) = fifo[m]
    BY <1>5, <2>1, <2>2
  <2> QED
    BY <2>1, <2>3, <2>5, <2>6, <2>7
<1> QED
  BY <1>2, <1>3, <1>4, <1>5

\* Calling the handler takes the input in the register, the head of the
\* mailbox's queue, and touches no other queue.
LEMMA HandleTakesHead ==
  ASSUME IInv, NEW option \in Options, NEW e \in SUBSET Bound, Handle(option, e)
  PROVE  /\ First \in Mbx /\ First \in enabled
         /\ Q[First] # <<>>
         /\ handled' = [handled EXCEPT ![First] = Append(@, Head(Q[First]))]
         /\ Q' = [Q EXCEPT ![First] = Tail(@)]
<1>1. First \in active /\ First \in Mbx
  <2>1. First \in active
    BY FirstInActive DEF Handle, IInv
  <2> QED
    BY <2>1, NumMbxAssumption DEF IInv, TypeOK, Bound, Mbx
<1>2. First \in enabled
  BY <1>1 DEF Handle, IInv, LoopInv
<1>3. reg[First] \in Nat \ {0} /\ fifo[First] \in Seq(Nat \ {0})
  BY <1>1 DEF Handle, IInv, TypeOK, EMPTY
<1>4. Q[First] = <<reg[First]>> \o fifo[First]
  BY <1>1 DEF Handle, Q, Loaded
<1>5. Q[First] # <<>> /\ Head(Q[First]) = reg[First] /\ Tail(Q[First]) = fifo[First]
  BY <1>3, <1>4
<1>6. ASSUME NEW m \in Mbx
      PROVE  Q'[m] = IF m = First THEN Tail(Q[First]) ELSE Q[m]
  <2>1. Loaded(m)' = IF m = First THEN <<>> ELSE Loaded(m)
    BY DEF Handle, Loaded
  <2>2. fifo' = fifo
    BY DEF Handle, hwVars
  <2>3. Q'[m] = Loaded(m)' \o fifo[m]
    BY <2>2 DEF Q
  <2>4. CASE m = First
    BY <1>3, <1>5, <2>1, <2>3, <2>4
  <2>5. CASE m # First
    BY <2>1, <2>3, <2>5 DEF Q
  <2> QED
    BY <2>4, <2>5
<1>7. Q' = [Q EXCEPT ![First] = Tail(@)]
  BY <1>1, <1>6 DEF Q
<1> QED
  BY <1>1, <1>2, <1>5, <1>7 DEF Handle

\* The hardware's post appends to the mailbox's queue.
LEMMA PostAppends ==
  ASSUME IInv, NEW m \in Mbx, Post(m)
  PROVE  Q' = [Q EXCEPT ![m] = Append(@, posted[m] + 1)]
<1>1. ASSUME NEW n \in Mbx
      PROVE  Q'[n] = IF n = m THEN Append(Q[m], posted[m] + 1) ELSE Q[n]
  <2>1. Loaded(n)' = Loaded(n)
    BY DEF Post, Loaded, loopVars
  <2>2. fifo'[n] = IF n = m THEN Append(fifo[m], posted[m] + 1) ELSE fifo[n]
    BY DEF Post, IInv, TypeOK
  <2>3. Loaded(n) \in Seq(Nat \ {0}) /\ fifo[n] \in Seq(Nat \ {0})
    BY LoadedType
  <2>4. posted[m] + 1 \in Nat \ {0}
    BY MaxInputAssumption DEF IInv, TypeOK
  <2>5. Loaded(m) \o Append(fifo[m], posted[m] + 1) = Append(Loaded(m) \o fifo[m], posted[m] + 1)
    BY <2>4, LoadedType
  <2>6. Q'[n] = Loaded(n) \o fifo'[n] /\ Q[n] = Loaded(n) \o fifo[n]
    BY <2>1 DEF Q
  <2> QED
    BY <2>2, <2>5, <2>6
<1> QED
  BY <1>1 DEF Q

\* Every other step leaves the queues, the inputs handled and the number of
\* inputs posted alone.
LEMMA OthersKeepQueues ==
  ASSUME IInv, Next,
         ~(\E m \in Mbx : Post(m)),
         ~(\E option \in Options, e \in SUBSET Bound : Handle(option, e))
  PROVE  Q' = Q /\ UNCHANGED <<handled, posted>>
<1>1. CASE SAS_Bind \/ (\E m \in Mbx : SAS_Enable(m)) \/ Arm
           \/ (\E g \in Groups : IntrHandleMbx(g)) \/ (\E m \in Mbx : IntrRelease(m))
  <2>1. UNCHANGED <<fifo, reg, active, handled, posted>>
    BY <1>1 DEF SAS_Bind, SAS_Enable, Arm, IntrHandleMbx, IntrRelease, hwVars, loopVars
  <2>2. \A m \in Mbx : Loaded(m)' = Loaded(m)
    BY <1>1, <2>1 DEF SAS_Bind, SAS_Enable, Arm, IntrHandleMbx, IntrRelease, loopVars, Loaded
  <2> QED
    BY <2>1, <2>2 DEF Q
<1>2. CASE SAS_Wait \/ SAS_EnableWait \/ EndPass \/ IntrWaitSync
  <2>1. UNCHANGED <<fifo, handled, posted>>
    BY <1>2 DEF SAS_Wait, SAS_EnableWait, EndPass, IntrWaitSync, hwVars
  <2>2. ASSUME NEW m \in Mbx
        PROVE  Loaded(m) = <<>> /\ Loaded(m)' = <<>>
    <3>1. ~(m < 0)
      BY NumMbxAssumption DEF Mbx
    <3> QED
      BY <1>2, <3>1 DEF SAS_Wait, SAS_EnableWait, EndPass, IntrWaitSync, StartPass, Loaded
  <2> QED
    BY <2>1, <2>2 DEF Q
<1>3. CASE Load
  <2>1. \A m \in Mbx : Q'[m] = Q[m]
    BY <1>3, LoadKeepsQueue DEF Q
  <2> QED
    BY <1>3, <2>1 DEF Q, Load
<1>4. CASE Retire
  <2>1. UNCHANGED <<fifo, handled, posted>>
    BY <1>4 DEF Retire, hwVars
  <2>2. \A m \in Mbx : Loaded(m)' = Loaded(m)
    BY <1>4 DEF Retire, Loaded
  <2> QED
    BY <2>1, <2>2 DEF Q
<1> QED
  BY <1>1, <1>2, <1>3, <1>4 DEF Next, User, Loop, Interrupt

\* Bound mailboxes, of which there are at most NumMbx, are mailboxes.
LEMMA IntervalInMbx ==
  ASSUME NEW n \in 0 .. NumMbx, NEW s, s \subseteq 0 .. n - 1
  PROVE  s \subseteq Mbx
BY NumMbxAssumption DEF Mbx

\* Every step of the loop is a step of the mailbox queues, or leaves them alone.
LEMMA QueueSteps == IInv /\ [Next]_vars => [Queues!Next]_(Queues!vars)
<1> SUFFICES ASSUME IInv, [Next]_vars
             PROVE  [Queues!Next]_(Queues!vars)
  OBVIOUS
<1>e. enabled' \subseteq Mbx
  <2>1. srcs' \in 0 .. NumMbx /\ enabled' \subseteq 0 .. srcs' - 1
    BY NextIInv DEF IInv, TypeOK, Bound
  <2> QED
    BY <2>1, IntervalInMbx
<1>1. ASSUME NEW m \in Mbx, Post(m)
      PROVE  Queues!Post(m)
  <2>1. Q' = [Q EXCEPT ![m] = Append(@, posted[m] + 1)]
    BY <1>1, PostAppends
  <2> QED
    BY <1>1, <2>1 DEF Post, Queues!Post, Q, sessVars
<1>2. ASSUME NEW option \in Options, NEW e \in SUBSET Bound, Handle(option, e)
      PROVE  \E m \in Mbx : Queues!Deliver(m)
  <2>1. /\ First \in Mbx /\ First \in enabled
        /\ Q[First] # <<>>
        /\ handled' = [handled EXCEPT ![First] = Append(@, Head(Q[First]))]
        /\ Q' = [Q EXCEPT ![First] = Tail(@)]
    BY <1>2, HandleTakesHead
  <2>2. PICK m \in Mbx : m = First
    BY <2>1
  <2>3. enabled \ {m} \subseteq enabled' /\ enabled' \in SUBSET Mbx
    BY <1>2, <1>e, <2>2 DEF Handle
  <2>4. UNCHANGED posted
    BY <1>2 DEF Handle, hwVars
  <2>5. Queues!Deliver(m)
    BY <2>1, <2>2, <2>3, <2>4 DEF Queues!Deliver, Q
  <2> QED
    BY <2>5
<1>3. ASSUME Next,
             ~(\E m \in Mbx : Post(m)),
             ~(\E option \in Options, e \in SUBSET Bound : Handle(option, e))
      PROVE  Queues!Enable
  <2>1. Q' = Q /\ UNCHANGED <<handled, posted>>
    BY <1>3, OthersKeepQueues
  <2>2. enabled \subseteq enabled'
    BY <1>3 DEF Next, User, Loop, Interrupt, SAS_Bind, SAS_Enable, SAS_Wait, SAS_EnableWait,
                Load, Retire, EndPass, Arm, IntrWaitSync, IntrHandleMbx, IntrRelease, sessVars
  <2> QED
    BY <1>e, <2>1, <2>2 DEF Queues!Enable, Q
<1>4. CASE UNCHANGED vars
  BY <1>4 DEF vars, Queues!vars, Loaded
<1>5. ASSUME Next
      PROVE  Queues!Next
  <2>1. CASE \E m \in Mbx : Post(m)
    BY <1>1, <2>1 DEF Queues!Next
  <2>2. CASE \E option \in Options, e \in SUBSET Bound : Handle(option, e)
    <3>1. PICK option \in Options, e \in SUBSET Bound : Handle(option, e)
      BY <2>2
    <3>2. PICK m \in Mbx : Queues!Deliver(m)
      BY <1>2, <3>1
    <3> QED
      BY <3>2 DEF Queues!Next
  <2>3. CASE /\ ~(\E m \in Mbx : Post(m))
             /\ ~(\E option \in Options, e \in SUBSET Bound : Handle(option, e))
    BY <1>3, <1>5, <2>3 DEF Queues!Next
  <2> QED
    BY <2>1, <2>2, <2>3
<1> QED
  BY <1>4, <1>5

\* The wait loop, its registers and the interrupt handlers implement the
\* mailbox queues of module Mailbox, whatever the number of mailboxes.
THEOREM LoopImplementsMailbox == Spec => ImplementsMailbox
<1>1. Init => Queues!Init
  BY DEF Init, Queues!Init, Loaded
<1> QED
  BY <1>1, Invariance, QueueSteps, PTL DEF Spec, ImplementsMailbox, Queues!Spec

\* Appending to the second of two sequences appends to their concatenation.
LEMMA ConcatAppend ==
  ASSUME NEW h \in Seq(Nat \ {0}), NEW q \in Seq(Nat \ {0}), NEW n \in Nat
  PROVE  h \o Append(q, n + 1) = Append(h \o q, n + 1)
<1>1. n + 1 \in Nat \ {0}
  OBVIOUS
<1> QED
  BY <1>1

\* Counting: an input appended to the inputs 1..n is input n+1, and an input
\* moved from the queue to the handler keeps their concatenation.
LEMMA CountAppend ==
  ASSUME NEW n \in Nat, NEW h \in Seq(Nat \ {0}), NEW q \in Seq(Nat \ {0}),
         h \o q = [i \in 1 .. n |-> i]
  PROVE  h \o Append(q, n + 1) = [i \in 1 .. n + 1 |-> i]
<1>1. h \o Append(q, n + 1) = Append(h \o q, n + 1)
  BY ConcatAppend
<1>2. Append([i \in 1 .. n |-> i], n + 1) = [i \in 1 .. n + 1 |-> i]
  OBVIOUS
<1> QED
  BY <1>1, <1>2

\* Moving the head of the second sequence to the end of the first keeps their
\* concatenation.
LEMMA CountMove ==
  ASSUME NEW h \in Seq(Nat \ {0}), NEW q \in Seq(Nat \ {0}), q # <<>>
  PROVE  Append(h, Head(q)) \o Tail(q) = h \o q
<1>1. Head(q) \in Nat \ {0} /\ Tail(q) \in Seq(Nat \ {0}) /\ q = <<Head(q)>> \o Tail(q)
  BY HeadTailProperties
<1> QED
  BY <1>1

\* No input is lost, handled twice or overtaken, for any number of mailboxes
\* and inputs.
THEOREM InputsNotLost == Spec => []NoInputLost
<1> DEFINE Inv == \A m \in Mbx : handled[m] \o Q[m] = [i \in 1 .. posted[m] |-> i]
<1>1. Init => Inv
  BY DEF Init, Q, Loaded
<1>2. Inv /\ IInv /\ [Next]_vars => Inv'
  <2> SUFFICES ASSUME Inv, IInv, [Next]_vars, NEW m \in Mbx
               PROVE  handled'[m] \o Q'[m] = [i \in 1 .. posted'[m] |-> i]
    OBVIOUS
  <2>t. Q[m] \in Seq(Nat \ {0}) /\ handled[m] \in Seq(Nat \ {0}) /\ posted[m] \in Nat
    BY LoadedType, ConcatProperties, MaxInputAssumption DEF Q, IInv, TypeOK
  <2>1. ASSUME NEW n \in Mbx, Post(n)
        PROVE  handled'[m] \o Q'[m] = [i \in 1 .. posted'[m] |-> i]
    <3>1. Q' = [Q EXCEPT ![n] = Append(@, posted[n] + 1)]
      BY <2>1, PostAppends
    <3>2. handled' = handled /\ posted' = [posted EXCEPT ![n] = @ + 1]
      BY <2>1 DEF Post
    <3>3. CASE n = m
      <4>1. Q'[m] = Append(Q[m], posted[m] + 1) /\ posted'[m] = posted[m] + 1
        BY <3>1, <3>2, <3>3 DEF Q, IInv, TypeOK
      <4>2. handled[m] \o Q[m] = [i \in 1 .. posted[m] |-> i]
        OBVIOUS
      <4>3. handled[m] \o Append(Q[m], posted[m] + 1) = [i \in 1 .. posted[m] + 1 |-> i]
        BY <2>t, <4>2, CountAppend
      <4> QED
        BY <3>2, <4>1, <4>3
    <3>4. CASE n # m
      <4>1. Q'[m] = Q[m] /\ posted'[m] = posted[m]
        BY <3>1, <3>2, <3>4 DEF Q, IInv, TypeOK
      <4> QED
        BY <3>2, <4>1
    <3> QED
      BY <3>3, <3>4
  <2>2. ASSUME NEW option \in Options, NEW e \in SUBSET Bound, Handle(option, e)
        PROVE  handled'[m] \o Q'[m] = [i \in 1 .. posted'[m] |-> i]
    <3>1. /\ First \in Mbx
          /\ Q[First] # <<>>
          /\ handled' = [handled EXCEPT ![First] = Append(@, Head(Q[First]))]
          /\ Q' = [Q EXCEPT ![First] = Tail(@)]
      BY <2>2, HandleTakesHead
    <3>2. posted' = posted
      BY <2>2 DEF Handle, hwVars
    <3>3. CASE m = First
      <4>1. handled'[m] = Append(handled[m], Head(Q[m])) /\ Q'[m] = Tail(Q[m])
        BY <3>1, <3>3 DEF Q, IInv, TypeOK
      <4>2. handled[m] \o Q[m] = [i \in 1 .. posted[m] |-> i]
        OBVIOUS
      <4>3. Append(handled[m], Head(Q[m])) \o Tail(Q[m]) = handled[m] \o Q[m]
        BY <2>t, <3>1, <3>3, CountMove
      <4> QED
        BY <3>2, <4>1, <4>2, <4>3
    <3>4. CASE m # First
      <4>1. handled'[m] = handled[m] /\ Q'[m] = Q[m]
        BY <3>1, <3>4 DEF Q, IInv, TypeOK
      <4> QED
        BY <3>2, <4>1
    <3> QED
      BY <3>3, <3>4
  <2>3. ASSUME Next,
               ~(\E n \in Mbx : Post(n)),
               ~(\E option \in Options, e \in SUBSET Bound : Handle(option, e))
        PROVE  handled'[m] \o Q'[m] = [i \in 1 .. posted'[m] |-> i]
    BY <2>3, OthersKeepQueues
  <2>4. CASE UNCHANGED vars
    BY <2>4 DEF vars, Q, Loaded
  <2> QED
    BY <2>1, <2>2, <2>3, <2>4
<1>3. Inv => NoInputLost
  BY DEF NoInputLost, Q
<1> QED
  BY <1>1, <1>2, <1>3, Invariance, PTL DEF Spec

=============================================================================
