----------------------------- MODULE XauiTxProofs -----------------------------
(***************************************************************************)
(* Theorems about XauiTx for every number of devices, descriptors and      *)
(* buffers.                                                                *)
(***************************************************************************)
EXTENDS XauiTx, SequencesExt, SequenceTheorems, FiniteSetTheorems, TLAPS

\* The positions of the tail of a list.
LEMMA ListTail ==
  ASSUME NEW S, NEW q \in Seq(S), q # <<>>
  PROVE  /\ Tail(q) \in Seq(S) /\ Head(q) \in S /\ Head(q) = q[1] /\ 1 \in DOMAIN q
         /\ DOMAIN q = 1 .. Len(q) /\ Len(q) \in Nat
         /\ \A i \in DOMAIN Tail(q) : i + 1 \in DOMAIN q /\ Tail(q)[i] = q[i + 1] /\ i \in Nat \ {0}
         /\ \A i \in DOMAIN q : i # 1 => i - 1 \in DOMAIN Tail(q) /\ Tail(q)[i - 1] = q[i]
<1>1. DOMAIN q = 1 .. Len(q) /\ Len(q) \in Nat /\ Len(q) # 0 /\ Head(q) = q[1]
  OBVIOUS
<1>2. /\ Tail(q) \in Seq(S) /\ DOMAIN Tail(q) = 1 .. Len(q) - 1
      /\ \A i \in 1 .. Len(q) - 1 : Tail(q)[i] = q[i + 1]
  OBVIOUS
<1> QED
  BY <1>1, <1>2

\* Taking the head of a list of distinct elements.
LEMMA TakeHead ==
  ASSUME NEW S, NEW q \in Seq(S), q # <<>>, IsInjective(q)
  PROVE  /\ Head(q) \in S /\ Head(q) \in Range(q)
         /\ Tail(q) \in Seq(S)
         /\ IsInjective(Tail(q))
         /\ Range(Tail(q)) = Range(q) \ {Head(q)}
<1> DEFINE t == Tail(q)
<1>1. /\ t \in Seq(S) /\ Head(q) \in S /\ Head(q) = q[1] /\ 1 \in DOMAIN q
      /\ \A i \in DOMAIN t : i + 1 \in DOMAIN q /\ t[i] = q[i + 1] /\ i \in Nat \ {0}
      /\ \A i \in DOMAIN q : i # 1 => i - 1 \in DOMAIN t /\ t[i - 1] = q[i]
  BY ListTail
<1> HIDE DEF t
<1>2. \A i, j \in DOMAIN t : t[i] = t[j] => i + 1 = j + 1
  BY <1>1 DEF IsInjective
<1>3. IsInjective(t)
  BY <1>1, <1>2 DEF IsInjective
<1>4. \A i \in DOMAIN t : t[i] # q[1]
  BY <1>1 DEF IsInjective
<1>5. Range(t) = Range(q) \ {q[1]} /\ q[1] \in Range(q)
  BY <1>1, <1>4 DEF Range
<1> QED
  BY <1>1, <1>3, <1>5 DEF t

\* Appending to a list of distinct elements.
LEMMA GiveBack ==
  ASSUME NEW S, NEW q \in Seq(S), NEW e \in S
  PROVE  /\ Append(q, e) \in Seq(S)
         /\ Range(Append(q, e)) = Range(q) \cup {e}
         /\ IsInjective(q) /\ e \notin Range(q) => IsInjective(Append(q, e))
<1> DEFINE a == Append(q, e)
           k == Len(q) + 1
<1>1. /\ a \in Seq(S) /\ DOMAIN a = DOMAIN q \cup {k} /\ a[k] = e
      /\ \A i \in DOMAIN q : a[i] = q[i] /\ i # k
  OBVIOUS
<1> HIDE DEF a, k
<1> QED
  BY <1>1 DEF IsInjective, Range, a

\* The elements of a list, of its tail and of a longer one.
LEMMA ListElements ==
  ASSUME NEW S, NEW q \in Seq(S)
  PROVE  /\ Range(q) \subseteq S
         /\ q # <<>> => Head(q) \in Range(q) /\ Tail(q) \in Seq(S) /\ Range(Tail(q)) \subseteq Range(q)
         /\ \A e \in S : Append(q, e) \in Seq(S) /\ Range(Append(q, e)) = Range(q) \cup {e}
<1>1. Range(q) \subseteq S
  BY RangeOfSeq
<1>2. ASSUME q # <<>>
      PROVE  Head(q) \in Range(q) /\ Tail(q) \in Seq(S) /\ Range(Tail(q)) \subseteq Range(q)
  BY <1>2, HeadTailProperties DEF Range
<1>3. ASSUME NEW e \in S
      PROVE  Append(q, e) \in Seq(S) /\ Range(Append(q, e)) = Range(q) \cup {e}
  BY AppendProperties DEF Range
<1> QED
  BY <1>1, <1>2, <1>3

\* SetToSeq lists a finite set, every element once.
LEMMA SetToSeqLists ==
  ASSUME NEW S, IsFiniteSet(S)
  PROVE  /\ SetToSeq(S) \in Seq(S)
         /\ IsInjective(SetToSeq(S))
         /\ Range(SetToSeq(S)) = S
<1> DEFINE n == Cardinality(S)
<1>1. n \in Nat /\ ExistsBijection(1 .. n, S)
  BY FS_CardinalityType
<1>2. SetToSeq(S) \in [1 .. n -> S] /\ IsInjective(SetToSeq(S))
  BY <1>1 DEF SetToSeq, ExistsBijection, Bijection, Injection
<1>3. IsFiniteSet(1 .. n) /\ Cardinality(1 .. n) = n
  BY <1>1, FS_Interval
<1>4. SetToSeq(S) \in Surjection(1 .. n, S)
  BY <1>2, <1>3, FS_Injection DEF Injection
<1> QED
  BY <1>1, <1>2, <1>4 DEF Surjection, Range

-----------------------------------------------------------------------------
\* A descriptor is free, with one thread, or posted; or it lies in a mailbox only.
Descriptors ==
  /\ IsInjective(free) /\ IsInjective(queue)
  /\ Range(free) \cap Range(queue) = {}
  /\ \A d \in Devices : held[d] \cap (Range(free) \cup Range(queue)) = {}
  /\ \A d, e \in Devices : d # e => held[d] \cap held[e] \cap Fds = {}
  /\ \A f \in Range(queue) : fd[f].mid \in Devices

\* Between passes no message is left that the task has read.
Registers == task # "handle" => \A d \in Devices : reg[d] = NONE

\* The messages of device d that the task has not handled.
Got(d) == Range(fifo[d]) \cup ({reg[d]} \ {NONE})

\* Until a descriptor is written too early, the descriptors that messages name are
\* as they were when they were sent, and each is named once.
Messages ==
  /\ Range(queue) \cap Unhandled = {}
  /\ \A d \in Devices : IsInjective(fifo[d]) /\ reg[d] \notin Range(fifo[d])
  /\ \A d \in Devices : \A f \in Got(d) : fd[f].mid = d
  /\ \A f \in Range(queue) \cup Unhandled :
       fd[f].payload \in Buffer => fd[f].payload.dev = fd[f].mid

\* Where buffer b is: of the places, one.
Placed(r, h, l, u) ==
  /\ r \/ h \/ l \/ u
  /\ r => ~h /\ ~l /\ ~u
  /\ h => ~l /\ ~u
  /\ l => ~u

InPlace(b) == Placed(b \in rset[b.dev], b \in held[b.dev], b \in lost, Uses(b) # {})

BuffersKept ==
  /\ \A d \in Devices : \A b \in Buffer : b \in rset[d] \cup held[d] => b.dev = d
  /\ \A b \in Buffer : InPlace(b)
  /\ \A b \in Buffer : \A f, g \in Uses(b) : f = g

IInv == TypeOK /\ Descriptors /\ Registers /\ (~lapped => Messages /\ BuffersKept)

-----------------------------------------------------------------------------
LEMMA UnhandledIs ==
  Unhandled = UNION {Got(d) : d \in Devices}
BY DEF Unhandled, Got

LEMMA GotFds ==
  ASSUME TypeOK
  PROVE  /\ \A d \in Devices : Got(d) \subseteq Fds
         /\ Unhandled \subseteq Fds
         /\ Range(queue) \subseteq Fds /\ Range(free) \subseteq Fds
<1>1. ASSUME NEW d \in Devices
      PROVE  Got(d) \subseteq Fds
  <2>1. fifo[d] \in Seq(Fds) /\ reg[d] \in Fds \cup {NONE}
    BY DEF TypeOK
  <2> QED
    BY <2>1, ListElements DEF Got
<1>2. Range(queue) \subseteq Fds /\ Range(free) \subseteq Fds
  BY ListElements DEF TypeOK
<1> QED
  BY <1>1, <1>2, UnhandledIs

\* No frame without a payload buffer names one.
LEMMA NoBuffer == Header \notin Buffer /\ Sync \notin Buffer /\ Buffer \subseteq Payload
                  /\ Header \in Payload /\ Sync \in Payload
                  /\ \A b \in Buffer : b.dev \in Devices
BY DEF Header, Sync, Buffer, Payload

\* What a post of a descriptor that is not in the queue does.
LEMMA PostQueues ==
  ASSUME TypeOK, Descriptors, NEW f \in Fds, f \notin Range(queue), NEW d \in Devices,
         NEW payload \in Payload, SAS_ObPost(f, payload, d)
  PROVE  /\ fd' \in [Fds -> [payload : Payload, mid : Devices \cup {NONE}]]
         /\ queue' \in Seq(Fds) /\ IsInjective(queue') /\ Range(queue') = Range(queue) \cup {f}
         /\ \A g \in Range(queue') : fd'[g].mid \in Devices
         /\ lapped' \in BOOLEAN /\ (~lapped' => ~lapped /\ f \notin Unhandled)
         /\ fd'[f].payload = payload /\ fd'[f].mid = d
         /\ \A g \in Fds : g # f => fd'[g] = fd[g]
<1>1. /\ fd' = [fd EXCEPT ![f] = [payload |-> payload, mid |-> d]]
      /\ queue' = Append(queue, f)
      /\ lapped' = (lapped \/ f \in Unhandled)
  BY DEF SAS_ObPost
<1>2. queue' \in Seq(Fds) /\ IsInjective(queue') /\ Range(queue') = Range(queue) \cup {f}
  BY <1>1, GiveBack DEF TypeOK, Descriptors
<1>3. fd' \in [Fds -> [payload : Payload, mid : Devices \cup {NONE}]]
  BY <1>1 DEF TypeOK
<1>4. fd'[f].payload = payload /\ fd'[f].mid = d /\ \A g \in Fds : g # f => fd'[g] = fd[g]
  BY <1>1 DEF TypeOK
<1>5. Range(queue) \subseteq Fds
  BY GotFds
<1>6. \A g \in Range(queue') : fd'[g].mid \in Devices
  BY <1>2, <1>4, <1>5 DEF Descriptors
<1> QED
  BY <1>1, <1>2, <1>3, <1>4, <1>6

LEMMA PostMessages ==
  ASSUME TypeOK, Descriptors, NEW f \in Fds, f \notin Range(queue), NEW d \in Devices,
         NEW payload \in Payload, SAS_ObPost(f, payload, d), UNCHANGED <<fifo, reg>>,
         ~lapped', Messages, payload \in Buffer => payload.dev = d
  PROVE  /\ Messages'
         /\ \A b \in Buffer : Uses(b)' = Uses(b) \cup (IF payload = b THEN {f} ELSE {})
         /\ \A b \in Buffer : f \notin Uses(b)
<1>1. /\ Range(queue') = Range(queue) \cup {f}
      /\ ~lapped /\ f \notin Unhandled
      /\ fd'[f].payload = payload /\ fd'[f].mid = d
      /\ \A g \in Fds : g # f => fd'[g] = fd[g]
  BY PostQueues
<1>2. Unhandled' = Unhandled /\ \A e \in Devices : Got(e)' = Got(e)
  BY DEF Unhandled, Got
<1>3. Unhandled \subseteq Fds /\ Range(queue) \subseteq Fds
  BY GotFds
<1>4. \A g \in Range(queue) \cup Unhandled : g # f /\ fd'[g] = fd[g]
  BY <1>1, <1>3
<1>5. \A e \in Devices : Got(e) \subseteq Unhandled
  BY UnhandledIs
<1>6. \A b \in Buffer : Uses(b)' = Uses(b) \cup (IF payload = b THEN {f} ELSE {})
  BY <1>1, <1>2, <1>4 DEF Uses
<1>7. Messages'
  <2>1. Range(queue') \cap Unhandled' = {}
    BY <1>1, <1>2 DEF Messages
  <2>2. \A e \in Devices : IsInjective(fifo'[e]) /\ reg'[e] \notin Range(fifo'[e])
    BY DEF Messages
  <2>3. \A e \in Devices : \A g \in Got(e)' : fd'[g].mid = e
    BY <1>2, <1>4, <1>5 DEF Messages
  <2>4. \A g \in Range(queue') \cup Unhandled' :
          fd'[g].payload \in Buffer => fd'[g].payload.dev = fd'[g].mid
    BY <1>1, <1>2, <1>4 DEF Messages
  <2> QED
    BY <2>1, <2>2, <2>3, <2>4 DEF Messages
<1>8. \A b \in Buffer : f \notin Uses(b)
  BY <1>4 DEF Uses
<1> QED
  BY <1>6, <1>7, <1>8

\* A post of a frame without a payload buffer changes nothing for the buffers.
LEMMA PostKeepsBuffers ==
  ASSUME TypeOK, Descriptors, NEW f \in Fds, f \notin Range(queue), NEW d \in Devices,
         NEW payload \in {Header, Sync}, SAS_ObPost(f, payload, d),
         UNCHANGED <<fifo, reg, rset, lost>>,
         \A e \in Devices : held'[e] \cap Buffer = held[e] \cap Buffer,
         ~lapped', Messages, BuffersKept
  PROVE  Messages' /\ BuffersKept'
<1>1. payload \notin Buffer /\ payload \in Payload
  BY NoBuffer
<1>2. Messages' /\ \A b \in Buffer : Uses(b)' = Uses(b) \cup (IF payload = b THEN {f} ELSE {})
  BY <1>1, PostMessages
<1>3. \A b \in Buffer : Uses(b)' = Uses(b)
  BY <1>1, <1>2
<1>4. \A b \in Buffer, e \in Devices : b \in held'[e] <=> b \in held[e]
  OBVIOUS
<1>5. \A b \in Buffer : InPlace(b)'
  <2> SUFFICES ASSUME NEW b \in Buffer
               PROVE  InPlace(b)'
    OBVIOUS
  <2>1. b.dev \in Devices
    BY NoBuffer
  <2>2. (b \in held[b.dev])' = (b \in held[b.dev]) /\ Uses(b)' = Uses(b)
    BY <1>3, <1>4, <2>1
  <2>3. InPlace(b)
    BY DEF BuffersKept
  <2> QED
    BY <2>2, <2>3 DEF InPlace, Placed
<1>6. \A b \in Buffer : \A g, h \in Uses(b)' : g = h
  BY <1>3 DEF BuffersKept
<1>7. \A e \in Devices : \A b \in Buffer : b \in rset'[e] \cup held'[e] => b.dev = e
  BY <1>4 DEF BuffersKept
<1> QED
  BY <1>2, <1>5, <1>6, <1>7 DEF BuffersKept

-----------------------------------------------------------------------------
(***************************************************************************)
(* Every step keeps the invariant.                                         *)
(***************************************************************************)
LEMMA SameBuffers ==
  ASSUME IInv, UNCHANGED <<free, fd, rset, queue, fifo, reg, held, lost, lapped>>
  PROVE  Descriptors' /\ (~lapped' => Messages' /\ BuffersKept')
<1>1. Unhandled' = Unhandled /\ \A d \in Devices : Got(d)' = Got(d)
  BY DEF Unhandled, Got
<1>2. \A b : Uses(b)' = Uses(b)
  BY <1>1 DEF Uses
<1>3. Descriptors'
  BY DEF IInv, Descriptors
<1>4. ASSUME ~lapped'
      PROVE  Messages' /\ BuffersKept'
  <2>1. Messages'
    BY <1>1, <1>4 DEF IInv, Messages
  <2>2. \A b \in Buffer : InPlace(b)' /\ \A f, g \in Uses(b)' : f = g
    BY <1>2, <1>4 DEF IInv, BuffersKept, InPlace
  <2>3. BuffersKept'
    BY <1>4, <2>2 DEF IInv, BuffersKept
  <2> QED
    BY <2>1, <2>3
<1> QED
  BY <1>3, <1>4

LEMMA QuietIInv ==
  ASSUME IInv,
         \/ \E d \in Devices : Xaui_TxOpen(d)
         \/ \E d \in Devices : FindsNone(d) \/ SetsFirst(d) \/ StartTask(d)
         \/ Wake
         \/ UNCHANGED vars
  PROVE  IInv'
<1>1. UNCHANGED <<free, fd, rset, queue, fifo, reg, held, lost, lapped>>
  BY DEF Xaui_TxOpen, FindsNone, SetsFirst, StartTask, Wake, vars, client, waiter
<1>2. Descriptors' /\ (~lapped' => Messages' /\ BuffersKept')
  BY <1>1, SameBuffers
<1>3. TypeOK'
  <2>1. TypeOK
    BY DEF IInv
  <2>2. CASE \E d \in Devices : Xaui_TxOpen(d)
    BY <2>1, <2>2 DEF Xaui_TxOpen, waiter, TypeOK
  <2>3. ASSUME NEW d \in Devices, FindsNone(d)
        PROVE  TypeOK'
    BY <2>1, <2>3 DEF FindsNone, waiter, TypeOK
  <2>6. ASSUME NEW d \in Devices, SetsFirst(d)
        PROVE  TypeOK'
    BY <2>1, <2>6, NoneAssumption DEF SetsFirst, waiter, TypeOK
  <2>7. ASSUME NEW d \in Devices, StartTask(d)
        PROVE  TypeOK'
    BY <2>1, <2>7 DEF StartTask, TypeOK
  <2>4. CASE Wake
    BY <2>1, <2>4 DEF Wake, client, TypeOK
  <2>5. CASE UNCHANGED vars
    BY <2>1, <2>5 DEF vars, client, waiter, TypeOK
  <2> QED
    BY <2>2, <2>3, <2>4, <2>5, <2>6, <2>7
<1>4. Registers'
  <2>1. task' = "handle" => task = "handle"
    BY DEF Xaui_TxOpen, FindsNone, SetsFirst, StartTask, Wake, vars, waiter
  <2>2. task = "handle" /\ task' # "handle" => FALSE
    BY DEF Xaui_TxOpen, FindsNone, SetsFirst, StartTask, Wake, vars, waiter, IInv, TypeOK
  <2> QED
    BY <1>1, <2>1, <2>2 DEF IInv, Registers
<1> QED
  BY <1>2, <1>3, <1>4 DEF IInv

\* Taking the head of the free list.
LEMMA FreeHead ==
  ASSUME TypeOK, Descriptors, free # <<>>
  PROVE  /\ Head(free) \in Fds /\ Head(free) \notin Range(queue)
         /\ \A d \in Devices : Head(free) \notin held[d]
         /\ Tail(free) \in Seq(Fds) /\ IsInjective(Tail(free))
         /\ Range(Tail(free)) = Range(free) \ {Head(free)}
         /\ Head(free) \in Range(free)
<1>1. /\ Head(free) \in Fds /\ Head(free) \in Range(free)
      /\ Tail(free) \in Seq(Fds) /\ IsInjective(Tail(free))
      /\ Range(Tail(free)) = Range(free) \ {Head(free)}
  BY TakeHead DEF TypeOK, Descriptors
<1> QED
  BY <1>1 DEF Descriptors

LEMMA SyncIInv ==
  ASSUME IInv, NEW d \in Devices, FindsFirst(d)
  PROVE  IInv'
<1>1. /\ TypeOK /\ Descriptors /\ Registers
      /\ (~lapped => Messages /\ BuffersKept)
  BY DEF IInv
<1>2. /\ state' = [state EXCEPT ![d] = "open"]
      /\ UNCHANGED <<first, task, held, frames, lost, rset, fifo, mask, reg>>
      /\ first \in Devices
  BY <1>1 DEF FindsFirst, waiter, TypeOK
<1>3. CASE free = <<>>
  <2>1. UNCHANGED <<free, fd, queue, lapped>>
    BY <1>3 DEF FindsFirst, _postSync
  <2>2. Descriptors' /\ (~lapped' => Messages' /\ BuffersKept')
    BY <1>2, <2>1, SameBuffers
  <2>3. TypeOK' /\ Registers'
    BY <1>1, <1>2, <2>1 DEF TypeOK, Registers
  <2> QED
    BY <2>2, <2>3 DEF IInv
<1>4. CASE free # <<>>
  <2> DEFINE f == Head(free)
  <2>1. SAS_ObPost(f, Sync, first) /\ free' = Tail(free)
    BY <1>4 DEF FindsFirst, _postSync
  <2>2. /\ f \in Fds /\ f \notin Range(queue) /\ f \in Range(free)
        /\ free' \in Seq(Fds) /\ IsInjective(free') /\ Range(free') = Range(free) \ {f}
        /\ \A e \in Devices : f \notin held[e]
    BY <1>1, <1>4, <2>1, FreeHead
  <2> HIDE DEF f
  <2>3. Sync \in Payload
    BY NoBuffer
  <2>4. /\ fd' \in [Fds -> [payload : Payload, mid : Devices \cup {NONE}]]
        /\ queue' \in Seq(Fds) /\ IsInjective(queue') /\ Range(queue') = Range(queue) \cup {f}
        /\ \A g \in Range(queue') : fd'[g].mid \in Devices
        /\ lapped' \in BOOLEAN /\ (~lapped' => ~lapped)
    BY <1>1, <1>2, <2>1, <2>2, <2>3, PostQueues
  <2>5. TypeOK'
    BY <1>1, <1>2, <2>2, <2>4 DEF TypeOK
  <2>6. Descriptors'
    BY <1>1, <1>2, <2>2, <2>4 DEF Descriptors
  <2>7. ASSUME ~lapped'
        PROVE  Messages' /\ BuffersKept'
    <3>1. Messages /\ BuffersKept
      BY <1>1, <2>4, <2>7
    <3>2. \A e \in Devices : held'[e] \cap Buffer = held[e] \cap Buffer
      BY <1>2
    <3> QED
      BY <1>1, <1>2, <2>1, <2>2, <2>7, <3>1, <3>2, PostKeepsBuffers
  <2>8. Registers'
    BY <1>1, <1>2 DEF Registers
  <2> QED
    BY <2>5, <2>6, <2>7, <2>8 DEF IInv
<1> QED
  BY <1>3, <1>4

LEMMA AllocHeaderIInv ==
  ASSUME IInv, NEW d \in Devices, Xaui_Alloc(d), AllocHeader(d)
  PROVE  IInv'
<1> DEFINE f == Head(free)
<1>1. /\ TypeOK /\ Descriptors /\ Registers
      /\ (~lapped => Messages /\ BuffersKept)
  BY DEF IInv
<1>2. /\ free # <<>> /\ free' = Tail(free) /\ held' = [held EXCEPT ![d] = @ \cup {f}]
      /\ frames < MaxFrames /\ frames' = frames + 1
      /\ UNCHANGED <<rset, state, first, lost, fd, queue, fifo, waiter, lapped>>
  BY DEF Xaui_Alloc, AllocHeader
<1>3. /\ f \in Fds /\ f \notin Range(queue) /\ f \in Range(free)
      /\ free' \in Seq(Fds) /\ IsInjective(free') /\ Range(free') = Range(free) \ {f}
      /\ \A e \in Devices : f \notin held[e]
  BY <1>1, <1>2, FreeHead
<1> HIDE DEF f
<1>4. \A e \in Devices : held'[e] = IF e = d THEN held[d] \cup {f} ELSE held[e]
  BY <1>1, <1>2 DEF TypeOK
<1>5. TypeOK'
  <2>1. frames' \in 0 .. MaxFrames
    BY <1>1, <1>2, MaxFramesAssumption DEF TypeOK
  <2>2. held' \in [Devices -> SUBSET (Fds \cup Buffer)]
    BY <1>1, <1>2, <1>3 DEF TypeOK
  <2> QED
    BY <1>1, <1>2, <1>3, <2>1, <2>2 DEF TypeOK, waiter
<1>6. Descriptors'
  <2>1. \A e \in Devices : held'[e] \cap (Range(free') \cup Range(queue')) = {}
    BY <1>1, <1>2, <1>3, <1>4 DEF Descriptors
  <2>2. \A e, g \in Devices : e # g => held'[e] \cap held'[g] \cap Fds = {}
    BY <1>1, <1>3, <1>4 DEF Descriptors
  <2> QED
    BY <1>1, <1>2, <1>3, <2>1, <2>2 DEF Descriptors
<1>7. ASSUME ~lapped'
      PROVE  Messages' /\ BuffersKept'
  <2>1. Messages /\ BuffersKept
    BY <1>1, <1>2, <1>7
  <2>2. UNCHANGED <<fifo, reg, queue, fd, rset, lost>>
    BY <1>2 DEF waiter
  <2>3. Unhandled' = Unhandled /\ \A e \in Devices : Got(e)' = Got(e)
    BY <2>2 DEF Unhandled, Got
  <2>4. Messages'
    BY <2>1, <2>2, <2>3 DEF Messages
  <2>5. \A b : Uses(b)' = Uses(b)
    BY <2>2, <2>3 DEF Uses
  <2>6. \A b \in Buffer, e \in Devices : b \in held'[e] <=> b \in held[e]
    BY <1>3, <1>4, FdsAssumption
  <2>7. \A b \in Buffer : InPlace(b)'
    <3> SUFFICES ASSUME NEW b \in Buffer
                 PROVE  InPlace(b)'
      OBVIOUS
    <3>1. (b \in held[b.dev])' = (b \in held[b.dev]) /\ Uses(b)' = Uses(b)
      BY <2>5, <2>6, NoBuffer
    <3> QED
      BY <2>1, <2>2, <3>1 DEF BuffersKept, InPlace
  <2>8. BuffersKept'
    BY <2>1, <2>2, <2>5, <2>6, <2>7 DEF BuffersKept
  <2> QED
    BY <2>4, <2>8
<1>8. Registers'
  BY <1>1, <1>2 DEF Registers, waiter
<1> QED
  BY <1>5, <1>6, <1>7, <1>8 DEF IInv

LEMMA AllocPayloadIInv ==
  ASSUME IInv, NEW d \in Devices, Xaui_Alloc(d), AllocPayload(d)
  PROVE  IInv'
<1>1. /\ TypeOK /\ Descriptors /\ Registers
      /\ (~lapped => Messages /\ BuffersKept)
  BY DEF IInv
<1>2. PICK c \in rset[d] :
        /\ rset' = [rset EXCEPT ![d] = @ \ {c}]
        /\ held' = [held EXCEPT ![d] = @ \cup {c}]
        /\ UNCHANGED free
  BY DEF AllocPayload
<1>3. /\ frames < MaxFrames /\ frames' = frames + 1
      /\ UNCHANGED <<state, first, lost, fd, queue, fifo, waiter, lapped>>
  BY DEF Xaui_Alloc
<1>4. c \in Buffer /\ c \notin Fds
  BY <1>1, <1>2, FdsAssumption DEF TypeOK
<1>5. /\ \A e \in Devices : held'[e] = IF e = d THEN held[d] \cup {c} ELSE held[e]
      /\ \A e \in Devices : rset'[e] = IF e = d THEN rset[d] \ {c} ELSE rset[e]
  BY <1>1, <1>2 DEF TypeOK
<1>6. TypeOK'
  <2>1. frames' \in 0 .. MaxFrames
    BY <1>1, <1>3, MaxFramesAssumption DEF TypeOK
  <2>2. /\ held' \in [Devices -> SUBSET (Fds \cup Buffer)]
        /\ rset' \in [Devices -> SUBSET Buffer]
    BY <1>1, <1>2, <1>4 DEF TypeOK
  <2> QED
    BY <1>1, <1>2, <1>3, <2>1, <2>2 DEF TypeOK, waiter
<1>7. Descriptors'
  <2>1. Range(free) \subseteq Fds /\ Range(queue) \subseteq Fds
    BY <1>1, GotFds
  <2>2. \A e \in Devices : held'[e] \cap (Range(free') \cup Range(queue')) = {}
    BY <1>1, <1>2, <1>3, <1>4, <1>5, <2>1 DEF Descriptors
  <2>3. \A e, g \in Devices : e # g => held'[e] \cap held'[g] \cap Fds = {}
    BY <1>1, <1>4, <1>5 DEF Descriptors
  <2> QED
    BY <1>1, <1>2, <1>3, <2>2, <2>3 DEF Descriptors
<1>8. ASSUME ~lapped'
      PROVE  Messages' /\ BuffersKept'
  <2>1. Messages /\ BuffersKept
    BY <1>1, <1>3, <1>8
  <2>2. UNCHANGED <<fifo, reg, queue, fd, lost>>
    BY <1>3 DEF waiter
  <2>3. Unhandled' = Unhandled /\ \A e \in Devices : Got(e)' = Got(e)
    BY <2>2 DEF Unhandled, Got
  <2>4. Messages'
    BY <2>1, <2>2, <2>3 DEF Messages
  <2>5. \A b : Uses(b)' = Uses(b)
    BY <2>2, <2>3 DEF Uses
  <2>6. c.dev = d
    BY <1>2, <1>4, <2>1 DEF BuffersKept
  <2>7. \A b \in Buffer : InPlace(b)'
    <3> SUFFICES ASSUME NEW b \in Buffer
                 PROVE  InPlace(b)'
      OBVIOUS
    <3>1. b.dev \in Devices
      BY NoBuffer
    <3>2. InPlace(b) /\ InPlace(c)
      BY <1>4, <2>1 DEF BuffersKept
    <3>3. CASE b = c
      BY <1>2, <1>5, <2>2, <2>5, <2>6, <3>2, <3>3 DEF InPlace, Placed
    <3>4. CASE b # c
      <4>1. (b \in held[b.dev])' = (b \in held[b.dev]) /\ (b \in rset[b.dev])' = (b \in rset[b.dev])
        BY <1>5, <3>1, <3>4
      <4> QED
        BY <2>2, <2>5, <3>2, <4>1 DEF InPlace
    <3> QED
      BY <3>3, <3>4
  <2>8. BuffersKept'
    BY <1>5, <2>1, <2>2, <2>5, <2>6, <2>7 DEF BuffersKept
  <2> QED
    BY <2>4, <2>8
<1>9. Registers'
  BY <1>1, <1>3 DEF Registers, waiter
<1> QED
  BY <1>6, <1>7, <1>8, <1>9 DEF IInv

LEMMA PostHeaderIInv ==
  ASSUME IInv, NEW d \in Devices, NEW f \in Fds, Xaui_Post(d, f)
  PROVE  IInv'
<1>1. /\ TypeOK /\ Descriptors /\ Registers
      /\ (~lapped => Messages /\ BuffersKept)
  BY DEF IInv
<1>2. /\ f \in held[d] /\ held' = [held EXCEPT ![d] = @ \ {f}] /\ SAS_ObPost(f, Header, d)
      /\ UNCHANGED <<free, lost, state, first, frames, rset, fifo, waiter>>
  BY DEF Xaui_Post, _postHeader
<1>3. f \notin Range(queue) /\ f \notin Range(free) /\ \A e \in Devices : e # d => f \notin held[e]
  BY <1>1, <1>2 DEF Descriptors
<1>4. \A e \in Devices : held'[e] = IF e = d THEN held[d] \ {f} ELSE held[e]
  BY <1>1, <1>2 DEF TypeOK
<1>5. Header \in Payload
  BY NoBuffer
<1>6. /\ fd' \in [Fds -> [payload : Payload, mid : Devices \cup {NONE}]]
      /\ queue' \in Seq(Fds) /\ IsInjective(queue') /\ Range(queue') = Range(queue) \cup {f}
      /\ \A g \in Range(queue') : fd'[g].mid \in Devices
      /\ lapped' \in BOOLEAN /\ (~lapped' => ~lapped)
  BY <1>1, <1>2, <1>3, <1>5, PostQueues
<1>7. TypeOK'
  <2>1. held' \in [Devices -> SUBSET (Fds \cup Buffer)]
    BY <1>1, <1>2 DEF TypeOK
  <2> QED
    BY <1>1, <1>2, <1>6, <2>1 DEF TypeOK, waiter
<1>8. Descriptors'
  <2>1. \A e \in Devices : held'[e] \cap (Range(free') \cup Range(queue')) = {}
    BY <1>1, <1>2, <1>3, <1>4, <1>6 DEF Descriptors
  <2>2. \A e, g \in Devices : e # g => held'[e] \cap held'[g] \cap Fds = {}
    BY <1>1, <1>4 DEF Descriptors
  <2>3. IsInjective(free') /\ Range(free') \cap Range(queue') = {}
    BY <1>1, <1>2, <1>3, <1>6 DEF Descriptors
  <2> QED
    BY <1>6, <2>1, <2>2, <2>3 DEF Descriptors
<1>9. ASSUME ~lapped'
      PROVE  Messages' /\ BuffersKept'
  <2>1. Messages /\ BuffersKept
    BY <1>1, <1>6, <1>9
  <2>2. \A e \in Devices : held'[e] \cap Buffer = held[e] \cap Buffer
    BY <1>4, FdsAssumption
  <2>3. UNCHANGED <<fifo, reg, rset, lost>>
    BY <1>2 DEF waiter
  <2> QED
    BY <1>1, <1>2, <1>3, <1>9, <2>1, <2>2, <2>3, PostKeepsBuffers
<1>10. Registers'
  BY <1>1, <1>2 DEF Registers, waiter
<1> QED
  BY <1>7, <1>8, <1>9, <1>10 DEF IInv

LEMMA PostPayloadIInv ==
  ASSUME IInv, NEW d \in Devices, NEW c \in Buffer, Xaui_Post(d, c)
  PROVE  IInv'
<1>1. /\ TypeOK /\ Descriptors /\ Registers
      /\ (~lapped => Messages /\ BuffersKept)
  BY DEF IInv
<1>2. c \notin Fds
  BY FdsAssumption
<1>3. /\ c \in held[d] /\ held' = [held EXCEPT ![d] = @ \ {c}] /\ _postPayload(d, c)
      /\ UNCHANGED <<state, first, frames, rset, fifo, waiter>>
  BY <1>2 DEF Xaui_Post
<1>4. \A e \in Devices : held'[e] = IF e = d THEN held[d] \ {c} ELSE held[e]
  BY <1>1, <1>3 DEF TypeOK
<1>5. held' \in [Devices -> SUBSET (Fds \cup Buffer)]
  BY <1>1, <1>3 DEF TypeOK
<1>6. ASSUME ~lapped
      PROVE  /\ Messages /\ BuffersKept /\ c.dev = d
             /\ InPlace(c) /\ c \in held[c.dev] /\ Uses(c) = {}
             /\ \A b \in Buffer : b # c => /\ (b \in held[b.dev])' = (b \in held[b.dev])
                                          /\ InPlace(b)
             /\ \A e \in Devices : \A b \in Buffer : b \in rset'[e] \cup held'[e] => b.dev = e
  <2>1. Messages /\ BuffersKept /\ c.dev = d /\ InPlace(c)
    BY <1>1, <1>3, <1>6 DEF BuffersKept
  <2>2. c \in held[c.dev] /\ Uses(c) = {}
    BY <1>3, <2>1 DEF InPlace, Placed
  <2>3. \A b \in Buffer : b # c => (b \in held[b.dev])' = (b \in held[b.dev])
    BY <1>4, NoBuffer
  <2>4. \A e \in Devices : \A b \in Buffer : b \in rset'[e] \cup held'[e] => b.dev = e
    BY <1>3, <1>4, <2>1 DEF BuffersKept
  <2> QED
    BY <2>1, <2>2, <2>3, <2>4 DEF BuffersKept
<1>7. ~(c \in held'[c.dev]) \/ c.dev # d
  BY <1>4
<1>8. Registers'
  BY <1>1, <1>3 DEF Registers, waiter
<1>9. CASE free # <<>>
  <2> DEFINE f == Head(free)
  <2>1. SAS_ObPost(f, c, d) /\ free' = Tail(free) /\ UNCHANGED lost
    BY <1>3, <1>9 DEF _postPayload
  <2>2. /\ f \in Fds /\ f \notin Range(queue) /\ f \in Range(free)
        /\ free' \in Seq(Fds) /\ IsInjective(free') /\ Range(free') = Range(free) \ {f}
        /\ \A e \in Devices : f \notin held[e]
    BY <1>1, <1>9, <2>1, FreeHead
  <2> HIDE DEF f
  <2>3. c \in Payload
    BY NoBuffer
  <2>4. /\ fd' \in [Fds -> [payload : Payload, mid : Devices \cup {NONE}]]
        /\ queue' \in Seq(Fds) /\ IsInjective(queue') /\ Range(queue') = Range(queue) \cup {f}
        /\ \A g \in Range(queue') : fd'[g].mid \in Devices
        /\ lapped' \in BOOLEAN /\ (~lapped' => ~lapped)
    BY <1>1, <2>1, <2>2, <2>3, PostQueues
  <2>5. TypeOK'
    BY <1>1, <1>3, <1>5, <2>1, <2>2, <2>4 DEF TypeOK, waiter
  <2>6. Descriptors'
    <3>1. \A e \in Devices : held'[e] \cap (Range(free') \cup Range(queue')) = {}
      BY <1>1, <1>4, <2>2, <2>4 DEF Descriptors
    <3>2. \A e, g \in Devices : e # g => held'[e] \cap held'[g] \cap Fds = {}
      BY <1>1, <1>4 DEF Descriptors
    <3>3. Range(free') \cap Range(queue') = {}
      BY <1>1, <2>2, <2>4 DEF Descriptors
    <3> QED
      BY <2>2, <2>4, <3>1, <3>2, <3>3 DEF Descriptors
  <2>7. ASSUME ~lapped'
        PROVE  Messages' /\ BuffersKept'
    <3>1. ~lapped
      BY <2>4, <2>7
    <3>2. UNCHANGED <<fifo, reg, rset, lost>>
      BY <1>3, <2>1 DEF waiter
    <3>3. /\ Messages'
          /\ \A b \in Buffer : Uses(b)' = Uses(b) \cup (IF c = b THEN {f} ELSE {})
      BY <1>1, <1>6, <2>1, <2>2, <2>3, <2>7, <3>1, <3>2, PostMessages
    <3>4. ASSUME NEW b \in Buffer
          PROVE  InPlace(b)' /\ \A g, h \in Uses(b)' : g = h
      <4>1. CASE b = c
        <5>1. Uses(b)' = {f}
          BY <1>6, <3>1, <3>3, <4>1
        <5>2. c \notin rset[c.dev] /\ c \notin lost /\ ~(c \in held'[c.dev])
          BY <1>6, <1>7, <3>1 DEF InPlace, Placed
        <5> QED
          BY <3>2, <4>1, <5>1, <5>2 DEF InPlace, Placed
      <4>2. CASE b # c
        <5>1. Uses(b)' = Uses(b)
          BY <3>3, <4>2
        <5>2. (b \in held[b.dev])' = (b \in held[b.dev]) /\ InPlace(b)
          BY <1>6, <3>1, <4>2
        <5>3. \A g, h \in Uses(b) : g = h
          BY <1>6, <3>1 DEF BuffersKept
        <5> QED
          BY <3>2, <5>1, <5>2, <5>3 DEF InPlace
      <4> QED
        BY <4>1, <4>2
    <3> QED
      BY <1>6, <3>1, <3>3, <3>4 DEF BuffersKept
  <2> QED
    BY <1>8, <2>5, <2>6, <2>7 DEF IInv
<1>10. CASE free = <<>>
  <2>1. lost' = lost \cup {c} /\ UNCHANGED <<free, fd, queue, lapped>>
    BY <1>3, <1>10 DEF _postPayload
  <2>2. TypeOK'
    BY <1>1, <1>3, <1>5, <2>1 DEF TypeOK, waiter
  <2>3. Descriptors'
    BY <1>1, <1>4, <2>1 DEF Descriptors
  <2>4. ASSUME ~lapped'
        PROVE  Messages' /\ BuffersKept'
    <3>1. ~lapped /\ UNCHANGED <<fifo, reg, rset, fd, queue>>
      BY <1>3, <2>1, <2>4 DEF waiter
    <3>2. Unhandled' = Unhandled /\ \A e \in Devices : Got(e)' = Got(e)
      BY <3>1 DEF Unhandled, Got
    <3>3. Messages' /\ \A b : Uses(b)' = Uses(b)
      BY <1>6, <3>1, <3>2 DEF Messages, Uses
    <3>4. ASSUME NEW b \in Buffer
          PROVE  InPlace(b)' /\ \A g, h \in Uses(b)' : g = h
      <4>1. CASE b = c
        <5>1. Uses(b)' = {} /\ c \notin rset[c.dev] /\ ~(c \in held'[c.dev]) /\ c \in lost'
          BY <1>6, <1>7, <2>1, <3>1, <3>3, <4>1 DEF InPlace, Placed
        <5> QED
          BY <3>1, <4>1, <5>1 DEF InPlace, Placed
      <4>2. CASE b # c
        <5>1. (b \in held[b.dev])' = (b \in held[b.dev]) /\ InPlace(b)
          BY <1>6, <3>1, <4>2
        <5>2. \A g, h \in Uses(b) : g = h
          BY <1>6, <3>1 DEF BuffersKept
        <5>3. (b \in lost') = (b \in lost)
          BY <2>1, <4>2
        <5> QED
          BY <3>1, <3>3, <5>1, <5>2, <5>3 DEF InPlace
      <4> QED
        BY <4>1, <4>2
    <3> QED
      BY <1>6, <3>1, <3>3, <3>4 DEF BuffersKept
  <2> QED
    BY <1>8, <2>2, <2>3, <2>4 DEF IInv
<1> QED
  BY <1>9, <1>10

LEMMA SendIInv ==
  ASSUME IInv, Send
  PROVE  IInv'
<1> DEFINE f == Head(queue)
           m == fd[f].mid
<1>1. /\ TypeOK /\ Descriptors /\ Registers
      /\ (~lapped => Messages /\ BuffersKept)
  BY DEF IInv
<1>2. /\ queue # <<>> /\ queue' = Tail(queue) /\ free' = Append(free, f)
      /\ fifo' = [fifo EXCEPT ![m] = Append(@, f)]
      /\ UNCHANGED <<client, fd, rset, waiter, lapped>>
  BY DEF Send
<1>3. /\ f \in Fds /\ f \in Range(queue) /\ queue' \in Seq(Fds) /\ IsInjective(queue')
      /\ Range(queue') = Range(queue) \ {f}
  BY <1>1, <1>2, TakeHead DEF TypeOK, Descriptors
<1>4. f \notin Range(free) /\ m \in Devices
  BY <1>1, <1>3 DEF Descriptors
<1>5. free' \in Seq(Fds) /\ Range(free') = Range(free) \cup {f} /\ IsInjective(free')
  BY <1>1, <1>2, <1>3, <1>4, GiveBack DEF TypeOK, Descriptors
<1> HIDE DEF f, m
<1>6. /\ \A d \in Devices : fifo'[d] = IF d = m THEN Append(fifo[m], f) ELSE fifo[d]
      /\ \A d \in Devices : fifo[d] \in Seq(Fds)
  BY <1>1, <1>2 DEF TypeOK
<1>7. /\ fifo'[m] \in Seq(Fds) /\ Range(fifo'[m]) = Range(fifo[m]) \cup {f}
      /\ (IsInjective(fifo[m]) /\ f \notin Range(fifo[m]) => IsInjective(fifo'[m]))
  <2>1. fifo[m] \in Seq(Fds) /\ fifo'[m] = Append(fifo[m], f)
    BY <1>4, <1>6
  <2> DEFINE q == fifo[m]
  <2>2. q \in Seq(Fds)
    BY <2>1
  <2> HIDE DEF q
  <2>3. /\ Append(q, f) \in Seq(Fds) /\ Range(Append(q, f)) = Range(q) \cup {f}
        /\ (IsInjective(q) /\ f \notin Range(q) => IsInjective(Append(q, f)))
    BY <1>3, <2>2, GiveBack
  <2> QED
    BY <2>1, <2>3 DEF q
<1>8. TypeOK'
  <2>1. fifo' \in [Devices -> Seq(Fds)]
    BY <1>1, <1>2, <1>6, <1>7 DEF TypeOK
  <2> QED
    BY <1>1, <1>2, <1>3, <1>5, <2>1 DEF TypeOK, client, waiter
<1>9. Descriptors'
  <2>1. Range(free') \cap Range(queue') = {}
    BY <1>1, <1>3, <1>5 DEF Descriptors
  <2>2. \A e \in Devices : held'[e] \cap (Range(free') \cup Range(queue')) = {}
    BY <1>1, <1>2, <1>3, <1>5 DEF Descriptors, client
  <2> QED
    BY <1>1, <1>2, <1>3, <1>5, <2>1, <2>2 DEF Descriptors, client
<1>10. ASSUME ~lapped'
       PROVE  Messages' /\ BuffersKept'
  <2>1. ~lapped /\ Messages /\ BuffersKept
    BY <1>1, <1>2, <1>10
  <2>2. /\ UNCHANGED <<fd, rset, reg, held, lost>>
    BY <1>2 DEF client, waiter
  <2>3. \A d \in Devices : Got(d)' = Got(d) \cup (IF d = m THEN {f} ELSE {})
    BY <1>6, <1>7, <2>2 DEF Got
  <2>4. Unhandled' = Unhandled \cup {f}
    <3>1. Unhandled' = UNION {Got(d)' : d \in Devices}
      BY DEF Unhandled, Got
    <3> QED
      BY <1>4, <2>3, <3>1, UnhandledIs
  <2>5. f \notin Unhandled
    BY <1>3, <2>1 DEF Messages
  <2>6. f \notin Got(m)
    BY <1>4, <2>5, UnhandledIs
  <2>7. Messages'
    <3>1. Range(queue') \cap Unhandled' = {}
      BY <1>3, <2>1, <2>4 DEF Messages
    <3>2. \A d \in Devices : IsInjective(fifo'[d]) /\ reg'[d] \notin Range(fifo'[d])
      <4>1. f # NONE
        BY <1>3, NoneAssumption
      <4> QED
        BY <1>4, <1>6, <1>7, <2>1, <2>2, <2>6, <4>1 DEF Messages, Got
    <3>3. \A d \in Devices : \A g \in Got(d)' : fd'[g].mid = d
      BY <2>1, <2>2, <2>3 DEF Messages, m
    <3>4. Range(queue') \cup Unhandled' = Range(queue) \cup Unhandled
      BY <1>3, <2>4
    <3> QED
      BY <2>1, <2>2, <3>1, <3>2, <3>3, <3>4 DEF Messages
  <2>8. \A b : Uses(b)' = Uses(b)
    <3>1. Range(queue') \cup Unhandled' = Range(queue) \cup Unhandled
      BY <1>3, <2>4
    <3> QED
      BY <2>2, <3>1 DEF Uses
  <2>9. BuffersKept'
    BY <2>1, <2>2, <2>8 DEF BuffersKept, InPlace
  <2> QED
    BY <2>7, <2>9
<1>11. Registers'
  BY <1>1, <1>2 DEF Registers, waiter
<1> QED
  BY <1>8, <1>9, <1>10, <1>11 DEF IInv

LEMMA LoadIInv ==
  ASSUME IInv, Load
  PROVE  IInv'
<1> DEFINE ready == {d \in Enabled : fifo[d] # <<>>}
<1>1. /\ TypeOK /\ Descriptors /\ Registers
      /\ (~lapped => Messages /\ BuffersKept)
  BY DEF IInv
<1>2. /\ task = "pass" /\ mask' = Enabled
      /\ reg' = [d \in Devices |-> IF d \in ready THEN Head(fifo[d]) ELSE NONE]
      /\ fifo' = [d \in Devices |-> IF d \in ready THEN Tail(fifo[d]) ELSE fifo[d]]
      /\ task' = IF ready = {} THEN "blocked" ELSE "handle"
      /\ UNCHANGED <<client, free, fd, rset, queue, lapped>>
  BY DEF Load
<1>3. \A d \in Devices : fifo[d] \in Seq(Fds) /\ reg[d] = NONE
  BY <1>1, <1>2 DEF TypeOK, Registers
<1>4. ASSUME NEW d \in Devices
      PROVE  /\ fifo'[d] \in Seq(Fds) /\ reg'[d] \in Fds \cup {NONE}
             /\ IsInjective(fifo[d]) =>
                  /\ IsInjective(fifo'[d]) /\ reg'[d] \notin Range(fifo'[d])
                  /\ Got(d)' = Got(d)
  <2> DEFINE q == fifo[d]
  <2>1. q \in Seq(Fds) /\ Got(d) = Range(q)
    BY <1>3 DEF Got
  <2>2. CASE d \in ready
    <3>1. fifo'[d] = Tail(q) /\ reg'[d] = Head(q) /\ q # <<>>
      BY <1>2, <2>2
    <3> HIDE DEF q, ready
    <3>2. Tail(q) \in Seq(Fds) /\ Head(q) \in Fds
      BY <2>1, <3>1, ListTail
    <3>3. ASSUME IsInjective(q)
          PROVE  /\ IsInjective(Tail(q)) /\ Range(Tail(q)) = Range(q) \ {Head(q)}
                 /\ Head(q) \in Range(q)
      BY <2>1, <3>1, <3>3, TakeHead
    <3>4. Head(q) # NONE
      BY <3>2, NoneAssumption
    <3>5. Got(d)' = Range(Tail(q)) \cup {Head(q)}
      BY <3>1, <3>4 DEF Got
    <3> QED
      BY <2>1, <3>1, <3>2, <3>3, <3>5 DEF q
  <2>3. CASE d \notin ready
    <3>1. fifo'[d] = q /\ reg'[d] = NONE
      BY <1>2, <2>3
    <3> HIDE DEF q, ready
    <3>2. NONE \notin Range(q)
      BY <2>1, ListElements, NoneAssumption
    <3>3. Got(d)' = Range(q)
      BY <3>1 DEF Got
    <3> QED
      BY <2>1, <3>1, <3>2, <3>3 DEF q
  <2> QED
    BY <2>2, <2>3
<1>5. TypeOK'
  <2>1. task' \in {"none", "pass", "handle", "blocked"} /\ task # "none" /\ task' # "none"
    BY <1>2
  <2>2. mask' \subseteq Devices
    BY <1>2 DEF Enabled
  <2>3. fifo' \in [Devices -> Seq(Fds)] /\ reg' \in [Devices -> Fds \cup {NONE}]
    <3>1. /\ fifo' = [d \in Devices |-> fifo'[d]] /\ reg' = [d \in Devices |-> reg'[d]]
      BY <1>2
    <3> QED
      BY <1>4, <3>1
  <2> QED
    BY <1>1, <1>2, <2>1, <2>2, <2>3 DEF TypeOK, client
<1>6. Descriptors'
  BY <1>1, <1>2 DEF Descriptors, client
<1>7. Registers'
  BY <1>2 DEF Registers
<1>8. ASSUME ~lapped'
      PROVE  Messages' /\ BuffersKept'
  <2>1. Messages /\ BuffersKept /\ UNCHANGED <<queue, fd, rset, held, lost>>
    BY <1>1, <1>2, <1>8 DEF client
  <2>2. \A d \in Devices : /\ IsInjective(fifo'[d]) /\ reg'[d] \notin Range(fifo'[d])
                           /\ Got(d)' = Got(d)
    BY <1>4, <2>1 DEF Messages
  <2>3. Unhandled' = Unhandled
    <3>1. Unhandled' = UNION {Got(d)' : d \in Devices}
      BY DEF Unhandled, Got
    <3> QED
      BY <2>2, <3>1, UnhandledIs
  <2>4. Messages' /\ \A b : Uses(b)' = Uses(b)
    BY <2>1, <2>2, <2>3 DEF Messages, Uses
  <2>5. BuffersKept'
    BY <2>1, <2>4 DEF BuffersKept, InPlace
  <2> QED
    BY <2>4, <2>5
<1> QED
  BY <1>5, <1>6, <1>7, <1>8 DEF IInv

LEMMA RundownIInv ==
  ASSUME IInv, NEW d \in Devices, _rundown(d)
  PROVE  IInv'
<1> DEFINE f == reg[d]
<1>1. /\ TypeOK /\ Descriptors /\ Registers
      /\ (~lapped => Messages /\ BuffersKept)
  BY DEF IInv
<1>2. /\ task = "handle" /\ f # NONE
      /\ rset' = [rset EXCEPT ![d] = @ \cup Freed(f)]
      /\ reg' = [reg EXCEPT ![d] = NONE]
      /\ task' = IF \A e \in Devices \ {d} : reg[e] = NONE THEN "pass" ELSE "handle"
      /\ UNCHANGED <<client, free, fd, queue, fifo, mask, lapped>>
  BY DEF _rundown
<1>3. f \in Fds /\ Freed(f) \subseteq Buffer
  BY <1>1, <1>2 DEF TypeOK, Freed
<1>4. \A e \in Devices : /\ rset'[e] = IF e = d THEN rset[d] \cup Freed(f) ELSE rset[e]
                         /\ reg'[e] = IF e = d THEN NONE ELSE reg[e]
  BY <1>1, <1>2 DEF TypeOK
<1>5. TypeOK'
  <2>1. task' \in {"none", "pass", "handle", "blocked"} /\ task # "none" /\ task' # "none"
    BY <1>2
  <2>2. rset' \in [Devices -> SUBSET Buffer] /\ reg' \in [Devices -> Fds \cup {NONE}]
    BY <1>1, <1>2, <1>3 DEF TypeOK
  <2> QED
    BY <1>1, <1>2, <2>1, <2>2 DEF TypeOK, client
<1>6. Descriptors'
  BY <1>1, <1>2 DEF Descriptors, client
<1>7. Registers'
  BY <1>2, <1>4 DEF Registers
<1>8. ASSUME ~lapped'
      PROVE  Messages' /\ BuffersKept'
  <2>1. Messages /\ BuffersKept /\ UNCHANGED <<queue, fd, fifo, held, lost>>
    BY <1>1, <1>2, <1>8 DEF client
  <2>2. f \in Got(d) /\ f \notin Range(fifo[d]) /\ fd[f].mid = d
    BY <1>2, <2>1 DEF Messages, Got
  <2>3. \A e \in Devices : Got(e)' = Got(e) \ {f}
    <3> SUFFICES ASSUME NEW e \in Devices
                 PROVE  Got(e)' = Got(e) \ {f}
      OBVIOUS
    <3>1. CASE e = d
      <4>1. Got(d) = Range(fifo[d]) \cup {f} /\ Got(d)' = Range(fifo[d])
        BY <1>2, <1>4, <2>1 DEF Got
      <4> QED
        BY <2>2, <3>1, <4>1
    <3>2. CASE e # d
      <4>1. Got(e)' = Got(e)
        BY <1>4, <2>1, <3>2 DEF Got
      <4>2. f \notin Got(e)
        BY <2>1, <2>2, <3>2 DEF Messages
      <4> QED
        BY <4>1, <4>2
    <3> QED
      BY <3>1, <3>2
  <2>4. Unhandled' = Unhandled \ {f}
    <3>1. Unhandled' = UNION {Got(e)' : e \in Devices}
      BY DEF Unhandled, Got
    <3> QED
      BY <2>3, <3>1, UnhandledIs
  <2>5. f \in Unhandled /\ f \notin Range(queue)
    BY <2>1, <2>2, UnhandledIs DEF Messages
  <2>6. Messages'
    <3>1. \A e \in Devices : IsInjective(fifo'[e]) /\ reg'[e] \notin Range(fifo'[e])
      <4>1. \A e \in Devices : NONE \notin Range(fifo[e])
        BY <1>1, ListElements, NoneAssumption DEF TypeOK
      <4> QED
        BY <1>4, <2>1, <4>1 DEF Messages
    <3>2. \A e \in Devices : \A g \in Got(e)' : fd'[g].mid = e
      BY <2>1, <2>3 DEF Messages
    <3>3. Range(queue') \cap Unhandled' = {}
      BY <2>1, <2>4 DEF Messages
    <3>4. \A g \in Range(queue') \cup Unhandled' :
            fd'[g].payload \in Buffer => fd'[g].payload.dev = fd'[g].mid
      BY <2>1, <2>4 DEF Messages
    <3> QED
      BY <3>1, <3>2, <3>3, <3>4 DEF Messages
  <2>7. \A b \in Buffer : Uses(b)' = Uses(b) \ {f}
    BY <2>1, <2>4, <2>5 DEF Uses
  <2>8. \A b \in Freed(f) : b \in Buffer /\ b = fd[f].payload /\ b.dev = d /\ f \in Uses(b)
    BY <2>1, <2>2, <2>5 DEF Freed, Messages, Uses
  <2>9. \A e \in Devices : \A b \in Buffer : b \in rset'[e] \cup held'[e] => b.dev = e
    BY <1>4, <2>1, <2>8 DEF BuffersKept
  <2>10. ASSUME NEW b \in Buffer
         PROVE  InPlace(b)' /\ \A g, h \in Uses(b)' : g = h
    <3>1. InPlace(b) /\ (\A g, h \in Uses(b) : g = h) /\ b.dev \in Devices
      BY <2>1, NoBuffer DEF BuffersKept
    <3>2. CASE b \in Freed(f)
      <4>1. Uses(b)' = {} /\ Uses(b) # {} /\ b.dev = d
        BY <2>7, <2>8, <3>1, <3>2
      <4>2. b \in rset'[b.dev]
        BY <1>4, <3>1, <3>2, <4>1
      <4>3. b \notin held[b.dev] /\ b \notin lost
        BY <3>1, <4>1 DEF InPlace, Placed
      <4> QED
        BY <2>1, <4>1, <4>2, <4>3 DEF InPlace, Placed
    <3>3. CASE b \notin Freed(f)
      <4>1. f \notin Uses(b)
        BY <3>3 DEF Freed, Uses
      <4>2. Uses(b)' = Uses(b) /\ (b \in rset'[b.dev]) = (b \in rset[b.dev])
        BY <1>4, <2>7, <3>1, <3>3, <4>1
      <4> QED
        BY <2>1, <3>1, <4>2 DEF InPlace
    <3> QED
      BY <3>2, <3>3
  <2> QED
    BY <2>6, <2>9, <2>10 DEF BuffersKept
<1> QED
  BY <1>5, <1>6, <1>7, <1>8 DEF IInv

LEMMA InitIInv ==
  ASSUME Init
  PROVE  IInv
<1>1. /\ free \in Seq(Fds) /\ IsInjective(free) /\ Range(free) = Fds
  BY SetToSeqLists, FdsAssumption DEF Init
<1>2. /\ queue = <<>> /\ \A d \in Devices : fifo[d] = <<>> /\ reg[d] = NONE
  BY DEF Init
<1>3. Range(queue) = {} /\ \A d \in Devices : Got(d) = {} /\ Range(fifo[d]) = {}
  BY <1>2 DEF Range, Got
<1>4. Unhandled = {}
  BY <1>3, UnhandledIs
<1>5. TypeOK
  <2>1. state \in [Devices -> {"closed", "enabled", "open"}]
    BY DEF Init
  <2>2. fd \in [Fds -> [payload : Payload, mid : Devices \cup {NONE}]]
    BY NoBuffer DEF Init
  <2>3. fifo \in [Devices -> Seq(Fds)] /\ queue \in Seq(Fds)
    BY DEF Init
  <2>4. frames \in 0 .. MaxFrames
    BY MaxFramesAssumption DEF Init
  <2>5. /\ rset \in [Devices -> SUBSET Buffer] /\ held \in [Devices -> SUBSET (Fds \cup Buffer)]
        /\ reg \in [Devices -> Fds \cup {NONE}]
    BY DEF Init
  <2> QED
    BY <1>1, <2>1, <2>2, <2>3, <2>4, <2>5 DEF Init, TypeOK
<1>6. Descriptors
  BY <1>1, <1>2, <1>3 DEF Init, Descriptors, IsInjective
<1>7. Registers
  BY <1>2 DEF Registers
<1>8. Messages
  <2>1. \A d \in Devices : IsInjective(fifo[d])
    BY <1>2 DEF IsInjective
  <2> QED
    BY <1>3, <1>4, <2>1 DEF Messages
<1>9. \A b \in Buffer : Uses(b) = {}
  BY <1>3, <1>4 DEF Uses
<1>10. \A b \in Buffer : b \in rset[b.dev] /\ b \notin held[b.dev] /\ b \notin lost
  BY NoBuffer DEF Init
<1>11. BuffersKept
  BY <1>9, <1>10 DEF Init, BuffersKept, InPlace, Placed
<1> QED
  BY <1>5, <1>6, <1>7, <1>8, <1>11 DEF IInv

LEMMA StepIInv ==
  ASSUME IInv, [Next]_vars
  PROVE  IInv'
<1>1. ASSUME NEW d \in Devices, Opening(d)
      PROVE  IInv'
  BY <1>1, QuietIInv, SyncIInv DEF Opening
<1>2. ASSUME NEW d \in Devices, Xaui_Alloc(d)
      PROVE  IInv'
  BY <1>2, AllocHeaderIInv, AllocPayloadIInv DEF Xaui_Alloc
<1>3. ASSUME NEW d \in Devices, NEW h \in Fds \cup Buffer, Xaui_Post(d, h)
      PROVE  IInv'
  BY <1>3, PostHeaderIInv, PostPayloadIInv
<1>4. CASE UNCHANGED vars
  BY <1>4, QuietIInv
<1> QED
  BY <1>1, <1>2, <1>3, <1>4, QuietIInv, SendIInv, LoadIInv, RundownIInv DEF Next, Task

LEMMA Invariance == Spec => []IInv
BY InitIInv, StepIInv, PTL DEF Spec

-----------------------------------------------------------------------------
(***************************************************************************)
(* The theorems.                                                           *)
(***************************************************************************)
\* Every variable keeps its range, and _context->mbx is set before the task starts,
\* in whatever order threads are in Xaui_TxOpen.
THEOREM TypeCorrect == Spec => []TypeOK
<1>1. IInv => TypeOK
  BY DEF IInv
<1> QED
  BY Invariance, <1>1, PTL

\* Until a descriptor is written before its message is handled, every buffer is in
\* one place, however many devices, descriptors and buffers there are: _rundown
\* frees none of a frame still to be sent, and none twice.
THEOREM BuffersApart == Spec => []BufferInOnePlace
<1>1. ASSUME IInv
      PROVE  BufferInOnePlace
  <2> SUFFICES ASSUME ~lapped, NEW b \in Buffer
               PROVE  Cardinality({d \in Devices : b \in rset[d]})
                        + Cardinality({d \in Devices : b \in held[d]})
                        + Cardinality({b} \cap lost) + Cardinality(Uses(b)) = 1
    BY DEF BufferInOnePlace
  <2>1. /\ BuffersKept /\ InPlace(b) /\ b.dev \in Devices
        /\ \A f, g \in Uses(b) : f = g
    BY <1>1, NoBuffer DEF IInv, BuffersKept
  <2>2. /\ {d \in Devices : b \in rset[d]} = IF b \in rset[b.dev] THEN {b.dev} ELSE {}
        /\ {d \in Devices : b \in held[d]} = IF b \in held[b.dev] THEN {b.dev} ELSE {}
        /\ {b} \cap lost = IF b \in lost THEN {b} ELSE {}
    BY <2>1 DEF BuffersKept
  <2>3. Uses(b) = {} \/ \E f : Uses(b) = {f}
    BY <2>1
  <2>4. /\ Cardinality({}) = 0
        /\ \A x : Cardinality({x}) = 1
    BY FS_EmptySet, FS_Singleton
  <2>5. /\ Cardinality({d \in Devices : b \in rset[d]}) = IF b \in rset[b.dev] THEN 1 ELSE 0
        /\ Cardinality({d \in Devices : b \in held[d]}) = IF b \in held[b.dev] THEN 1 ELSE 0
        /\ Cardinality({b} \cap lost) = IF b \in lost THEN 1 ELSE 0
    BY <2>2, <2>4
  <2>6. Cardinality(Uses(b)) = IF Uses(b) # {} THEN 1 ELSE 0
    BY <2>3, <2>4
  <2> QED
    BY <2>1, <2>5, <2>6 DEF InPlace, Placed
<1> QED
  BY Invariance, <1>1, PTL

=============================================================================
