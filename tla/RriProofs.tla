------------------------------- MODULE RriProofs -------------------------------
(***************************************************************************)
(* Theorems about Rri for every number of clients, mailboxes, frames,      *)
(* descriptors and requests.                                               *)
(***************************************************************************)
EXTENDS Rri, SequencesExt, SequenceTheorems, FiniteSetTheorems, TLAPS

\* The elements of a list, of its tail and of a longer one.
LEMMA ListElements ==
  ASSUME NEW S, NEW q \in Seq(S)
  PROVE  /\ Range(q) \subseteq S
         /\ q # <<>> => Head(q) \in Range(q) /\ Tail(q) \in Seq(S) /\ Range(Tail(q)) \subseteq Range(q)
         /\ \A e \in S : Append(q, e) \in Seq(S) /\ Range(Append(q, e)) = Range(q) \cup {e}
<1>1. Range(q) \subseteq S
  BY RangeOfSeq
<1>2. ASSUME q # <<>>
      PROVE  Head(q) \in Range(q) /\ Tail(q) \in Seq(S) /\ Range(Tail(q)) \subseteq Range(q)
  BY <1>2, HeadTailProperties DEF Range
<1>3. ASSUME NEW e \in S
      PROVE  Append(q, e) \in Seq(S) /\ Range(Append(q, e)) = Range(q) \cup {e}
  BY AppendProperties DEF Range
<1> QED
  BY <1>1, <1>2, <1>3

-----------------------------------------------------------------------------
\* Every session is free, with a client, or lost by RRI_OpenFails.
Opened == {c \in Clients : device[c] # NONE}

Accounted == IsFiniteSet(Opened) /\ sessions + Cardinality(Opened) <= NumSessions

\* What a client knows of its synchronous call.
Calling ==
  \A c \in Clients :
    /\ want[c] # 0 => pc[c] = "sync"
    /\ since[c] <= calls

\* Nothing is under way for a mailbox that is free, and only requests of its
\* client for one that is not, unless it was closed too early once.
Clean ==
  /\ \A b \in freeMbx \ dirty : Pending(b) = {}
  /\ \A c \in Clients :
       device[c] \in Mailboxes \ dirty => \A r \in Pending(device[c]) : r.id > since[c]

\* The synchronous call waits for the only request under way.
Alone ==
  \A c \in Clients :
    (device[c] \in Mailboxes \ dirty /\ want[c] # 0)
      => \A r \in Pending(device[c]) : r.id = want[c]

IInv == TypeOK /\ Accounted /\ Calling /\ FrameKeptOnce /\ Clean /\ Alone

\* The steps of Next, client by client.
ClientStep(c) ==
  \/ \E b \in Mailboxes : RRI_Open(c, b)
  \/ RRI_OpenFails(c) \/ RRI_Bind(c) \/ RRI_Close(c)
  \/ RRI_Post(c) \/ RRI_Wait(c) \/ RRI_Read(c)
  \/ Return(c) \/ WaitOn(c)

-----------------------------------------------------------------------------
\* Only _post adds to what is under way, and only for the mailbox of its client.
LEMMA PendingPosted ==
  ASSUME TypeOK, NEW c \in Clients, Idle(c), _post(c), UNCHANGED <<wire, inbound, fifo>>
  PROVE  \A b \in Mailboxes :
           Pending(b)' \subseteq Pending(b) \cup (IF b = device[c] THEN {Request(c)} ELSE {})
<1>1. Request(c) \in Requests /\ Request(c).mbx = device[c]
  BY MaxRequestsAssumption DEF TypeOK, Idle, _post, Request, Requests
<1>2. Range(outbound') \subseteq Range(outbound) \cup {Request(c)}
  <2>1. outbound \in Seq(Requests) /\ outbound' \in {outbound, Append(outbound, Request(c))}
    BY DEF TypeOK, _post
  <2> QED
    BY <1>1, <2>1, ListElements
<1>3. \A b \in Mailboxes : {m.req : m \in Range(fifo[b])}' = {m.req : m \in Range(fifo[b])}
  OBVIOUS
<1> QED
  BY <1>1, <1>2, <1>3 DEF Pending

LEMMA PendingShrinks ==
  ASSUME TypeOK,
         \/ Send
         \/ \E r \in wire : Answer(r) \/ Lose(r)
         \/ RRI_ForkFree
         \/ \E f \in Frames : RRI_Fork(f)
         \/ \E c \in Clients : device[c] # NONE /\ _wait(c) /\ UNCHANGED netVars
         \/ UNCHANGED <<netVars, fifo>>
  PROVE  \A b \in Mailboxes : Pending(b)' \subseteq Pending(b)
<1>1. CASE Send
  <2>1. Head(outbound) \in Range(outbound) /\ Range(outbound') \subseteq Range(outbound)
    BY <1>1, ListElements DEF TypeOK, Send
  <2> QED
    BY <1>1, <2>1 DEF Send, Pending
<1>2. ASSUME NEW r \in wire, Answer(r)
      PROVE  \A b \in Mailboxes : Pending(b)' \subseteq Pending(b)
  <2>1. r \in Requests /\ Range(inbound') = Range(inbound) \cup {r}
    BY <1>2, ListElements DEF TypeOK, Answer
  <2> QED
    BY <1>2, <2>1 DEF Answer, Pending
<1>3. ASSUME NEW r \in wire, Lose(r)
      PROVE  \A b \in Mailboxes : Pending(b)' \subseteq Pending(b)
  BY <1>3 DEF Lose, Pending
<1>4. CASE RRI_ForkFree
  <2>1. Range(inbound') \subseteq Range(inbound)
    BY <1>4, ListElements DEF TypeOK, RRI_ForkFree
  <2> QED
    BY <1>4, <2>1 DEF RRI_ForkFree, Pending
<1>5. ASSUME NEW f \in Frames, RRI_Fork(f)
      PROVE  \A b \in Mailboxes : Pending(b)' \subseteq Pending(b)
  <2> DEFINE r == Head(inbound)
  <2> DEFINE m == [req |-> r, frame |-> f]
  <2>1. r \in Range(inbound) /\ Range(inbound') \subseteq Range(inbound)
    BY <1>5, ListElements DEF TypeOK, RRI_Fork
  <2>2. r \in Requests /\ r.mbx \in Mailboxes /\ m \in Messages /\ m.req = r
    <3>1. r \in Requests
      BY <2>1, ListElements DEF TypeOK
    <3> HIDE DEF r
    <3>2. r.mbx \in Mailboxes
      BY <3>1 DEF Requests
    <3> QED
      BY <3>1, <3>2 DEF Messages
  <2>3. fifo' = [fifo EXCEPT ![r.mbx] = Append(@, m)]
    BY <1>5 DEF RRI_Fork
  <2>4. Range(fifo'[r.mbx]) = Range(fifo[r.mbx]) \cup {m}
    BY <2>2, <2>3, ListElements DEF TypeOK
  <2>5. \A b \in Mailboxes : b # r.mbx => fifo'[b] = fifo[b]
    BY <2>3 DEF TypeOK
  <2> HIDE DEF m, r
  <2> SUFFICES ASSUME NEW b \in Mailboxes
               PROVE  Pending(b)' \subseteq Pending(b)
    OBVIOUS
  <2>6. outbound' = outbound /\ wire' = wire
    BY <1>5 DEF RRI_Fork
  <2>7. CASE b = r.mbx
    BY <2>1, <2>2, <2>4, <2>6, <2>7 DEF Pending
  <2>8. CASE b # r.mbx
    BY <2>1, <2>5, <2>6, <2>8 DEF Pending
  <2> QED
    BY <2>7, <2>8
<1>6. ASSUME NEW c \in Clients, device[c] # NONE, _wait(c), UNCHANGED netVars
      PROVE  \A b \in Mailboxes : Pending(b)' \subseteq Pending(b)
  <2>1. device[c] \in Mailboxes
    BY <1>6 DEF TypeOK
  <2>2. Range(fifo'[device[c]]) \subseteq Range(fifo[device[c]])
    BY <1>6, <2>1, ListElements DEF TypeOK, _wait
  <2>3. \A b \in Mailboxes : b # device[c] => fifo'[b] = fifo[b]
    BY <1>6 DEF TypeOK, _wait
  <2> QED
    BY <1>6, <2>2, <2>3 DEF Pending, netVars
<1>7. CASE UNCHANGED <<netVars, fifo>>
  BY <1>7 DEF netVars, Pending
<1> QED
  BY <1>1, <1>2, <1>3, <1>4, <1>5, <1>6, <1>7

-----------------------------------------------------------------------------
\* RRI_Fork leaves a free frame with a new message.
LEMMA ForkKeeps ==
  ASSUME TypeOK, FrameKeptOnce, NEW f \in Frames, RRI_Fork(f)
  PROVE  FrameKeptOnce'
<1> DEFINE r == Head(inbound)
<1> DEFINE b0 == r.mbx
<1> DEFINE m == [req |-> r, frame |-> f]
<1>1. b0 \in Mailboxes
  <2>1. r \in Requests
    BY ListElements DEF TypeOK, RRI_Fork
  <2> HIDE DEF r
  <2> QED
    BY <2>1 DEF Requests
<1>2. fifo' = [fifo EXCEPT ![b0] = Append(@, m)] /\ ibFree' = ibFree \ {f} /\ f \in ibFree
  BY DEF RRI_Fork
<1>3. \A b \in Mailboxes : fifo[b] \in Seq(Messages) /\ DOMAIN fifo[b] = 1 .. Len(fifo[b])
                            /\ Len(fifo[b]) \in Nat
  BY DEF TypeOK
<1>4. m.frame = f
  OBVIOUS
<1> HIDE DEF m, b0
<1>5. \A b \in Mailboxes \ {b0} : fifo'[b] = fifo[b]
  BY <1>2 DEF TypeOK
<1>6. fifo'[b0] = Append(fifo[b0], m)
  BY <1>1, <1>2 DEF TypeOK
<1>7. /\ DOMAIN fifo'[b0] = 1 .. Len(fifo[b0]) + 1
      /\ \A i \in 1 .. Len(fifo[b0]) : fifo'[b0][i] = fifo[b0][i]
      /\ fifo'[b0][Len(fifo[b0]) + 1] = m
  BY <1>1, <1>3, <1>6
<1>8. ASSUME NEW b \in Mailboxes, NEW i \in DOMAIN fifo'[b]
      PROVE  \/ i \in DOMAIN fifo[b] /\ fifo'[b][i] = fifo[b][i]
             \/ b = b0 /\ i = Len(fifo[b0]) + 1 /\ fifo'[b][i] = m
  BY <1>1, <1>3, <1>5, <1>7
<1>9. ASSUME NEW g \in Frames \ ibFree'
      PROVE  \E b \in Mailboxes : \E i \in DOMAIN fifo'[b] : fifo'[b][i].frame = g
  <2>1. CASE g = f
    <3>1. Len(fifo[b0]) + 1 \in DOMAIN fifo'[b0]
      BY <1>1, <1>3, <1>7
    <3> QED
      BY <1>1, <1>4, <1>7, <2>1, <3>1
  <2>2. CASE g # f
    <3>1. PICK b \in Mailboxes : \E i \in DOMAIN fifo[b] : fifo[b][i].frame = g
      BY <1>2, <1>9, <2>2 DEF FrameKeptOnce
    <3>2. \A i \in DOMAIN fifo[b] : i \in DOMAIN fifo'[b] /\ fifo'[b][i] = fifo[b][i]
      BY <1>1, <1>3, <1>5, <1>7
    <3> QED
      BY <3>1, <3>2
  <2> QED
    BY <2>1, <2>2
<1>10. ASSUME NEW b \in Mailboxes, NEW i \in DOMAIN fifo'[b]
       PROVE  /\ fifo'[b][i].frame \notin ibFree'
              /\ \A a \in Mailboxes : \A j \in DOMAIN fifo'[a] :
                   fifo'[a][j].frame = fifo'[b][i].frame => a = b /\ j = i
  <2>1. \A a \in Mailboxes : \A j \in DOMAIN fifo[a] : fifo[a][j].frame # f
    BY <1>2 DEF FrameKeptOnce
  <2>2. CASE i \in DOMAIN fifo[b] /\ fifo'[b][i] = fifo[b][i]
    BY <1>2, <1>4, <1>8, <2>1, <2>2 DEF FrameKeptOnce
  <2>3. CASE b = b0 /\ i = Len(fifo[b0]) + 1 /\ fifo'[b][i] = m
    BY <1>2, <1>4, <1>8, <2>1, <2>3 DEF FrameKeptOnce
  <2> QED
    BY <1>8, <2>2, <2>3
<1> QED
  BY <1>9, <1>10 DEF FrameKeptOnce

\* _wait frees the frame of the message that it takes.
LEMMA WaitFrees ==
  ASSUME TypeOK, FrameKeptOnce, NEW c \in Clients, device[c] # NONE, _wait(c)
  PROVE  FrameKeptOnce'
<1> DEFINE b0 == device[c]
<1> DEFINE f == Head(fifo[b0]).frame
<1>1. b0 \in Mailboxes
  BY DEF TypeOK
<1>2. fifo' = [fifo EXCEPT ![b0] = Tail(@)] /\ ibFree' = ibFree \cup {f} /\ fifo[b0] # <<>>
  BY DEF _wait, Message
<1>3. \A b \in Mailboxes : fifo[b] \in Seq(Messages) /\ DOMAIN fifo[b] = 1 .. Len(fifo[b])
                            /\ Len(fifo[b]) \in Nat
  BY DEF TypeOK
<1>4. \A b \in Mailboxes \ {b0} : fifo'[b] = fifo[b]
  BY <1>2 DEF TypeOK
<1>5. fifo'[b0] = Tail(fifo[b0])
  BY <1>1, <1>2 DEF TypeOK
<1>6. 1 \in DOMAIN fifo[b0] /\ f = fifo[b0][1].frame
  BY <1>1, <1>2, <1>3
<1>7. /\ DOMAIN fifo'[b0] = 1 .. Len(fifo[b0]) - 1
      /\ \A i \in 1 .. Len(fifo[b0]) - 1 : fifo'[b0][i] = fifo[b0][i + 1]
  <2> DEFINE q == fifo[b0]
  <2>1. q \in Seq(Messages) /\ q # <<>> /\ fifo'[b0] = Tail(q)
    BY <1>1, <1>2, <1>3, <1>5
  <2> HIDE DEF q
  <2>2. DOMAIN Tail(q) = 1 .. Len(q) - 1 /\ \A i \in 1 .. Len(q) - 1 : Tail(q)[i] = q[i + 1]
    BY <2>1
  <2> QED
    BY <2>1, <2>2 DEF q
<1> HIDE DEF f, b0
<1>8. ASSUME NEW b \in Mailboxes, NEW i \in DOMAIN fifo'[b]
      PROVE  \/ b # b0 /\ i \in DOMAIN fifo[b] /\ fifo'[b][i] = fifo[b][i]
             \/ b = b0 /\ i + 1 \in DOMAIN fifo[b] /\ i \in Nat \ {0} /\ fifo'[b][i] = fifo[b][i + 1]
  <2>1. CASE b # b0
    BY <1>4, <2>1
  <2>2. CASE b = b0
    <3>1. i \in 1 .. Len(fifo[b0]) - 1
      BY <1>7, <2>2
    <3>2. Len(fifo[b0]) \in Nat /\ DOMAIN fifo[b0] = 1 .. Len(fifo[b0])
      BY <1>1, <1>3
    <3>3. i + 1 \in 1 .. Len(fifo[b0]) /\ i \in Nat \ {0}
      BY <3>1, <3>2
    <3> QED
      BY <1>7, <2>2, <3>1, <3>2, <3>3
  <2> QED
    BY <2>1, <2>2
<1>9. ASSUME NEW g \in Frames \ ibFree'
      PROVE  \E b \in Mailboxes : \E i \in DOMAIN fifo'[b] : fifo'[b][i].frame = g
  <2>1. PICK b \in Mailboxes : \E i \in DOMAIN fifo[b] : fifo[b][i].frame = g
    BY <1>2, <1>9 DEF FrameKeptOnce
  <2>2. CASE b # b0
    BY <1>4, <2>1, <2>2
  <2>3. CASE b = b0
    <3> PICK i \in DOMAIN fifo[b] : fifo[b][i].frame = g
      BY <2>1
    <3>1. i # 1
      BY <1>2, <1>6, <1>9, <2>3
    <3>2. i - 1 \in DOMAIN fifo'[b0] /\ fifo'[b0][i - 1] = fifo[b0][i]
      BY <1>1, <1>3, <1>7, <2>3, <3>1
    <3> QED
      BY <1>1, <2>3, <3>2
  <2> QED
    BY <2>2, <2>3
<1>10. ASSUME NEW b \in Mailboxes, NEW i \in DOMAIN fifo'[b]
       PROVE  /\ fifo'[b][i].frame \notin ibFree'
              /\ \A a \in Mailboxes : \A j \in DOMAIN fifo'[a] :
                   fifo'[a][j].frame = fifo'[b][i].frame => a = b /\ j = i
  <2> DEFINE k == IF b = b0 THEN i + 1 ELSE i
  <2>1. k \in DOMAIN fifo[b] /\ fifo'[b][i] = fifo[b][k] /\ (b = b0 => k # 1)
    BY <1>8
  <2>2. fifo[b][k].frame \notin ibFree /\ fifo[b][k].frame # f
    BY <1>1, <1>6, <2>1 DEF FrameKeptOnce
  <2>3. ASSUME NEW a \in Mailboxes, NEW j \in DOMAIN fifo'[a],
               fifo'[a][j].frame = fifo'[b][i].frame
        PROVE  a = b /\ j = i
    <3> DEFINE l == IF a = b0 THEN j + 1 ELSE j
    <3>1. l \in DOMAIN fifo[a] /\ fifo'[a][j] = fifo[a][l]
      BY <1>8
    <3>2. a = b /\ l = k
      BY <2>1, <2>3, <3>1 DEF FrameKeptOnce
    <3> QED
      BY <1>8, <3>2
  <2> QED
    BY <1>2, <2>1, <2>2, <2>3
<1> QED
  BY <1>9, <1>10 DEF FrameKeptOnce

-----------------------------------------------------------------------------
\* A client that opens a device takes a session, one that closes it returns it.
LEMMA OpenedChanges ==
  ASSUME IsFiniteSet(Opened), NEW c \in Clients
  PROVE  /\ Cardinality(Opened) \in Nat
         /\ c \in Opened => /\ IsFiniteSet(Opened \ {c})
                            /\ Cardinality(Opened \ {c}) = Cardinality(Opened) - 1
         /\ c \notin Opened => /\ IsFiniteSet(Opened \cup {c})
                               /\ Cardinality(Opened \cup {c}) = Cardinality(Opened) + 1
BY FS_CardinalityType, FS_RemoveElement, FS_AddElement

LEMMA InitAccounted ==
  ASSUME Init
  PROVE  TypeOK /\ Accounted
<1>1. Opened = {}
  BY DEF Opened, Init
<1>2. IsFiniteSet(Opened) /\ Cardinality(Opened) = 0
  BY <1>1, FS_EmptySet
<1>3. TypeOK
  BY NumSessionsAssumption, MaxRequestsAssumption, DescriptorsAssumption
     DEF Init, TypeOK, Owner
<1> QED
  BY <1>2, <1>3, NumSessionsAssumption DEF Accounted, Init

LEMMA OpenTypes ==
  ASSUME TypeOK, Accounted, NEW c \in Clients, NEW b \in Mailboxes, RRI_Open(c, b)
  PROVE  TypeOK' /\ Accounted'
<1>1. Opened' = Opened \cup {c} /\ c \notin Opened
  BY NoneAssumption DEF RRI_Open, TypeOK, Opened
<1>2. sessions' = sessions - 1 /\ sessions \in Nat /\ sessions > 0
  BY NumSessionsAssumption DEF RRI_Open, TypeOK
<1>3. Accounted'
  BY <1>1, <1>2, OpenedChanges, NumSessionsAssumption DEF Accounted
<1>4. \A d \in Clients : device'[d] # NONE =>
        device'[d] \notin freeMbx' /\ {e \in Clients : device'[e] = device'[d]} = {d}
  <2>1. \A d \in Clients : device'[d] = IF d = c THEN b ELSE device[d]
    BY DEF RRI_Open, TypeOK
  <2>2. \A d \in Clients \ {c} : device[d] # NONE =>
          device[d] # b /\ device[d] \notin freeMbx /\ {e \in Clients : device[e] = device[d]} = {d}
    BY DEF RRI_Open, TypeOK, Owner
  <2>3. freeMbx' = freeMbx \ {b} /\ device[c] = NONE /\ b # NONE
    BY NoneAssumption DEF RRI_Open
  <2>4. {e \in Clients : device'[e] = device'[c]} = {c}
    BY <2>1, <2>2, <2>3
  <2>5. ASSUME NEW d \in Clients \ {c}, device[d] # NONE
        PROVE  {e \in Clients : device'[e] = device'[d]} = {d}
    BY <2>1, <2>2, <2>5
  <2> QED
    BY <2>1, <2>2, <2>3, <2>4, <2>5
<1>5. sessions' \in 0 .. NumSessions
  BY <1>2, NumSessionsAssumption DEF TypeOK
<1>6. since' \in [Clients -> 0 .. MaxRequests]
  BY DEF RRI_Open, TypeOK
<1>7. UNCHANGED <<outbound, wire, inbound, fifo, pc, want, calls, ibFree>>
  BY DEF RRI_Open, netVars
<1>8. \A d \in Clients : device'[d] = NONE => pc[d] = "idle"
  BY DEF RRI_Open, TypeOK
<1>9. /\ freeMbx' \subseteq Mailboxes /\ bound' \subseteq Clients
      /\ device' \in [Clients -> Mailboxes \cup {NONE}]
  BY DEF RRI_Open, TypeOK
<1> QED
  BY <1>3, <1>4, <1>5, <1>6, <1>7, <1>8, <1>9 DEF TypeOK, Owner

LEMMA CloseTypes ==
  ASSUME TypeOK, Accounted, NEW c \in Clients, RRI_Close(c)
  PROVE  TypeOK' /\ Accounted'
<1>1. Opened' = Opened \ {c} /\ c \in Opened
  BY DEF RRI_Close, Idle, TypeOK, Opened
<1>2. sessions' = sessions + 1 /\ sessions \in Nat
  BY NumSessionsAssumption DEF RRI_Close, TypeOK
<1>3. Cardinality(Opened) \in Nat /\ Cardinality(Opened)' = Cardinality(Opened) - 1 /\ IsFiniteSet(Opened)'
  BY <1>1, OpenedChanges DEF Accounted
<1>4. Accounted' /\ sessions' \in 0 .. NumSessions
  <2>1. Cardinality(Opened)' \in Nat
    BY <1>3, FS_CardinalityType
  <2> QED
    BY <1>2, <1>3, <2>1, NumSessionsAssumption DEF Accounted
<1>5. \A d \in Clients : device'[d] # NONE =>
        device'[d] \notin freeMbx' /\ {e \in Clients : device'[e] = device'[d]} = {d}
  <2>1. \A d \in Clients : device'[d] = IF d = c THEN NONE ELSE device[d]
    BY DEF RRI_Close, TypeOK
  <2>2. \A d \in Clients : device[d] # NONE =>
          device[d] \notin freeMbx /\ {e \in Clients : device[e] = device[d]} = {d}
    BY DEF TypeOK, Owner
  <2>3. freeMbx' = freeMbx \cup {device[c]} /\ device[c] # NONE
    BY DEF RRI_Close, Idle
  <2>4. ASSUME NEW d \in Clients \ {c}, device[d] # NONE
        PROVE  device[d] # device[c] /\ {e \in Clients : device'[e] = device'[d]} = {d}
    BY <2>1, <2>2, <2>4
  <2> QED
    BY <2>1, <2>2, <2>3, <2>4
<1>6. since' \in [Clients -> 0 .. MaxRequests]
  BY MaxRequestsAssumption DEF RRI_Close, TypeOK
<1>7. UNCHANGED <<bound, outbound, wire, inbound, fifo, pc, want, calls, ibFree>>
  BY DEF RRI_Close, netVars
<1>8. \A d \in Clients : device'[d] = NONE => pc[d] = "idle"
  BY DEF RRI_Close, Idle, TypeOK
<1>9. freeMbx' \subseteq Mailboxes /\ device' \in [Clients -> Mailboxes \cup {NONE}]
  BY DEF RRI_Close, Idle, TypeOK
<1> QED
  BY <1>4, <1>5, <1>6, <1>7, <1>8, <1>9 DEF TypeOK, Owner

\* What the steps keep that leave sessions, mailboxes and devices alone.
LEMMA SameDevices ==
  ASSUME Accounted, UNCHANGED <<sessions, freeMbx, device, since>>
  PROVE  Accounted'
BY DEF Accounted, Opened

LEMMA PostTypes ==
  ASSUME TypeOK, NEW c \in Clients, Idle(c), _post(c)
  PROVE  /\ outbound' \in Seq(Requests) /\ Len(outbound') <= Descriptors
         /\ calls' \in 0 .. MaxRequests /\ calls' = calls + 1 /\ calls \in Nat
<1>1. Request(c) \in Requests
  BY MaxRequestsAssumption DEF TypeOK, Idle, _post, Request, Requests
<1>2. calls' \in 0 .. MaxRequests /\ calls' = calls + 1 /\ calls \in Nat
  BY MaxRequestsAssumption DEF TypeOK, _post
<1>3. CASE Len(outbound) < Descriptors
  <2> DEFINE r == Request(c)
  <2>1. outbound' = Append(outbound, r) /\ r \in Requests
    BY <1>1, <1>3 DEF _post
  <2> HIDE DEF r
  <2>2. Append(outbound, r) \in Seq(Requests) /\ Len(Append(outbound, r)) = Len(outbound) + 1
        /\ Len(outbound) \in Nat
    BY <2>1 DEF TypeOK
  <2> QED
    BY <1>2, <1>3, <2>1, <2>2, DescriptorsAssumption
<1>4. CASE ~(Len(outbound) < Descriptors)
  BY <1>2, <1>4 DEF _post, TypeOK
<1> QED
  BY <1>3, <1>4

LEMMA WaitTypes ==
  ASSUME TypeOK, NEW c \in Clients, _wait(c)
  PROVE  /\ device[c] \in Mailboxes
         /\ Message(c) \in Messages
         /\ Message(c).req \in Pending(device[c])
         /\ fifo' \in [Mailboxes -> Seq(Messages)]
         /\ ibFree' \subseteq Frames
<1>1. device[c] \in Mailboxes
  BY DEF TypeOK, _wait
<1>2. fifo[device[c]] \in Seq(Messages) /\ fifo[device[c]] # <<>>
  BY <1>1 DEF TypeOK, _wait
<1>3. Message(c) \in Range(fifo[device[c]]) /\ Tail(fifo[device[c]]) \in Seq(Messages)
      /\ Message(c) \in Messages
  BY <1>2, ListElements DEF Message
<1>4. fifo' \in [Mailboxes -> Seq(Messages)]
  BY <1>1, <1>3 DEF TypeOK, _wait
<1>5. Message(c).frame \in Frames
  BY <1>3 DEF Messages
<1>6. ibFree' \subseteq Frames
  BY <1>5 DEF TypeOK, _wait
<1> QED
  BY <1>1, <1>3, <1>4, <1>6 DEF Pending

\* Every other step keeps the devices and what hangs on them.
LEMMA TypeStep ==
  ASSUME TypeOK, Accounted, [Next]_vars
  PROVE  TypeOK' /\ Accounted'
<1> DEFINE Devices == <<sessions, freeMbx, device, since>>
<1> DEFINE Rest == /\ bound \subseteq Clients
                   /\ outbound \in Seq(Requests) /\ Len(outbound) <= Descriptors
                   /\ wire \subseteq Requests
                   /\ inbound \in Seq(Requests)
                   /\ ibFree \subseteq Frames
                   /\ fifo \in [Mailboxes -> Seq(Messages)]
                   /\ pc \in [Clients -> {"idle", "wait", "sync"}]
                   /\ \A c \in Clients : device[c] = NONE => pc[c] = "idle"
                   /\ want \in [Clients -> 0 .. MaxRequests]
                   /\ calls \in 0 .. MaxRequests
<1>1. Rest
  BY DEF TypeOK
<1>2. ASSUME Rest', UNCHANGED Devices
      PROVE  TypeOK' /\ Accounted'
  BY <1>2, SameDevices DEF TypeOK, Owner
<1>3. ASSUME NEW c \in Clients, ClientStep(c)
      PROVE  TypeOK' /\ Accounted'
  <2>1. ASSUME NEW b \in Mailboxes, RRI_Open(c, b)
        PROVE  TypeOK' /\ Accounted'
    BY <2>1, OpenTypes
  <2>2. CASE RRI_OpenFails(c)
    <3>1. sessions' \in 0 .. NumSessions /\ sessions' < sessions
      BY <2>2, NumSessionsAssumption DEF RRI_OpenFails, TypeOK
    <3>2. UNCHANGED <<freeMbx, device, since>> /\ Rest'
      BY <1>1, <2>2 DEF RRI_OpenFails, netVars
    <3>3. Opened' = Opened
      BY <3>2 DEF Opened
    <3>4. Accounted'
      BY <3>1, <3>3, OpenedChanges, NumSessionsAssumption, FS_CardinalityType DEF Accounted, TypeOK
    <3> QED
      BY <3>1, <3>2, <3>4 DEF TypeOK, Owner
  <2>3. CASE RRI_Bind(c)
    <3>1. Rest' /\ UNCHANGED Devices
      BY <1>1, <2>3 DEF RRI_Bind, netVars
    <3> QED
      BY <1>2, <3>1
  <2>4. CASE RRI_Close(c)
    BY <2>4, CloseTypes
  <2>5. CASE RRI_Post(c)
    <3>1. Rest' /\ UNCHANGED Devices
      BY <1>1, <2>5, PostTypes DEF RRI_Post
    <3> QED
      BY <1>2, <3>1
  <2>6. CASE RRI_Wait(c)
    <3>1. Rest' /\ UNCHANGED Devices
      BY <1>1, <2>6 DEF RRI_Wait, netVars, Idle
    <3> QED
      BY <1>2, <3>1
  <2>7. CASE RRI_Read(c)
    <3>1. /\ outbound' \in Seq(Requests) /\ Len(outbound') <= Descriptors
          /\ calls' \in 0 .. MaxRequests /\ calls' = calls + 1
      BY <2>7, PostTypes DEF RRI_Read
    <3>2. want' \in [Clients -> 0 .. MaxRequests]
      BY <1>1, <2>7, <3>1, MaxRequestsAssumption DEF RRI_Read
    <3>3. Rest' /\ UNCHANGED Devices
      BY <1>1, <2>7, <3>1, <3>2 DEF RRI_Read, Idle
    <3> QED
      BY <1>2, <3>3
  <2>8. CASE Return(c)
    <3>1. fifo' \in [Mailboxes -> Seq(Messages)] /\ ibFree' \subseteq Frames
      BY <2>8, WaitTypes DEF Return
    <3>2. want' \in [Clients -> 0 .. MaxRequests]
      BY <1>1, <2>8, MaxRequestsAssumption DEF Return
    <3>3. Rest' /\ UNCHANGED Devices
      BY <1>1, <2>8, <3>1, <3>2 DEF Return, netVars
    <3> QED
      BY <1>2, <3>3
  <2>9. CASE WaitOn(c)
    <3>1. fifo' \in [Mailboxes -> Seq(Messages)] /\ ibFree' \subseteq Frames
      BY <2>9, WaitTypes DEF WaitOn
    <3>2. Rest' /\ UNCHANGED Devices
      BY <1>1, <2>9, <3>1 DEF WaitOn, netVars
    <3> QED
      BY <1>2, <3>2
  <2> QED
    BY <1>3, <2>1, <2>2, <2>3, <2>4, <2>5, <2>6, <2>7, <2>8, <2>9 DEF ClientStep
<1>4. ASSUME Engines
      PROVE  TypeOK' /\ Accounted'
  <2>1. CASE Send
    <3>1. Head(outbound) \in Requests /\ Tail(outbound) \in Seq(Requests)
          /\ Len(Tail(outbound)) = Len(outbound) - 1 /\ Len(outbound) \in Nat
      BY <1>1, <2>1 DEF Send
    <3>2. Rest' /\ UNCHANGED Devices
      BY <1>1, <2>1, <3>1, DescriptorsAssumption DEF Send
    <3> QED
      BY <1>2, <3>2
  <2>2. ASSUME NEW r \in wire, Answer(r)
        PROVE  TypeOK' /\ Accounted'
    <3>1. Append(inbound, r) \in Seq(Requests)
      BY <1>1, ListElements
    <3>2. Rest' /\ UNCHANGED Devices
      BY <1>1, <2>2, <3>1 DEF Answer
    <3> QED
      BY <1>2, <3>2
  <2>3. ASSUME NEW r \in wire, Lose(r)
        PROVE  TypeOK' /\ Accounted'
    <3>1. Rest' /\ UNCHANGED Devices
      BY <1>1, <2>3 DEF Lose
    <3> QED
      BY <1>2, <3>1
  <2>4. CASE RRI_ForkFree
    <3>1. Rest' /\ UNCHANGED Devices
      BY <1>1, <2>4, ListElements DEF RRI_ForkFree
    <3> QED
      BY <1>2, <3>1
  <2>5. ASSUME NEW f \in Frames, RRI_Fork(f)
        PROVE  TypeOK' /\ Accounted'
    <3> DEFINE r == Head(inbound)
    <3> DEFINE m == [req |-> r, frame |-> f]
    <3>1. r \in Requests /\ Tail(inbound) \in Seq(Requests)
      BY <1>1, <2>5, ListElements DEF RRI_Fork
    <3>2. fifo' = [fifo EXCEPT ![r.mbx] = Append(@, m)]
      BY <2>5 DEF RRI_Fork
    <3>3. m \in Messages
      <4> HIDE DEF r
      <4> QED
        BY <3>1 DEF Messages
    <3>4. r.mbx \in Mailboxes
      <4> HIDE DEF r
      <4> QED
        BY <3>1 DEF Requests
    <3> HIDE DEF m
    <3>5. fifo' \in [Mailboxes -> Seq(Messages)]
      BY <1>1, <3>2, <3>3, <3>4, ListElements
    <3>6. Rest' /\ UNCHANGED Devices
      BY <1>1, <2>5, <3>1, <3>5 DEF RRI_Fork
    <3> QED
      BY <1>2, <3>6
  <2> QED
    BY <1>4, <2>1, <2>2, <2>3, <2>4, <2>5 DEF Engines
<1>5. CASE UNCHANGED vars
  <2>1. Rest' /\ UNCHANGED Devices
    BY <1>1, <1>5 DEF vars, netVars
  <2> QED
    BY <1>2, <2>1
<1> QED
  BY <1>3, <1>4, <1>5 DEF Next, ClientStep

-----------------------------------------------------------------------------
\* Frames change hands in RRI_Fork and in _wait only.
LEMMA FrameStep ==
  ASSUME TypeOK, FrameKeptOnce, [Next]_vars
  PROVE  FrameKeptOnce'
<1>1. ASSUME UNCHANGED <<fifo, ibFree>>
      PROVE  FrameKeptOnce'
  BY <1>1 DEF FrameKeptOnce
<1>2. ASSUME NEW c \in Clients, ClientStep(c)
      PROVE  FrameKeptOnce'
  <2>1. CASE Return(c) \/ WaitOn(c)
    <3>1. _wait(c) /\ device[c] # NONE
      BY <2>1 DEF Return, WaitOn, TypeOK, _wait
    <3> QED
      BY <3>1, WaitFrees
  <2>2. CASE ~(Return(c) \/ WaitOn(c))
    <3>1. UNCHANGED <<fifo, ibFree>>
      BY <1>2, <2>2 DEF ClientStep, RRI_Open, RRI_OpenFails, RRI_Bind, RRI_Close,
                        RRI_Post, RRI_Wait, RRI_Read
    <3> QED
      BY <1>1, <3>1
  <2> QED
    BY <2>1, <2>2
<1>3. ASSUME Engines
      PROVE  FrameKeptOnce'
  <2>1. ASSUME NEW f \in Frames, RRI_Fork(f)
        PROVE  FrameKeptOnce'
    BY <2>1, ForkKeeps
  <2>2. CASE Send \/ RRI_ForkFree \/ \E r \in wire : Answer(r) \/ Lose(r)
    <3>1. UNCHANGED <<fifo, ibFree>>
      BY <2>2 DEF Send, RRI_ForkFree, Answer, Lose
    <3> QED
      BY <1>1, <3>1
  <2> QED
    BY <1>3, <2>1, <2>2 DEF Engines
<1>4. CASE UNCHANGED vars
  BY <1>1, <1>4 DEF vars
<1> QED
  BY <1>2, <1>3, <1>4 DEF Next, ClientStep

\* A step that adds nothing to what is under way, and closes and opens nothing,
\* keeps what is said of it.
LEMMA CleanShrinks ==
  ASSUME TypeOK, Clean, Alone,
         UNCHANGED <<freeMbx, device, since, dirty>>,
         \A b \in Mailboxes : Pending(b)' \subseteq Pending(b),
         \A c \in Clients : want'[c] # 0 => want'[c] = want[c]
  PROVE  Clean' /\ Alone'
<1>1. \A b \in freeMbx \ dirty : Pending(b)' = {}
  BY DEF Clean, TypeOK
<1>2. ASSUME NEW c \in Clients, device[c] \in Mailboxes \ dirty, NEW r \in Pending(device[c])'
      PROVE  r.id > since[c] /\ (want'[c] # 0 => r.id = want'[c])
  <2>1. Pending(device[c])' \subseteq Pending(device[c])
    <3> DEFINE b == device[c]
    <3>1. b \in Mailboxes /\ device'[c] = b
      BY <1>2
    <3>2. Pending(b)' \subseteq Pending(b)
      BY <3>1
    <3> QED
      BY <3>2
  <2> QED
    BY <1>2, <2>1 DEF Clean, Alone
<1>3. Clean'
  BY <1>1, <1>2 DEF Clean
<1>4. Alone'
  BY <1>2 DEF Alone
<1> QED
  BY <1>3, <1>4

LEMMA CallingStep ==
  ASSUME TypeOK, Calling, [Next]_vars
  PROVE  Calling'
<1>1. want \in [Clients -> Nat] /\ since \in [Clients -> Nat] /\ calls \in Nat
  BY MaxRequestsAssumption DEF TypeOK
<1>2. ASSUME UNCHANGED <<want, pc, since>>, calls' \in {calls, calls + 1}
      PROVE  Calling'
  BY <1>1, <1>2 DEF Calling
<1>3. ASSUME NEW c \in Clients, ClientStep(c)
      PROVE  Calling'
  <2>1. CASE \/ \E b \in Mailboxes : RRI_Open(c, b)
             \/ RRI_OpenFails(c) \/ RRI_Bind(c) \/ RRI_Close(c)
    BY <1>1, <2>1 DEF RRI_Open, RRI_OpenFails, RRI_Bind, RRI_Close, Calling
  <2>2. CASE RRI_Post(c)
    BY <1>2, <2>2 DEF RRI_Post, _post
  <2>3. CASE RRI_Wait(c)
    BY <1>1, <2>3 DEF RRI_Wait, Idle, Calling, TypeOK
  <2>4. CASE RRI_Read(c)
    BY <1>1, <2>4 DEF RRI_Read, _post, Calling, TypeOK
  <2>5. CASE Return(c)
    BY <1>1, <2>5 DEF Return, Calling, TypeOK
  <2>6. CASE WaitOn(c)
    BY <1>2, <2>6 DEF WaitOn
  <2> QED
    BY <1>3, <2>1, <2>2, <2>3, <2>4, <2>5, <2>6 DEF ClientStep
<1>4. CASE Engines
  BY <1>2, <1>4 DEF Engines, Send, Answer, Lose, RRI_ForkFree, RRI_Fork
<1>5. CASE UNCHANGED vars
  BY <1>2, <1>5 DEF vars
<1> QED
  BY <1>3, <1>4, <1>5 DEF Next, ClientStep

\* A request goes to a mailbox that no other client has.
LEMMA CleanPost ==
  ASSUME TypeOK, Calling, Clean, Alone, NEW c \in Clients, Idle(c), _post(c),
         UNCHANGED <<freeMbx, device, since, dirty, wire, inbound, fifo>>,
         want' \in [Clients -> Nat],
         \A d \in Clients \ {c} : want'[d] = want[d],
         want'[c] # 0 => want'[c] = calls + 1 /\ Own(c) = {}
  PROVE  Clean' /\ Alone'
<1>1. calls \in Nat /\ since[c] \in Nat /\ since[c] <= calls /\ device[c] \in Mailboxes
  BY MaxRequestsAssumption DEF TypeOK, Calling, Idle
<1>2. \A b \in Mailboxes :
        Pending(b)' \subseteq Pending(b) \cup (IF b = device[c] THEN {Request(c)} ELSE {})
  BY PendingPosted
<1>3. Request(c).id = calls + 1
  BY DEF Request
<1>4. \A b \in freeMbx : b \in Mailboxes /\ b # device[c]
  BY <1>1, NoneAssumption DEF TypeOK, Idle
<1>5. \A b \in freeMbx \ dirty : Pending(b)' = {}
  BY <1>2, <1>4 DEF Clean
<1>6. ASSUME NEW d \in Clients, device[d] \in Mailboxes \ dirty, NEW r, r \in Pending(device[d])'
      PROVE  r.id > since[d] /\ (want'[d] # 0 => r.id = want'[d])
  <2> DEFINE b == device[d]
  <2>1. b \in Mailboxes /\ device'[d] = b
    BY <1>6
  <2>2. r \in Pending(b) \cup (IF b = device[c] THEN {Request(c)} ELSE {})
    BY <1>2, <1>6, <2>1
  <2>3. CASE d # c
    <3>1. b # device[c]
      BY <1>6, <2>3 DEF TypeOK, Idle, Owner
    <3>2. r \in Pending(b)
      BY <2>2, <3>1
    <3> QED
      BY <1>6, <2>3, <3>2 DEF Clean, Alone
  <2>4. CASE d = c
    <3>1. CASE r = Request(c)
      BY <1>1, <1>3, <2>4, <3>1
    <3>2. CASE r \in Pending(b)
      <4>1. r.id > since[c]
        BY <1>6, <2>4, <3>2 DEF Clean
      <4>2. r \in Own(c)
        BY <2>4, <3>2, <4>1 DEF Own
      <4> QED
        BY <2>4, <4>1, <4>2
    <3> QED
      BY <2>2, <3>1, <3>2
  <2> QED
    BY <2>3, <2>4
<1>7. Clean'
  BY <1>5, <1>6 DEF Clean
<1>8. Alone'
  BY <1>6 DEF Alone
<1> QED
  BY <1>7, <1>8

LEMMA CleanStep ==
  ASSUME TypeOK, Calling, Clean, Alone, [Next]_vars
  PROVE  Clean' /\ Alone'
<1>1. ASSUME NEW c \in Clients, NEW b \in Mailboxes, RRI_Open(c, b)
      PROVE  Clean' /\ Alone'
  <2>1. \A d \in Clients : device'[d] = IF d = c THEN b ELSE device[d]
    BY <1>1 DEF RRI_Open, TypeOK
  <2>2. \A d \in Clients : since'[d] = IF d = c THEN calls ELSE since[d]
    BY <1>1 DEF RRI_Open, TypeOK
  <2>3. /\ freeMbx' = freeMbx \ {b} /\ b \in freeMbx /\ device[c] = NONE
        /\ UNCHANGED <<netVars, fifo, want, dirty>>
    BY <1>1 DEF RRI_Open
  <2>4. \A a : Pending(a)' = Pending(a)
    BY <2>3 DEF Pending, netVars
  <2>5. want[c] = 0
    BY <2>3 DEF TypeOK, Calling
  <2>6. \A a \in freeMbx' \ dirty' : Pending(a)' = {}
    BY <2>3, <2>4 DEF Clean
  <2>7. ASSUME NEW d \in Clients, device'[d] \in Mailboxes \ dirty,
               NEW r \in Pending(device'[d])
        PROVE  r.id > since'[d] /\ (want[d] # 0 => r.id = want[d])
    <3>1. CASE d = c
      BY <2>1, <2>3, <2>7, <3>1 DEF Clean
    <3>2. CASE d # c
      BY <2>1, <2>2, <2>7, <3>2 DEF Clean, Alone
    <3> QED
      BY <3>1, <3>2
  <2>8. \A d \in Clients : Pending(device[d])' = Pending(device'[d])
    BY <2>3 DEF Pending, netVars
  <2>9. Clean'
    BY <2>3, <2>6, <2>7, <2>8 DEF Clean
  <2>10. Alone'
    BY <2>3, <2>7, <2>8 DEF Alone
  <2> QED
    BY <2>9, <2>10
<1>2. ASSUME NEW c \in Clients, RRI_Close(c)
      PROVE  Clean' /\ Alone'
  <2>1. \A d \in Clients : device'[d] = IF d = c THEN NONE ELSE device[d]
    BY <1>2 DEF RRI_Close, TypeOK
  <2>2. \A d \in Clients : since'[d] = IF d = c THEN 0 ELSE since[d]
    BY <1>2 DEF RRI_Close, TypeOK
  <2>3. /\ freeMbx' = freeMbx \cup {device[c]}
        /\ dirty' = IF Pending(device[c]) # {} THEN dirty \cup {device[c]} ELSE dirty
        /\ UNCHANGED <<netVars, fifo, want>>
    BY <1>2 DEF RRI_Close
  <2>4. \A a : Pending(a)' = Pending(a)
    BY <2>3 DEF Pending, netVars
  <2>5. \A a \in freeMbx' \ dirty' : Pending(a)' = {}
    BY <2>3, <2>4 DEF Clean
  <2>6. ASSUME NEW d \in Clients, device'[d] \in Mailboxes \ dirty',
               NEW r \in Pending(device'[d])
        PROVE  r.id > since'[d] /\ (want[d] # 0 => r.id = want[d])
    <3>1. d # c /\ device[d] = device'[d] /\ since'[d] = since[d] /\ device[d] \notin dirty
      BY <2>1, <2>2, <2>3, <2>6, NoneAssumption
    <3> QED
      BY <2>6, <3>1 DEF Clean, Alone
  <2>7. \A d \in Clients : Pending(device[d])' = Pending(device'[d])
    BY <2>3 DEF Pending, netVars
  <2>8. Clean'
    BY <2>5, <2>6, <2>7 DEF Clean
  <2>9. Alone'
    BY <2>3, <2>6, <2>7 DEF Alone
  <2> QED
    BY <2>8, <2>9
<1>3. ASSUME NEW c \in Clients, RRI_Post(c)
      PROVE  Clean' /\ Alone'
  <2>1. want[c] = 0 /\ want' = want /\ want \in [Clients -> Nat]
    BY <1>3, MaxRequestsAssumption DEF RRI_Post, Idle, Calling, TypeOK
  <2>2. Idle(c) /\ _post(c) /\ UNCHANGED <<freeMbx, device, since, dirty, wire, inbound, fifo>>
    BY <1>3 DEF RRI_Post
  <2> QED
    BY <2>1, <2>2, CleanPost
<1>4. ASSUME NEW c \in Clients, RRI_Read(c)
      PROVE  Clean' /\ Alone'
  <2>1. calls \in Nat /\ want \in [Clients -> Nat]
    BY MaxRequestsAssumption DEF TypeOK
  <2>2. /\ want' \in [Clients -> Nat]
        /\ \A d \in Clients \ {c} : want'[d] = want[d]
        /\ want'[c] # 0 => want'[c] = calls + 1 /\ Own(c) = {}
    BY <1>4, <2>1 DEF RRI_Read
  <2>3. Idle(c) /\ _post(c) /\ UNCHANGED <<freeMbx, device, since, dirty, wire, inbound, fifo>>
    BY <1>4 DEF RRI_Read
  <2> QED
    BY <2>2, <2>3, CleanPost
<1>5. ASSUME NEW c \in Clients,
             RRI_OpenFails(c) \/ RRI_Bind(c) \/ RRI_Wait(c) \/ Return(c) \/ WaitOn(c)
      PROVE  Clean' /\ Alone'
  <2>1. /\ UNCHANGED <<freeMbx, device, since, dirty>>
        /\ \A d \in Clients : want'[d] # 0 => want'[d] = want[d]
    BY <1>5 DEF RRI_OpenFails, RRI_Bind, RRI_Wait, Return, WaitOn, TypeOK
  <2>2. \/ UNCHANGED <<netVars, fifo>>
        \/ device[c] # NONE /\ _wait(c) /\ UNCHANGED netVars
    BY <1>5 DEF RRI_OpenFails, RRI_Bind, RRI_Wait, Return, WaitOn, TypeOK, _wait
  <2>3. \A b \in Mailboxes : Pending(b)' \subseteq Pending(b)
    BY <2>2, PendingShrinks
  <2> QED
    BY <2>1, <2>3, CleanShrinks
<1>6. ASSUME Engines
      PROVE  Clean' /\ Alone'
  <2>1. UNCHANGED <<freeMbx, device, since, dirty, want>>
    BY <1>6 DEF Engines, Send, Answer, Lose, RRI_ForkFree, RRI_Fork
  <2>2. \A b \in Mailboxes : Pending(b)' \subseteq Pending(b)
    BY <1>6, PendingShrinks DEF Engines
  <2> QED
    BY <2>1, <2>2, CleanShrinks
<1>7. CASE UNCHANGED vars
  <2>1. UNCHANGED <<netVars, fifo>> /\ UNCHANGED <<freeMbx, device, since, dirty, want>>
    BY <1>7 DEF vars
  <2>2. \A b \in Mailboxes : Pending(b)' \subseteq Pending(b)
    BY <2>1, PendingShrinks
  <2> QED
    BY <2>1, <2>2, CleanShrinks
<1> QED
  BY <1>1, <1>2, <1>3, <1>4, <1>5, <1>6, <1>7 DEF Next

-----------------------------------------------------------------------------
LEMMA InitInv ==
  ASSUME Init
  PROVE  IInv
<1>1. TypeOK /\ Accounted
  BY InitAccounted
<1>2. Calling
  BY DEF Init, Calling
<1>3. FrameKeptOnce
  BY DEF Init, FrameKeptOnce
<1>4. \A b \in Mailboxes : Pending(b) = {}
  BY DEF Init, Pending, Range
<1>5. Clean /\ Alone
  BY <1>4, NoneAssumption DEF Init, Clean, Alone
<1> QED
  BY <1>1, <1>2, <1>3, <1>5 DEF IInv

LEMMA StepInv ==
  ASSUME IInv, [Next]_vars
  PROVE  IInv'
BY TypeStep, FrameStep, CallingStep, CleanStep DEF IInv

LEMMA Invariance == Spec => []IInv
<1>1. Init => IInv
  BY InitInv
<1>2. IInv /\ [Next]_vars => IInv'
  BY StepInv
<1> QED
  BY <1>1, <1>2, PTL DEF Spec

\* The mailboxes, descriptors and frames stay in range, a device's mailbox is
\* nobody else's, and RRI_Close gives back no session that RRI_Open did not take.
THEOREM TypeCorrect == Spec => []TypeOK
<1>1. IInv => TypeOK
  BY DEF IInv
<1> QED
  BY Invariance, <1>1, PTL

\* RRI_Fork and _wait hand every inbound frame on exactly once, whichever client
\* a mailbox has passed to between them.
THEOREM FramesKept == Spec => []FrameKeptOnce
<1>1. IInv => FrameKeptOnce
  BY DEF IInv
<1> QED
  BY Invariance, <1>1, PTL

\* A synchronous call (RRI_Read and its kin) with no other request of its client
\* under way returns its own answer, on a mailbox never closed too early.
THEOREM AnswersOwn == Spec => OwnAnswer
<1> DEFINE Step ==
      \A c \in Clients :
        (want[c] # 0 /\ pc[c] = "sync" /\ pc'[c] = "idle" /\ device[c] \notin dirty)
          => Message(c).req.id = want[c]
<1>1. IInv /\ [Next]_vars => [Step]_vars
  <2> SUFFICES ASSUME IInv, Next, NEW c \in Clients, want[c] # 0, pc[c] = "sync",
                      pc'[c] = "idle", device[c] \notin dirty
               PROVE  Message(c).req.id = want[c]
    BY DEF IInv
  <2>1. TypeOK /\ Alone
    BY DEF IInv
  <2>2. Return(c)
    <3>1. ~Engines
      BY DEF Engines, Send, Answer, Lose, RRI_ForkFree, RRI_Fork
    <3>2. PICK d \in Clients : ClientStep(d)
      BY <3>1 DEF Next, ClientStep
    <3>3. pc \in [Clients -> {"idle", "wait", "sync"}]
      BY <2>1 DEF TypeOK
    <3> QED
      BY <3>2, <3>3 DEF ClientStep, RRI_Open, RRI_OpenFails, RRI_Bind, RRI_Close, RRI_Post,
                        RRI_Wait, RRI_Read, Return, WaitOn, Idle
  <2>3. device[c] \in Mailboxes \ dirty /\ Message(c).req \in Pending(device[c])
    BY <2>1, <2>2, WaitTypes DEF Return
  <2> QED
    BY <2>1, <2>3 DEF Alone
<1> QED
  BY Invariance, <1>1, PTL DEF Spec, OwnAnswer

=============================================================================
