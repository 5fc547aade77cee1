--------------------------- MODULE SasSessionProofs ---------------------------
(***************************************************************************)
(* Theorems about SasSession for every number of threads, sessions,        *)
(* mailboxes and semaphores.                                               *)
(***************************************************************************)
EXTENDS SasSession, SequenceTheorems, FiniteSetTheorems, TLAPS

\* The positions of the tail of a list.
LEMMA ListTail ==
  ASSUME NEW S, NEW q \in Seq(S), q # <<>>
  PROVE  /\ Tail(q) \in Seq(S) /\ Head(q) \in S /\ Head(q) = q[1] /\ 1 \in DOMAIN q
         /\ DOMAIN q = 1 .. Len(q) /\ Len(q) \in Nat
         /\ \A i \in DOMAIN Tail(q) : i + 1 \in DOMAIN q /\ Tail(q)[i] = q[i + 1] /\ i \in Nat \ {0}
         /\ \A i \in DOMAIN q : i # 1 => i - 1 \in DOMAIN Tail(q) /\ Tail(q)[i - 1] = q[i]
<1>1. DOMAIN q = 1 .. Len(q) /\ Len(q) \in Nat /\ Len(q) # 0 /\ Head(q) = q[1]
  OBVIOUS
<1>2. /\ Tail(q) \in Seq(S) /\ DOMAIN Tail(q) = 1 .. Len(q) - 1
      /\ \A i \in 1 .. Len(q) - 1 : Tail(q)[i] = q[i + 1]
  OBVIOUS
<1> QED
  BY <1>1, <1>2

\* Taking the head of a list of distinct elements.
LEMMA TakeHead ==
  ASSUME NEW S, NEW q \in Seq(S), q # <<>>, IsInjective(q)
  PROVE  /\ Head(q) \in S /\ Head(q) \in Range(q)
         /\ Tail(q) \in Seq(S)
         /\ IsInjective(Tail(q))
         /\ Range(Tail(q)) = Range(q) \ {Head(q)}
<1> DEFINE t == Tail(q)
<1>1. /\ t \in Seq(S) /\ Head(q) \in S /\ Head(q) = q[1] /\ 1 \in DOMAIN q
      /\ \A i \in DOMAIN t : i + 1 \in DOMAIN q /\ t[i] = q[i + 1] /\ i \in Nat \ {0}
      /\ \A i \in DOMAIN q : i # 1 => i - 1 \in DOMAIN t /\ t[i - 1] = q[i]
  BY ListTail
<1> HIDE DEF t
<1>2. \A i, j \in DOMAIN t : t[i] = t[j] => i + 1 = j + 1
  BY <1>1 DEF IsInjective
<1>3. IsInjective(t)
  BY <1>1, <1>2 DEF IsInjective
<1>4. \A i \in DOMAIN t : t[i] # q[1]
  BY <1>1 DEF IsInjective
<1>5. Range(t) = Range(q) \ {q[1]} /\ q[1] \in Range(q)
  BY <1>1, <1>4 DEF Range
<1> QED
  BY <1>1, <1>3, <1>5 DEF t

\* Appending to a list of distinct elements.
LEMMA GiveBack ==
  ASSUME NEW S, NEW q \in Seq(S), NEW e \in S
  PROVE  /\ Append(q, e) \in Seq(S)
         /\ Range(Append(q, e)) = Range(q) \cup {e}
         /\ IsInjective(q) /\ e \notin Range(q) => IsInjective(Append(q, e))
<1> DEFINE a == Append(q, e)
           k == Len(q) + 1
<1>1. /\ a \in Seq(S) /\ DOMAIN a = DOMAIN q \cup {k} /\ a[k] = e
      /\ \A i \in DOMAIN q : a[i] = q[i] /\ i # k
  OBVIOUS
<1> HIDE DEF a, k
<1> QED
  BY <1>1 DEF IsInjective, Range, a

\* The elements of a list, of its tail and of a longer one.
LEMMA ListElements ==
  ASSUME NEW S, NEW q \in Seq(S)
  PROVE  /\ Range(q) \subseteq S
         /\ q # <<>> => Head(q) \in Range(q) /\ Tail(q) \in Seq(S) /\ Range(Tail(q)) \subseteq Range(q)
         /\ \A e \in S : Append(q, e) \in Seq(S) /\ Range(Append(q, e)) = Range(q) \cup {e}
<1>1. Range(q) \subseteq S
  BY RangeOfSeq
<1>2. ASSUME q # <<>>
      PROVE  Head(q) \in Range(q) /\ Tail(q) \in Seq(S) /\ Range(Tail(q)) \subseteq Range(q)
  BY <1>2, HeadTailProperties DEF Range
<1>3. ASSUME NEW e \in S
      PROVE  Append(q, e) \in Seq(S) /\ Range(Append(q, e)) = Range(q) \cup {e}
  BY AppendProperties DEF Range
<1> QED
  BY <1>1, <1>2, <1>3

\* SetToSeq lists a finite set, every element once.
LEMMA SetToSeqLists ==
  ASSUME NEW S, IsFiniteSet(S)
  PROVE  /\ SetToSeq(S) \in Seq(S)
         /\ IsInjective(SetToSeq(S))
         /\ Range(SetToSeq(S)) = S
<1> DEFINE n == Cardinality(S)
<1>1. n \in Nat /\ ExistsBijection(1 .. n, S)
  BY FS_CardinalityType
<1>2. SetToSeq(S) \in [1 .. n -> S] /\ IsInjective(SetToSeq(S))
  BY <1>1 DEF SetToSeq, ExistsBijection, Bijection, Injection
<1>3. IsFiniteSet(1 .. n) /\ Cardinality(1 .. n) = n
  BY <1>1, FS_Interval
<1>4. SetToSeq(S) \in Surjection(1 .. n, S)
  BY <1>2, <1>3, FS_Injection DEF Injection
<1> QED
  BY <1>1, <1>2, <1>4 DEF Surjection, Range

-----------------------------------------------------------------------------
(***************************************************************************)
(* The inductive invariant.                                                *)
(***************************************************************************)
\* A session whose count is n has these mailboxes in reach, when its owner is at p
\* and works on position a.  A bind and a close that have loaded the count may
\* still store it, although a memset has reset it since; the mailbox being bound is
\* not yet one of the session's.
Span(n, p, a) ==
  {i \in Slots :
     /\ i <= n \/ (p \in {"mid", "count"} /\ i < a) \/ (p = "free" /\ i <= a)
     /\ p \in {"mid", "count", "base", "intr"} => a # i}

Reach(s) ==
  {i \in Slots :
     /\ Owners(s) = {} => i <= srcs[s]
     /\ \A t \in Owners(s) : i \in Span(srcs[s], pc[t], at[t])}

\* Session s has rundown mailbox x in reach, at position i.
Names(s, i, x) == i \in Reach(s) /\ mid[s][i] = x /\ base[s][i] = RUNDWN

\* What the steps of an operation know of each other: the thread has a session while
\* it is not idle, the position in use is in range and not below the count, and the
\* structure has the mailbox being bound, or the zeroes of a memset.
Local(t) ==
  /\ (pc[t] = "idle") = (handle[t] = NONE)
  /\ pc[t] \in {"alloc", "init"} => Srcs(t) = 0
  /\ Binding(t) \/ pc[t] = "free" => at[t] \in Slots
  /\ pc[t] \in {"mid", "count"} => Srcs(t) + 1 <= at[t]
  /\ pc[t] = "free" => Srcs(t) <= at[t]
  /\ pc[t] \in {"count", "base", "intr"} =>
       mid[handle[t]][at[t]] = input[t].mid \/ (torn /\ mid[handle[t]][at[t]] = ZERO)
  /\ pc[t] = "intr" => base[handle[t]][at[t]] \in {input[t].base, PEND}

Steps == \A t \in Threads : Local(t)

\* A session without an owner has no mailbox in reach.
Unowned == \A s \in Sessions : Owners(s) = {} => srcs[s] = 0

Named ==
  \A s \in Sessions : \A i \in Reach(s) : base[s][i] = RUNDWN => mid[s][i] \in Rundowns

\* RundownInOnePlace and InterruptWakesOwner, for all mailboxes in reach.
Places ==
  \A x \in Safe :
    /\ \A i, j \in Free(x) : i = j
    /\ \A t, u \in Taken(x) : t = u
    /\ \A s, r \in Sessions : \A i, j \in Slots : Names(s, i, x) /\ Names(r, j, x) => s = r /\ i = j
    /\ Free(x) = {} \/ Taken(x) = {}
    /\ \A s \in Sessions : \A i \in Slots : Names(s, i, x) => Free(x) = {} /\ Taken(x) = {}

Awake(t) == pc[t] = "open" \/ Binding(t)

Wakes ==
  \A x \in Safe : \A s \in Sessions : \A i \in Slots : \A t \in Owners(s) :
    Names(s, i, x) /\ Awake(t) /\ sync[s] # NONE => intrTable[x] = sync[s]

IInv ==
  /\ TypeOK /\ Steps /\ Unowned /\ Named
  /\ SessionInOnePlace /\ Places /\ Wakes

-----------------------------------------------------------------------------
(***************************************************************************)
(* What keeps each part of the invariant.                                  *)
(***************************************************************************)
\* A thread at work on a session is its only owner: another thread that has the
\* same session is clearing it.
LEMMA OneOwner ==
  ASSUME IInv, NEW t \in Threads, pc[t] \notin {"idle", "clear"}
  PROVE  /\ handle[t] \in Sessions /\ Owners(handle[t]) = {t}
         /\ \A u \in Threads \ {t} : handle[u] = handle[t] => pc[u] = "clear"
<1>1. handle[t] \in Sessions
  BY DEF IInv, Steps, Local, TypeOK
<1>2. t \in Owners(handle[t])
  BY DEF Owners
<1>3. \A u \in Owners(handle[t]) : u = t
  BY <1>1, <1>2 DEF IInv, SessionInOnePlace
<1> QED
  BY <1>1, <1>2, <1>3 DEF Owners

\* The mailboxes in reach of a session with one owner, and with none.
LEMMA ReachOfOwned ==
  ASSUME NEW s \in Sessions, NEW t \in Threads
  PROVE  /\ Owners(s) = {t} => Reach(s) = Span(srcs[s], pc[t], at[t])
         /\ Owners(s)' = {t} => Reach(s)' = Span(srcs'[s], pc'[t], at'[t])
<1>1. ASSUME Owners(s) = {t} PROVE Reach(s) = Span(srcs[s], pc[t], at[t])
  BY <1>1 DEF Reach, Span
<1>2. ASSUME Owners(s)' = {t} PROVE Reach(s)' = Span(srcs'[s], pc'[t], at'[t])
  BY <1>2 DEF Reach, Span
<1> QED
  BY <1>1, <1>2

LEMMA ReachOfUnowned ==
  ASSUME NEW s \in Sessions
  PROVE  /\ Owners(s) = {} /\ srcs[s] = 0 => Reach(s) = {}
         /\ Owners(s)' = {} /\ srcs'[s] = 0 => Reach(s)' = {}
<1>1. \A i \in Slots : ~(i <= 0)
  BY DEF Slots
<1>2. ASSUME Owners(s) = {}, srcs[s] = 0 PROVE Reach(s) = {}
  BY <1>1, <1>2 DEF Reach
<1>3. ASSUME Owners(s)' = {}, srcs'[s] = 0 PROVE Reach(s)' = {}
  BY <1>1, <1>3 DEF Reach
<1> QED
  BY <1>2, <1>3

\* The sessions a thread does not work on keep their owners and their reach.
LEMMA Elsewhere ==
  ASSUME NEW t \in Threads, NEW s \in Sessions, t \notin Owners(s), t \notin Owners(s)',
         \A u \in Threads \ {t} : handle'[u] = handle[u] /\ pc'[u] = pc[u] /\ at'[u] = at[u],
         srcs'[s] = srcs[s]
  PROVE  Owners(s)' = Owners(s) /\ Reach(s)' = Reach(s)
<1>1. Owners(s)' = Owners(s)
  BY DEF Owners
<1>2. \A u \in Owners(s) : pc'[u] = pc[u] /\ at'[u] = at[u]
  BY DEF Owners
<1> QED
  BY <1>1, <1>2 DEF Reach

LEMMA SameOwners ==
  ASSUME SessionInOnePlace, TypeOK, UNCHANGED <<freeSess, lost>>,
         \A s \in Sessions : Owners(s)' = Owners(s)
  PROVE  SessionInOnePlace'
<1>1. Range(freeSess) \subseteq Sessions /\ lost \subseteq Sessions
  BY ListElements DEF TypeOK
<1> QED
  BY <1>1 DEF SessionInOnePlace

\* A step of the owner t of a session, which stays its owner and changes no other.
LEMMA OwnerStep ==
  ASSUME IInv, NEW t \in Threads,
         pc[t] \notin {"idle", "clear"}, pc'[t] \notin {"idle", "clear"},
         UNCHANGED <<freeSess, handle, lost, torn>>,
         \A u \in Threads \ {t} : pc'[u] = pc[u] /\ at'[u] = at[u] /\ input'[u] = input[u],
         \A s \in Sessions \ {handle[t]} :
           srcs'[s] = srcs[s] /\ mid'[s] = mid[s] /\ base'[s] = base[s],
         Local(t)'
  PROVE  /\ Steps' /\ Unowned' /\ SessionInOnePlace'
         /\ \A s \in Sessions : Owners(s)' = Owners(s)
         /\ \A s \in Sessions \ {handle[t]} : Reach(s)' = Reach(s) /\ t \notin Owners(s)
         /\ Reach(handle[t]) = Span(srcs[handle[t]], pc[t], at[t])
         /\ Reach(handle[t])' = Span(srcs'[handle[t]], pc'[t], at'[t])
<1> DEFINE h == handle[t]
<1>i. TypeOK /\ Steps /\ Unowned /\ SessionInOnePlace
  BY DEF IInv
<1>1. /\ h \in Sessions /\ Owners(h) = {t}
      /\ \A u \in Threads \ {t} : handle[u] = h => pc[u] = "clear"
  BY OneOwner
<1>2. Owners(h)' = {t}
  BY <1>1 DEF Owners
<1>3. ASSUME NEW s \in Sessions \ {h}
      PROVE  Owners(s)' = Owners(s) /\ Reach(s)' = Reach(s) /\ t \notin Owners(s)
  <2>1. t \notin Owners(s) /\ t \notin Owners(s)'
    BY <1>3 DEF Owners
  <2>2. srcs'[s] = srcs[s] /\ s \in Sessions
    BY <1>3
  <2> QED
    BY <2>1, <2>2, Elsewhere
<1>4. \A s \in Sessions : Owners(s)' = Owners(s)
  BY <1>1, <1>2, <1>3
<1>5. Reach(h) = Span(srcs[h], pc[t], at[t]) /\ Reach(h)' = Span(srcs'[h], pc'[t], at'[t])
  BY <1>1, <1>2, ReachOfOwned
<1>6. Steps'
  <2> SUFFICES ASSUME NEW u \in Threads \ {t}
               PROVE  Local(u)'
    BY DEF Steps
  <2>1. Local(u) /\ pc'[u] = pc[u] /\ at'[u] = at[u] /\ input'[u] = input[u]
    BY <1>i DEF Steps
  <2>2. CASE pc[u] \in {"idle", "clear"}
    BY <2>1, <2>2 DEF Local, Binding
  <2>3. CASE pc[u] \notin {"idle", "clear"}
    <3>1. handle[u] \in Sessions /\ handle[u] # h
      BY <1>1, <2>3, OneOwner
    <3> QED
      BY <2>1, <3>1 DEF Local, Binding, Srcs
  <2> QED
    BY <2>2, <2>3
<1>7. Unowned'
  BY <1>i, <1>1, <1>4 DEF Unowned
<1>8. SessionInOnePlace'
  BY <1>i, <1>4, SameOwners
<1> QED
  BY <1>3, <1>4, <1>5, <1>6, <1>7, <1>8

\* No session gets a mailbox that it did not have.
LEMMA NoNewNames ==
  ASSUME IInv,
         \A s \in Sessions : \A i \in Reach(s)' : base'[s][i] = RUNDWN =>
           i \in Reach(s) /\ base[s][i] = RUNDWN /\ mid'[s][i] = mid[s][i]
  PROVE  Named' /\ \A x : \A s \in Sessions : \A i \in Slots : Names(s, i, x)' => Names(s, i, x)
<1>1. Named'
  BY DEF IInv, Named
<1>2. ASSUME NEW x, NEW s \in Sessions, NEW i \in Slots, Names(s, i, x)'
      PROVE  Names(s, i, x)
  BY <1>2 DEF Names
<1> QED
  BY <1>1, <1>2

\* Mailboxes that stay where they are, or disappear.
LEMMA PlacesKept ==
  ASSUME Places, UNCHANGED freeRun, Safe' \subseteq Safe,
         \A x \in Safe' : Taken(x)' \subseteq Taken(x),
         \A x \in Safe' : \A s \in Sessions : \A i \in Slots : Names(s, i, x)' => Names(s, i, x)
  PROVE  Places'
<1> SUFFICES ASSUME NEW x \in Safe'
             PROVE  /\ \A i, j \in Free(x)' : i = j
                    /\ \A t, u \in Taken(x)' : t = u
                    /\ \A s, r \in Sessions : \A i, j \in Slots :
                         Names(s, i, x)' /\ Names(r, j, x)' => s = r /\ i = j
                    /\ Free(x)' = {} \/ Taken(x)' = {}
                    /\ \A s \in Sessions : \A i \in Slots :
                         Names(s, i, x)' => Free(x)' = {} /\ Taken(x)' = {}
  BY DEF Places
<1>1. Free(x)' = Free(x) /\ x \in Safe
  BY DEF Free
<1> QED
  BY <1>1 DEF Places

\* Sessions whose mailboxes, semaphore and owner are as they were.
LEMMA WakesKept ==
  ASSUME Wakes, UNCHANGED intrTable, Safe' \subseteq Safe,
         \A x \in Safe' : \A s \in Sessions : \A i \in Slots : Names(s, i, x)' => Names(s, i, x),
         \A s \in Sessions : \A u \in Owners(s)' : Reach(s)' # {} /\ Awake(u)' /\ sync'[s] # NONE =>
           u \in Owners(s) /\ Awake(u) /\ sync'[s] = sync[s]
  PROVE  Wakes'
<1> SUFFICES ASSUME NEW x \in Safe', NEW s \in Sessions, NEW i \in Slots, NEW u \in Owners(s)',
                    Names(s, i, x)', Awake(u)', sync'[s] # NONE
             PROVE  intrTable'[x] = sync'[s]
  BY DEF Wakes
<1>1. Reach(s)' # {}
  BY DEF Names
<1>2. u \in Owners(s) /\ Awake(u) /\ sync'[s] = sync[s] /\ Names(s, i, x) /\ x \in Safe
  BY <1>1
<1> QED
  BY <1>2 DEF Wakes

\* A step of an owner that moves no rundown mailbox and writes no interrupt entry.
LEMMA QuietStep ==
  ASSUME IInv, TypeOK', NEW t \in Threads, NEW h \in Sessions, handle[t] = h,
         pc[t] \notin {"idle", "clear"}, pc'[t] \notin {"idle", "clear"},
         UNCHANGED <<freeSess, freeRun, intrTable, handle, lost, torn>>,
         \A u \in Threads \ {t} : pc'[u] = pc[u] /\ at'[u] = at[u] /\ input'[u] = input[u],
         \A s \in Sessions \ {h} :
           srcs'[s] = srcs[s] /\ mid'[s] = mid[s] /\ base'[s] = base[s] /\ sync'[s] = sync[s],
         Local(t)',
         \A i \in Span(srcs'[h], pc'[t], at'[t]) : base'[h][i] = RUNDWN =>
           /\ i \in Span(srcs[h], pc[t], at[t])
           /\ base[h][i] = RUNDWN /\ mid'[h][i] = mid[h][i],
         Binding(t)' => input'[t].base = PEND \/ (Binding(t) /\ input'[t] = input[t]),
         Span(srcs'[h], pc'[t], at'[t]) # {} /\ Awake(t)' /\ sync'[h] # NONE =>
           Awake(t) /\ sync'[h] = sync[h]
  PROVE  IInv'
<1>i. TypeOK /\ Named /\ Places /\ Wakes
  BY DEF IInv
<1>1. /\ Steps' /\ Unowned' /\ SessionInOnePlace'
      /\ \A s \in Sessions : Owners(s)' = Owners(s)
      /\ \A s \in Sessions \ {h} : Reach(s)' = Reach(s) /\ t \notin Owners(s)
      /\ Reach(h) = Span(srcs[h], pc[t], at[t])
      /\ Reach(h)' = Span(srcs'[h], pc'[t], at'[t])
  BY OwnerStep
<1>2. ASSUME NEW s \in Sessions, NEW i \in Reach(s)', base'[s][i] = RUNDWN
      PROVE  i \in Reach(s) /\ base[s][i] = RUNDWN /\ mid'[s][i] = mid[s][i]
  BY <1>1, <1>2
<1>3. Named' /\ \A x : \A s \in Sessions : \A i \in Slots : Names(s, i, x)' => Names(s, i, x)
  BY <1>2, NoNewNames
<1>4. Safe' = Safe
  BY DEF Safe
<1>5. Places'
  <2>1. ASSUME NEW x, NEW u \in Taken(x)'
        PROVE  u \in Taken(x)
    <3>1. CASE u = t
      <4>1. Binding(t)' /\ input'[t] = Input(x, RUNDWN)
        BY <2>1, <3>1 DEF Taken
      <4>2. input'[t].base # PEND
        BY <4>1 DEF Input, RUNDWN, PEND
      <4> QED
        BY <3>1, <4>1, <4>2 DEF Taken
    <3>2. CASE u # t
      BY <2>1, <3>2 DEF Taken, Binding
    <3> QED
      BY <3>1, <3>2
  <2>2. \A x : Taken(x)' \subseteq Taken(x)
    BY <2>1
  <2> QED
    BY <1>i, <1>3, <1>4, <2>2, PlacesKept
<1>6. Wakes'
  <2>1. ASSUME NEW s \in Sessions, NEW u \in Owners(s)', Reach(s)' # {}, Awake(u)', sync'[s] # NONE
        PROVE  u \in Owners(s) /\ Awake(u) /\ sync'[s] = sync[s]
    <3>1. u \in Owners(s)
      BY <1>1, <2>1
    <3>2. CASE s = h
      <4>1. u = t
        BY <3>1, <3>2, OneOwner
      <4> QED
        BY <1>1, <2>1, <3>1, <3>2, <4>1
    <3>3. CASE s # h
      <4>1. u \in Threads \ {t}
        BY <1>1, <3>1, <3>3 DEF Owners
      <4> QED
        BY <2>1, <3>1, <3>3, <4>1 DEF Awake, Binding
    <3> QED
      BY <3>2, <3>3
  <2> QED
    BY <1>i, <1>3, <1>4, <2>1, WakesKept
<1> QED
  BY <1>1, <1>3, <1>5, <1>6 DEF IInv

\* A step that ends the ownership of a session without mailboxes.
LEMMA LeaveStep ==
  ASSUME IInv, TypeOK', NEW t \in Threads, NEW h \in Sessions, handle[t] = h,
         pc[t] \notin {"idle", "clear"}, ~Binding(t), t \notin Owners(h)', Local(t)',
         pc'[t] \in {"idle", "clear"}, handle'[t] \in {h, NONE}, srcs[h] = 0,
         UNCHANGED <<freeRun, intrTable, srcs, mid, base, sync, torn, at, input>>,
         \A u \in Threads \ {t} : handle'[u] = handle[u] /\ pc'[u] = pc[u],
         IsInjective(freeSess'), Range(freeSess') \cup lost' = Range(freeSess) \cup lost \cup {h},
         Range(freeSess') \cap lost' = {}
  PROVE  IInv'
<1>i. TypeOK /\ Steps /\ Unowned /\ Named /\ SessionInOnePlace /\ Places /\ Wakes
  BY DEF IInv
<1>1. Owners(h) = {t} /\ \A u \in Threads \ {t} : handle[u] = h => pc[u] = "clear"
  BY OneOwner
<1>2. Owners(h)' = {}
  BY <1>1 DEF Owners
<1>3. ASSUME NEW s \in Sessions \ {h}
      PROVE  Owners(s)' = Owners(s) /\ Reach(s)' = Reach(s)
  <2>1. t \notin Owners(s) /\ t \notin Owners(s)'
    BY <1>3, NoneAssumption DEF Owners
  <2> QED
    BY <2>1, Elsewhere
<1>4. Reach(h)' = {}
  BY <1>2, ReachOfUnowned
<1>5. Steps'
  <2>1. ASSUME NEW u \in Threads \ {t} PROVE Local(u)'
    BY <1>i, <2>1 DEF Steps, Local, Binding, Srcs
  <2> QED
    BY <2>1 DEF Steps
<1>6. Unowned'
  BY <1>i, <1>3 DEF Unowned
<1>7. SessionInOnePlace'
  <2>1. Range(freeSess) \subseteq Sessions /\ Range(freeSess)' \subseteq Sessions
    BY <1>i, ListElements DEF TypeOK
  <2>2. \A s \in Range(freeSess)' : s \notin lost' /\ Owners(s)' = {}
    BY <1>i, <1>2, <1>3, <2>1 DEF SessionInOnePlace
  <2>3. \A s \in lost' : Owners(s)' = {}
    BY <1>i, <1>2, <1>3, <2>1 DEF SessionInOnePlace, TypeOK
  <2>4. \A s \in Sessions : s \in Range(freeSess)' \/ s \in lost' \/ Owners(s)' # {}
    BY <1>i, <1>3 DEF SessionInOnePlace
  <2>5. \A s \in Sessions : \A u, v \in Owners(s)' : u = v
    BY <1>i, <1>2, <1>3 DEF SessionInOnePlace
  <2> QED
    BY <2>2, <2>3, <2>4, <2>5 DEF SessionInOnePlace
<1>8. Named' /\ \A x : \A s \in Sessions : \A i \in Slots : Names(s, i, x)' => Names(s, i, x)
  BY <1>3, <1>4, NoNewNames
<1>9. Safe' = Safe
  BY DEF Safe
<1>10. Places'
  <2>1. \A x : Taken(x)' \subseteq Taken(x)
    BY DEF Taken, Binding
  <2> QED
    BY <1>i, <1>8, <1>9, <2>1, PlacesKept
<1>11. Wakes'
  <2>1. ASSUME NEW s \in Sessions, NEW u \in Owners(s)'
        PROVE  u \in Owners(s) /\ (Awake(u)' => Awake(u)) /\ sync'[s] = sync[s]
    <3>1. u \in Owners(s)
      BY <1>2, <1>3, <2>1
    <3>2. u # t => Awake(u)' = Awake(u)
      BY <3>1 DEF Awake, Binding, Owners
    <3>3. ~Awake(t)'
      BY DEF Awake, Binding
    <3> QED
      BY <3>1, <3>2, <3>3
  <2> QED
    BY <1>i, <1>8, <1>9, <2>1, WakesKept
<1> QED
  BY <1>5, <1>6, <1>7, <1>8, <1>10, <1>11 DEF IInv

\* A store into one mailbox of one session.
LEMMA MailboxStore ==
  ASSUME NEW V, NEW f \in [Sessions -> [Slots -> V]], NEW s \in Sessions, NEW i \in Slots, NEW v \in V,
         NEW g, g = [f EXCEPT ![s][i] = v]
  PROVE  /\ g \in [Sessions -> [Slots -> V]] /\ g[s][i] = v
         /\ \A j \in Slots \ {i} : g[s][j] = f[s][j]
         /\ \A r \in Sessions \ {s} : g[r] = f[r]
OBVIOUS

LEMMA InitIInv == Init => IInv
<1> SUFFICES ASSUME Init
             PROVE  IInv
  OBVIOUS
<1>1. /\ freeSess \in Seq(Sessions) /\ IsInjective(freeSess) /\ Range(freeSess) = Sessions
      /\ freeRun \in Seq(Rundowns) /\ IsInjective(freeRun) /\ Range(freeRun) = Rundowns
  BY FiniteAssumption, SetToSeqLists DEF Init
<1>2. Nothing \in Inputs /\ ZERO \in Ids /\ 0 \in 0 .. MaxInputs
  BY ZeroAssumption, MaxInputsAssumption DEF Nothing, Input, Inputs, Ids
<1>3. TypeOK
  BY <1>1, <1>2 DEF Init, TypeOK
<1>4. Steps
  BY DEF Init, Steps, Local, Binding
<1>5. \A s \in Sessions : Owners(s) = {} /\ srcs[s] = 0
  BY NoneAssumption DEF Init, Owners
<1>6. \A s \in Sessions : Reach(s) = {}
  BY <1>5, ReachOfUnowned
<1>7. Unowned /\ Named /\ Wakes
  BY <1>5, <1>6 DEF Unowned, Named, Wakes
<1>8. SessionInOnePlace
  BY <1>1, <1>5 DEF Init, SessionInOnePlace
<1>9. Places
  <2>1. \A x : Taken(x) = {}
    BY DEF Init, Taken, Binding
  <2>2. \A x : \A i, j \in Free(x) : i = j
    BY <1>1 DEF Free, IsInjective
  <2>3. \A x : \A s \in Sessions : \A i \in Slots : ~Names(s, i, x)
    BY <1>6 DEF Names
  <2> QED
    BY <2>1, <2>2, <2>3 DEF Places
<1> QED
  BY <1>3, <1>4, <1>7, <1>8, <1>9 DEF IInv

-----------------------------------------------------------------------------
(***************************************************************************)
(* Every step keeps the invariant: SAS_Open.                               *)
(***************************************************************************)
LEMMA OpenTakeIInv ==
  ASSUME IInv, NEW t \in Threads, OpenTake(t)
  PROVE  IInv'
<1>i. TypeOK /\ Steps /\ Unowned /\ Named /\ SessionInOnePlace /\ Places /\ Wakes
  BY DEF IInv
<1>h. PICK h \in Sessions : h = Head(freeSess)
  BY <1>i, TakeHead DEF TypeOK, SessionInOnePlace, OpenTake
<1>1. /\ h \in Sessions /\ h \in Range(freeSess)
      /\ freeSess' \in Seq(Sessions) /\ IsInjective(freeSess')
      /\ Range(freeSess') = Range(freeSess) \ {h}
  BY <1>i, <1>h, TakeHead DEF TypeOK, SessionInOnePlace, OpenTake
<1>2. /\ pc[t] = "idle" /\ pc' = [pc EXCEPT ![t] = "alloc"]
      /\ handle' = [handle EXCEPT ![t] = h]
      /\ UNCHANGED <<freeRun, mapped, sync, srcs, mid, base, syncs, intrTable,
                     input, at, clearing, lost, torn>>
  BY <1>h DEF OpenTake, Goto, struct, sems
<1>3. TypeOK'
  BY <1>i, <1>1, <1>2 DEF TypeOK
<1>4. handle[t] = NONE /\ Owners(h) = {} /\ srcs[h] = 0
  BY <1>i, <1>1, <1>2 DEF Steps, Local, SessionInOnePlace, Unowned
<1>5. /\ pc'[t] = "alloc" /\ handle'[t] = h
      /\ \A u \in Threads \ {t} : pc'[u] = pc[u] /\ handle'[u] = handle[u] /\ at'[u] = at[u]
  BY <1>i, <1>2 DEF TypeOK
<1>6. Owners(h)' = {t}
  BY <1>4, <1>5 DEF Owners
<1>7. ASSUME NEW s \in Sessions \ {h}
      PROVE  Owners(s)' = Owners(s) /\ Reach(s)' = Reach(s)
  <2>1. t \notin Owners(s) /\ t \notin Owners(s)'
    BY <1>4, <1>5, <1>7, NoneAssumption DEF Owners
  <2> QED
    BY <1>2, <1>5, <1>7, <2>1, Elsewhere
<1>8. Reach(h)' = {}
  <2>1. Reach(h)' = Span(0, "alloc", at'[t])
    BY <1>1, <1>2, <1>4, <1>5, <1>6, ReachOfOwned
  <2>2. \A i \in Slots : ~(i <= 0)
    BY DEF Slots
  <2> QED
    BY <2>1, <2>2 DEF Span
<1>9. Steps'
  <2>1. Local(t)'
    BY <1>1, <1>2, <1>4, <1>5, NoneAssumption DEF Local, Binding, Srcs
  <2>2. ASSUME NEW u \in Threads \ {t} PROVE Local(u)'
    BY <1>i, <1>2, <1>5, <2>2 DEF Steps, Local, Binding, Srcs
  <2> QED
    BY <2>1, <2>2 DEF Steps
<1>10. Unowned'
  BY <1>i, <1>2, <1>6, <1>7 DEF Unowned
<1>11. SessionInOnePlace'
  <2>1. \A s \in Range(freeSess)' : s \notin lost' /\ Owners(s)' = {}
    <3>1. Range(freeSess)' \subseteq Sessions
      BY <1>1, ListElements
    <3> QED
      BY <1>i, <1>1, <1>2, <1>7, <3>1 DEF SessionInOnePlace
  <2>2. \A s \in lost' : Owners(s)' = {}
    BY <1>i, <1>1, <1>2, <1>7 DEF SessionInOnePlace, TypeOK
  <2>3. \A s \in Sessions : s \in Range(freeSess)' \/ s \in lost' \/ Owners(s)' # {}
    BY <1>i, <1>1, <1>2, <1>6, <1>7 DEF SessionInOnePlace
  <2>4. \A s \in Sessions : \A u, v \in Owners(s)' : u = v
    BY <1>i, <1>6, <1>7 DEF SessionInOnePlace
  <2> QED
    BY <1>1, <2>1, <2>2, <2>3, <2>4 DEF SessionInOnePlace
<1>12. /\ Named'
       /\ \A x : \A s \in Sessions : \A i \in Slots : Names(s, i, x)' => Names(s, i, x)
  BY <1>2, <1>7, <1>8, NoNewNames
<1>13. Safe' = Safe
  BY <1>2 DEF Safe
<1>14. Places'
  <2>1. \A x : Taken(x)' \subseteq Taken(x)
    BY <1>2, <1>5 DEF Taken, Binding
  <2> QED
    BY <1>i, <1>2, <1>12, <1>13, <2>1, PlacesKept
<1>15. Wakes'
  <2>1. ASSUME NEW s \in Sessions, NEW u \in Owners(s)', Reach(s)' # {}
        PROVE  u \in Owners(s) /\ (Awake(u)' => Awake(u)) /\ sync'[s] = sync[s]
    <3>1. s # h /\ u \in Owners(s)
      BY <1>7, <1>8, <2>1
    <3>2. u \in Threads \ {t}
      BY <1>4, <3>1, NoneAssumption DEF Owners
    <3> QED
      BY <1>2, <1>5, <3>1, <3>2 DEF Awake, Binding
  <2> QED
    BY <1>i, <1>2, <1>12, <1>13, <2>1, WakesKept
<1> QED
  BY <1>3, <1>9, <1>10, <1>11, <1>12, <1>14, <1>15 DEF IInv

LEMMA OpenIInv ==
  ASSUME IInv, NEW t \in Threads, SAS_Open(t)
  PROVE  IInv'
<1>i. TypeOK /\ Steps /\ SessionInOnePlace
  BY DEF IInv
<1>n. \A i \in Slots : ~(i <= 0)
  BY DEF Slots
<1>1. ASSUME NEW id \in Syncs, IntrAllocSync(t, id)
      PROVE  IInv'
  <2>1. /\ pc[t] = "alloc" /\ pc' = [pc EXCEPT ![t] = "init"]
        /\ syncs' = syncs \cup {id}
        /\ sync' = [sync EXCEPT ![handle[t]] = id]
        /\ UNCHANGED <<freeSess, freeRun, mapped, srcs, mid, base, intrTable,
                       handle, input, at, clearing, lost, torn>>
    BY <1>1 DEF IntrAllocSync, Goto, fifos
  <2>2. PICK h \in Sessions : h = handle[t]
    BY <2>1, OneOwner
  <2>3. TypeOK'
    BY <1>i, <2>1, <2>2 DEF TypeOK
  <2>4. pc'[t] = "init" /\ \A u \in Threads \ {t} : pc'[u] = pc[u]
    BY <1>i, <2>1 DEF TypeOK
  <2>5. srcs[h] = 0 /\ Local(t)'
    BY <1>i, <2>1, <2>2, <2>4 DEF Steps, Local, Binding, Srcs
  <2>6. Span(srcs'[h], pc'[t], at'[t]) = {}
    BY <1>n, <2>1, <2>4, <2>5 DEF Span
  <2>7. ~Binding(t)'
    BY <2>4 DEF Binding
  <2>8. \A s \in Sessions \ {h} : sync'[s] = sync[s]
    BY <1>i, <2>1, <2>2 DEF TypeOK
  <2> QED
    BY <2>1, <2>2, <2>3, <2>4, <2>5, <2>6, <2>7, <2>8, QuietStep
<1>2. CASE OpenInit(t)
  <2>1. /\ pc[t] = "init" /\ pc' = [pc EXCEPT ![t] = "open"]
        /\ mapped' = [mapped EXCEPT ![handle[t]] = TRUE]
        /\ srcs' = [srcs EXCEPT ![handle[t]] = 0]
        /\ UNCHANGED <<freeSess, freeRun, sync, mid, base, syncs, intrTable,
                       handle, input, at, clearing, lost, torn>>
    BY <1>2 DEF OpenInit, Goto, fifos, sems
  <2>2. PICK h \in Sessions : h = handle[t]
    BY <2>1, OneOwner
  <2>3. TypeOK'
    <3>1. 0 \in 0 .. MaxInputs
      BY MaxInputsAssumption
    <3> QED
      BY <1>i, <2>1, <2>2, <3>1 DEF TypeOK
  <2>4. pc'[t] = "open" /\ \A u \in Threads \ {t} : pc'[u] = pc[u]
    BY <1>i, <2>1 DEF TypeOK
  <2>5. srcs'[h] = 0 /\ \A s \in Sessions \ {h} : srcs'[s] = srcs[s]
    BY <1>i, <2>1, <2>2 DEF TypeOK
  <2>6. Local(t)'
    BY <1>i, <2>1, <2>4 DEF Steps, Local, Binding
  <2>7. Span(srcs'[h], pc'[t], at'[t]) = {}
    BY <1>n, <2>4, <2>5 DEF Span
  <2>8. ~Binding(t)'
    BY <2>4 DEF Binding
  <2> QED
    BY <2>1, <2>2, <2>3, <2>4, <2>5, <2>6, <2>7, <2>8, QuietStep
<1>3. CASE OpenFails(t)
  <2>1. /\ pc[t] = "alloc" /\ pc' = [pc EXCEPT ![t] = "idle"]
        /\ lost' = lost \cup {handle[t]}
        /\ handle' = [handle EXCEPT ![t] = NONE]
        /\ UNCHANGED <<freeSess, freeRun, mapped, sync, srcs, mid, base, syncs, intrTable,
                       input, at, clearing, torn>>
    BY <1>3 DEF OpenFails, Goto, fifos, struct, sems
  <2>2. PICK h \in Sessions : h = handle[t]
    BY <2>1, OneOwner
  <2>3. TypeOK'
    BY <1>i, <2>1, <2>2 DEF TypeOK
  <2>4. /\ pc'[t] = "idle" /\ handle'[t] = NONE
        /\ \A u \in Threads \ {t} : handle'[u] = handle[u] /\ pc'[u] = pc[u]
    BY <1>i, <2>1 DEF TypeOK
  <2>5. srcs[h] = 0 /\ Local(t)' /\ ~Binding(t)
    BY <1>i, <2>1, <2>2, <2>4 DEF Steps, Local, Binding, Srcs
  <2>6. t \notin Owners(h)'
    BY <2>4, NoneAssumption DEF Owners
  <2>7. h \notin Range(freeSess) /\ Range(freeSess) \cap lost = {} /\ IsInjective(freeSess)
    <3>1. Owners(h) = {t}
      BY <2>1, <2>2, OneOwner
    <3> QED
      BY <1>i, <3>1 DEF SessionInOnePlace
  <2> QED
    BY <2>1, <2>2, <2>3, <2>4, <2>5, <2>6, <2>7, LeaveStep
<1> QED
  BY <1>1, <1>2, <1>3, OpenTakeIInv DEF SAS_Open

-----------------------------------------------------------------------------
(***************************************************************************)
(* The binds.                                                              *)
(***************************************************************************)
\* A bind that has found room: what both forms have in common.
LEMMA BindStarts ==
  ASSUME IInv, NEW t \in Threads, NEW x \in Inputs, BindStart(t, x)
  PROVE  /\ handle[t] \in Sessions /\ pc[t] = "open" /\ pc'[t] = "mid"
         /\ pc' = [pc EXCEPT ![t] = "mid"]
         /\ \A u \in Threads \ {t} : pc'[u] = pc[u] /\ at'[u] = at[u] /\ input'[u] = input[u]
         /\ UNCHANGED <<freeSess, mapped, sync, srcs, mid, base, syncs, intrTable,
                        handle, clearing, lost, torn>>
         /\ input'[t] = x /\ at'[t] = srcs[handle[t]] + 1 /\ at'[t] \in Slots
         /\ Local(t)' /\ (freeRun' \in Seq(Rundowns) => TypeOK')
         /\ Span(srcs[handle[t]], "mid", at'[t]) = Span(srcs[handle[t]], "open", at[t])
<1>i. TypeOK /\ Steps
  BY DEF IInv
<1>1. /\ pc[t] = "open" /\ pc' = [pc EXCEPT ![t] = "mid"]
      /\ srcs[handle[t]] + 1 <= MaxInputs
      /\ input' = [input EXCEPT ![t] = x]
      /\ at' = [at EXCEPT ![t] = srcs[handle[t]] + 1]
      /\ UNCHANGED <<freeSess, mapped, sync, srcs, mid, base, syncs, intrTable,
                     handle, clearing, lost, torn>>
  BY DEF BindStart, Goto, Room, Srcs, struct, sems
<1>2. handle[t] \in Sessions
  BY <1>1, OneOwner
<1>3. srcs[handle[t]] \in 0 .. MaxInputs /\ MaxInputs \in Nat
  BY <1>i, <1>2, MaxInputsAssumption DEF TypeOK
<1>4. /\ srcs[handle[t]] + 1 \in Slots /\ srcs[handle[t]] + 1 \in 0 .. MaxInputs
      /\ \A i \in Slots : i # srcs[handle[t]] + 1 => (i < srcs[handle[t]] + 1) = (i <= srcs[handle[t]])
      /\ ~(srcs[handle[t]] + 1 <= srcs[handle[t]])
  BY <1>1, <1>3 DEF Slots
<1>5. /\ pc'[t] = "mid" /\ input'[t] = x /\ at'[t] = srcs[handle[t]] + 1
      /\ \A u \in Threads \ {t} : pc'[u] = pc[u] /\ at'[u] = at[u] /\ input'[u] = input[u]
  BY <1>i, <1>1 DEF TypeOK
<1>6. Local(t)'
  BY <1>i, <1>1, <1>3, <1>4, <1>5 DEF Steps, Local, Binding, Srcs
<1>7. freeRun' \in Seq(Rundowns) => TypeOK'
  BY <1>i, <1>1, <1>4 DEF TypeOK
<1>8. Span(srcs[handle[t]], "mid", at'[t]) = Span(srcs[handle[t]], "open", at[t])
  BY <1>4, <1>5 DEF Span
<1> QED
  BY <1>1, <1>2, <1>4, <1>5, <1>6, <1>7, <1>8

LEMMA BindTakeIInv ==
  ASSUME IInv, NEW t \in Threads, BindTake(t)
  PROVE  IInv'
<1>i. TypeOK /\ Named /\ Places /\ Wakes
  BY DEF IInv
<1>1. /\ freeRun # <<>> /\ freeRun' = Tail(freeRun) /\ BindStart(t, Input(Head(freeRun), RUNDWN))
      /\ freeRun \in Seq(Rundowns)
  BY <1>i DEF BindTake, TypeOK
<1>2. /\ Tail(freeRun) \in Seq(Rundowns) /\ Head(freeRun) \in Rundowns /\ Head(freeRun) = freeRun[1]
      /\ 1 \in DOMAIN freeRun
      /\ \A i \in DOMAIN Tail(freeRun) :
           i + 1 \in DOMAIN freeRun /\ Tail(freeRun)[i] = freeRun[i + 1] /\ i \in Nat \ {0}
  BY <1>1, ListTail
<1>3. PICK y \in Rundowns : y = Head(freeRun)
  BY <1>2
<1>4. Input(y, RUNDWN) \in Inputs /\ \A x : Input(y, RUNDWN) = Input(x, RUNDWN) => x = y
  BY DEF Inputs, Input
<1>5. PICK h \in Sessions : h = handle[t]
  BY <1>1, <1>3, <1>4, BindStarts
<1>6. /\ pc[t] = "open" /\ pc'[t] = "mid"
      /\ \A u \in Threads \ {t} : pc'[u] = pc[u] /\ at'[u] = at[u] /\ input'[u] = input[u]
      /\ UNCHANGED <<freeSess, mapped, sync, srcs, mid, base, syncs, intrTable,
                     handle, clearing, lost, torn>>
      /\ input'[t] = Input(y, RUNDWN) /\ Local(t)' /\ TypeOK'
      /\ Span(srcs[h], "mid", at'[t]) = Span(srcs[h], "open", at[t])
  BY <1>1, <1>2, <1>3, <1>4, <1>5, BindStarts
<1>7. /\ Steps' /\ Unowned' /\ SessionInOnePlace'
      /\ \A s \in Sessions : Owners(s)' = Owners(s)
      /\ \A s \in Sessions \ {h} : Reach(s)' = Reach(s) /\ t \notin Owners(s)
      /\ Reach(h) = Span(srcs[h], pc[t], at[t])
      /\ Reach(h)' = Span(srcs'[h], pc'[t], at'[t])
  BY <1>5, <1>6, OwnerStep
<1>8. \A s \in Sessions : Reach(s)' = Reach(s)
  BY <1>6, <1>7
<1>9. Named' /\ \A x : \A s \in Sessions : \A i \in Slots : Names(s, i, x)' => Names(s, i, x)
  BY <1>6, <1>8, NoNewNames
<1>10. Safe' = Safe
  BY <1>6 DEF Safe
<1>11. Places'
  <2> SUFFICES ASSUME NEW x \in Safe
               PROVE  /\ \A i, j \in Free(x)' : i = j
                      /\ \A u, v \in Taken(x)' : u = v
                      /\ \A s, r \in Sessions : \A i, j \in Slots :
                           Names(s, i, x)' /\ Names(r, j, x)' => s = r /\ i = j
                      /\ Free(x)' = {} \/ Taken(x)' = {}
                      /\ \A s \in Sessions : \A i \in Slots :
                           Names(s, i, x)' => Free(x)' = {} /\ Taken(x)' = {}
    BY <1>10 DEF Places
  <2>1. \A i \in Free(x)' : i + 1 \in Free(x) /\ i \in Nat /\ i + 1 # 1
    BY <1>1, <1>2 DEF Free
  <2>2. \A u \in Taken(x)' : u \in Taken(x) \/ (u = t /\ x = y)
    BY <1>4, <1>6 DEF Taken, Binding
  <2>3. x = y => 1 \in Free(x)
    BY <1>2, <1>3 DEF Free
  <2>4. /\ \A i, j \in Free(x) : i = j
        /\ \A u, v \in Taken(x) : u = v
        /\ \A s, r \in Sessions : \A i, j \in Slots : Names(s, i, x) /\ Names(r, j, x) => s = r /\ i = j
        /\ Free(x) = {} \/ Taken(x) = {}
        /\ \A s \in Sessions : \A i \in Slots : Names(s, i, x) => Free(x) = {} /\ Taken(x) = {}
    BY <1>i DEF Places
  <2>5. CASE x = y
    <3>1. Taken(x) = {} /\ \A s \in Sessions : \A i \in Slots : ~Names(s, i, x)
      BY <2>3, <2>4, <2>5
    <3>2. Free(x)' = {}
      BY <2>1, <2>3, <2>4, <2>5
    <3> QED
      BY <1>9, <2>2, <3>1, <3>2
  <2>6. CASE x # y
    <3>1. Taken(x)' \subseteq Taken(x)
      BY <2>2, <2>6
    <3>2. \A i, j \in Free(x)' : i = j
      BY <2>1, <2>4
    <3>3. Free(x) = {} => Free(x)' = {}
      BY <2>1
    <3> QED
      BY <1>9, <2>4, <3>1, <3>2, <3>3
  <2> QED
    BY <2>5, <2>6
<1>12. Wakes'
  <2>1. \A s \in Sessions : \A u \in Owners(s)' : u \in Owners(s) /\ (Awake(u)' => Awake(u))
    BY <1>6, <1>7 DEF Awake, Binding, Owners
  <2> QED
    BY <1>i, <1>6, <1>9, <1>10, <2>1, WakesKept
<1> QED
  BY <1>6, <1>7, <1>9, <1>11, <1>12 DEF IInv

LEMMA BindStoresIInv ==
  ASSUME IInv, NEW t \in Threads,
         (\E x \in Sockets : SAS_IbBind(t, x)) \/ BindMid(t) \/ BindCount(t) \/ BindBase(t)
  PROVE  IInv'
<1>i. TypeOK /\ Steps
  BY DEF IInv
<1>m. MaxInputs \in Nat
  BY MaxInputsAssumption
<1>1. ASSUME NEW x \in Sockets, SAS_IbBind(t, x)
      PROVE  IInv'
  <2>1. Input(x, PEND) \in Inputs /\ Input(x, PEND).base = PEND
    BY DEF Inputs, Input
  <2>2. BindStart(t, Input(x, PEND)) /\ freeRun' = freeRun
    BY <1>1 DEF SAS_IbBind
  <2>3. PICK h \in Sessions : h = handle[t]
    BY <2>1, <2>2, BindStarts
  <2>4. /\ pc[t] = "open" /\ pc'[t] = "mid"
        /\ \A u \in Threads \ {t} : pc'[u] = pc[u] /\ at'[u] = at[u] /\ input'[u] = input[u]
        /\ UNCHANGED <<freeSess, mapped, sync, srcs, mid, base, syncs, intrTable,
                       handle, clearing, lost, torn>>
        /\ input'[t].base = PEND /\ Local(t)' /\ TypeOK'
        /\ Span(srcs[h], "mid", at'[t]) = Span(srcs[h], "open", at[t])
    <3>1. freeRun' \in Seq(Rundowns)
      BY <1>i, <2>2 DEF TypeOK
    <3> QED
      BY <2>1, <2>2, <2>3, <3>1, BindStarts
  <2>5. Awake(t)
    BY <2>4 DEF Awake
  <2>6. \A i \in Span(srcs'[h], pc'[t], at'[t]) :
          i \in Span(srcs[h], pc[t], at[t]) /\ base'[h][i] = base[h][i] /\ mid'[h][i] = mid[h][i]
    BY <2>4
  <2> QED
    BY <2>2, <2>3, <2>4, <2>5, <2>6, QuietStep
<1>2. CASE BindMid(t)
  <2>1. PICK i \in {at[t], srcs[handle[t]] + 1} :
             /\ at' = [at EXCEPT ![t] = i]
             /\ mid' = [mid EXCEPT ![handle[t]][i] = input[t].mid]
    BY <1>2 DEF BindMid, Loaded, Srcs
  <2>2. /\ pc[t] = "mid" /\ pc' = [pc EXCEPT ![t] = "count"]
        /\ UNCHANGED <<freeSess, freeRun, mapped, sync, srcs, base, syncs, intrTable,
                       handle, input, clearing, lost, torn>>
    BY <1>2 DEF BindMid, Goto, fifos, sems
  <2>3. PICK h \in Sessions : h = handle[t]
    BY <2>2, OneOwner
  <2>4. srcs[h] \in 0 .. MaxInputs /\ at[t] \in Slots /\ srcs[h] + 1 <= at[t]
    BY <1>i, <2>2, <2>3 DEF TypeOK, Steps, Local, Binding, Srcs
  <2>5. i \in Slots /\ i <= at[t] /\ srcs[h] + 1 <= i /\ i \in 0 .. MaxInputs
    BY <1>m, <2>1, <2>3, <2>4 DEF Slots
  <2>6. input[t].mid \in Ids
    BY <1>i DEF TypeOK, Inputs, Input, Ids
  <2>7. /\ mid' \in [Sessions -> [Slots -> Ids]] /\ mid'[h][i] = input[t].mid
        /\ \A j \in Slots \ {i} : mid'[h][j] = mid[h][j]
        /\ \A r \in Sessions \ {h} : mid'[r] = mid[r]
    <3>1. mid \in [Sessions -> [Slots -> Ids]] /\ mid' = [mid EXCEPT ![h][i] = input[t].mid]
      BY <1>i, <2>1, <2>3 DEF TypeOK
    <3> QED
      BY <2>5, <2>6, <3>1, MailboxStore
  <2>8. TypeOK'
    BY <1>i, <2>1, <2>2, <2>5, <2>7 DEF TypeOK
  <2>9. /\ pc'[t] = "count" /\ at'[t] = i
        /\ \A u \in Threads \ {t} : pc'[u] = pc[u] /\ at'[u] = at[u]
    BY <1>i, <2>1, <2>2 DEF TypeOK
  <2>10. Local(t)'
    BY <1>i, <2>2, <2>3, <2>5, <2>7, <2>9 DEF Steps, Local, Binding, Srcs
  <2>11. \A j \in Span(srcs[h], "count", i) : j \in Slots /\ j # i /\ j \in Span(srcs[h], "mid", at[t])
    BY <1>m, <2>4, <2>5 DEF Span, Slots
  <2>12. /\ \A j \in Span(srcs'[h], pc'[t], at'[t]) :
              j \in Span(srcs[h], pc[t], at[t]) /\ base'[h][j] = base[h][j] /\ mid'[h][j] = mid[h][j]
         /\ Binding(t) /\ Awake(t)
    BY <2>2, <2>7, <2>9, <2>11 DEF Binding, Awake
  <2> QED
    BY <2>2, <2>3, <2>7, <2>8, <2>9, <2>10, <2>12, QuietStep
<1>3. CASE BindCount(t)
  <2>1. PICK n \in {at[t], srcs[handle[t]] + 1} : srcs' = [srcs EXCEPT ![handle[t]] = n]
    BY <1>3 DEF BindCount, Loaded, Srcs
  <2>2. /\ pc[t] = "count" /\ pc' = [pc EXCEPT ![t] = "base"]
        /\ UNCHANGED <<freeSess, freeRun, mapped, sync, mid, base, syncs, intrTable,
                       handle, input, at, clearing, lost, torn>>
    BY <1>3 DEF BindCount, Goto, fifos, sems
  <2>3. PICK h \in Sessions : h = handle[t]
    BY <2>2, OneOwner
  <2>4. srcs[h] \in 0 .. MaxInputs /\ at[t] \in Slots /\ srcs[h] + 1 <= at[t]
    BY <1>i, <2>2, <2>3 DEF TypeOK, Steps, Local, Binding, Srcs
  <2>5. n \in 0 .. MaxInputs /\ n <= at[t]
    BY <1>m, <2>1, <2>3, <2>4 DEF Slots
  <2>6. TypeOK'
    BY <1>i, <2>1, <2>2, <2>3, <2>5 DEF TypeOK
  <2>7. /\ pc'[t] = "base" /\ \A u \in Threads \ {t} : pc'[u] = pc[u]
        /\ srcs'[h] = n /\ \A s \in Sessions \ {h} : srcs'[s] = srcs[s]
    BY <1>i, <2>1, <2>2, <2>3 DEF TypeOK
  <2>8. Local(t)'
    BY <1>i, <2>2, <2>3, <2>7 DEF Steps, Local, Binding, Srcs
  <2>9. \A j \in Span(n, "base", at[t]) : j \in Span(srcs[h], "count", at[t])
    BY <1>m, <2>4, <2>5 DEF Span, Slots
  <2>10. /\ \A j \in Span(srcs'[h], pc'[t], at'[t]) :
              j \in Span(srcs[h], pc[t], at[t]) /\ base'[h][j] = base[h][j] /\ mid'[h][j] = mid[h][j]
         /\ Binding(t) /\ Awake(t)
    BY <2>2, <2>7, <2>9 DEF Binding, Awake
  <2> QED
    BY <2>2, <2>3, <2>6, <2>7, <2>8, <2>10, QuietStep
<1>4. CASE BindBase(t)
  <2>1. /\ pc[t] = "base" /\ pc' = [pc EXCEPT ![t] = "intr"]
        /\ base' = [base EXCEPT ![handle[t]][at[t]] = input[t].base]
        /\ UNCHANGED <<freeSess, freeRun, mapped, sync, srcs, mid, syncs, intrTable,
                       handle, input, at, clearing, lost, torn>>
    BY <1>4 DEF BindBase, Goto, fifos, sems
  <2>2. PICK h \in Sessions : h = handle[t]
    BY <2>1, OneOwner
  <2>3. at[t] \in Slots /\ input[t].base \in {RUNDWN, PEND}
    BY <1>i, <2>1 DEF TypeOK, Steps, Local, Binding, Inputs, Input
  <2>4. /\ base' \in [Sessions -> [Slots -> {RUNDWN, PEND}]] /\ base'[h][at[t]] = input[t].base
        /\ \A j \in Slots \ {at[t]} : base'[h][j] = base[h][j]
        /\ \A r \in Sessions \ {h} : base'[r] = base[r]
    <3>1. base \in [Sessions -> [Slots -> {RUNDWN, PEND}]]
          /\ base' = [base EXCEPT ![h][at[t]] = input[t].base]
      BY <1>i, <2>1, <2>2 DEF TypeOK
    <3> QED
      BY <2>3, <3>1, MailboxStore
  <2>5. TypeOK'
    BY <1>i, <2>1, <2>4 DEF TypeOK
  <2>6. pc'[t] = "intr" /\ \A u \in Threads \ {t} : pc'[u] = pc[u]
    BY <1>i, <2>1 DEF TypeOK
  <2>7. Local(t)'
    BY <1>i, <2>1, <2>2, <2>3, <2>4, <2>6 DEF Steps, Local, Binding, Srcs
  <2>8. \A j \in Span(srcs[h], "intr", at[t]) :
          j \in Slots /\ j # at[t] /\ j \in Span(srcs[h], "base", at[t])
    BY DEF Span
  <2>9. /\ \A j \in Span(srcs'[h], pc'[t], at'[t]) :
             j \in Span(srcs[h], pc[t], at[t]) /\ base'[h][j] = base[h][j] /\ mid'[h][j] = mid[h][j]
        /\ Binding(t) /\ Awake(t)
    BY <2>1, <2>4, <2>6, <2>8 DEF Binding, Awake
  <2> QED
    BY <2>1, <2>2, <2>4, <2>5, <2>6, <2>7, <2>9, QuietStep
<1> QED
  BY <1>1, <1>2, <1>3, <1>4

LEMMA BindIntrIInv ==
  ASSUME IInv, NEW t \in Threads, BindIntr(t)
  PROVE  IInv'
<1>i. TypeOK /\ Steps /\ Named /\ Places /\ Wakes
  BY DEF IInv
<1>m. MaxInputs \in Nat
  BY MaxInputsAssumption
<1>1. /\ pc[t] = "intr" /\ pc' = [pc EXCEPT ![t] = "open"]
      /\ input' = [input EXCEPT ![t] = Nothing]
      /\ at' = [at EXCEPT ![t] = 0]
      /\ UNCHANGED <<freeSess, freeRun, mapped, sync, srcs, mid, base, syncs,
                     handle, clearing, lost, torn>>
  BY DEF BindIntr, Goto, fifos, struct
<1>2. PICK h \in Sessions : h = handle[t]
  BY <1>1, OneOwner
<1>3. PICK a \in Slots : a = at[t]
  BY <1>i, <1>1 DEF Steps, Local, Binding
<1>4. PICK e \in {input[t].mid, mid[h][a]} :
        intrTable' = IF input[t].base = RUNDWN
                     THEN [intrTable EXCEPT ![e] = sync[h]] ELSE intrTable
  BY <1>2, <1>3 DEF BindIntr, Entry
<1>5. /\ mid[h][a] = input[t].mid \/ (torn /\ mid[h][a] = ZERO)
      /\ base[h][a] \in {input[t].base, PEND}
  BY <1>i, <1>1, <1>2, <1>3 DEF Steps, Local
<1>6. PICK y : y = input[t].mid
  OBVIOUS
<1>7. input[t].base = RUNDWN => y \in Rundowns /\ input[t] = Input(y, RUNDWN)
  BY <1>i, <1>6 DEF TypeOK, Inputs, Input, RUNDWN, PEND
<1>8. TypeOK'
  <2>1. Nothing \in Inputs /\ 0 \in 0 .. MaxInputs
    BY <1>m, ZeroAssumption DEF Nothing, Input, Inputs
  <2>2. intrTable' \in [Rundowns -> Syncs \cup {NONE}]
    BY <1>i, <1>4 DEF TypeOK
  <2> QED
    BY <1>i, <1>1, <2>1, <2>2 DEF TypeOK
<1>9. /\ pc'[t] = "open" /\ at'[t] = 0
      /\ \A u \in Threads \ {t} : pc'[u] = pc[u] /\ at'[u] = at[u] /\ input'[u] = input[u]
  BY <1>i, <1>1 DEF TypeOK
<1>10. Local(t)'
  BY <1>i, <1>1, <1>9 DEF Steps, Local, Binding
<1>11. /\ Steps' /\ Unowned' /\ SessionInOnePlace'
       /\ \A s \in Sessions : Owners(s)' = Owners(s)
       /\ \A s \in Sessions \ {h} : Reach(s)' = Reach(s) /\ t \notin Owners(s)
       /\ Reach(h) = Span(srcs[h], pc[t], at[t])
       /\ Reach(h)' = Span(srcs'[h], pc'[t], at'[t])
  BY <1>1, <1>2, <1>9, <1>10, OwnerStep
<1>12. \A s \in Sessions : \A i \in Reach(s)' : i \in Reach(s) \/ (s = h /\ i = a)
  <2>1. \A i \in Span(srcs[h], "open", 0) : i \in Span(srcs[h], "intr", a) \/ i = a
    BY DEF Span
  <2> QED
    BY <1>1, <1>3, <1>9, <1>11, <2>1
<1>13. base[h][a] = RUNDWN => input[t].base = RUNDWN
  BY <1>5 DEF RUNDWN, PEND
<1>14. Named'
  <2>1. base[h][a] = RUNDWN => mid[h][a] \in Rundowns
    BY <1>5, <1>6, <1>7, <1>13, ZeroAssumption
  <2> QED
    BY <1>i, <1>1, <1>12, <2>1 DEF Named
<1>15. Safe' = Safe /\ (torn => ZERO \notin Safe)
  BY <1>1 DEF Safe
\* The mailbox that the session gets is the one the thread has taken.
<1>16. ASSUME NEW x \in Safe, NEW s \in Sessions, NEW i \in Slots, Names(s, i, x)'
       PROVE  \/ Names(s, i, x)
              \/ s = h /\ i = a /\ x = y /\ mid[h][a] = y /\ t \in Taken(x)
  <2>1. i \in Reach(s)' /\ mid[s][i] = x /\ base[s][i] = RUNDWN
    BY <1>1, <1>16 DEF Names
  <2>2. CASE i \in Reach(s)
    BY <2>1, <2>2 DEF Names
  <2>3. CASE s = h /\ i = a
    <3>1. mid[h][a] = y /\ x = y
      BY <1>5, <1>6, <1>15, <2>1, <2>3
    <3>2. t \in Taken(x)
      BY <1>1, <1>7, <1>13, <2>1, <2>3, <3>1 DEF Taken, Binding
    <3> QED
      BY <2>3, <3>1, <3>2
  <2> QED
    BY <1>12, <2>1, <2>2, <2>3
<1>17. ASSUME NEW x \in Safe
       PROVE  /\ \A i, j \in Free(x) : i = j
              /\ \A u, v \in Taken(x) : u = v
              /\ \A s, r \in Sessions : \A i, j \in Slots : Names(s, i, x) /\ Names(r, j, x) => s = r /\ i = j
              /\ Free(x) = {} \/ Taken(x) = {}
              /\ \A s \in Sessions : \A i \in Slots : Names(s, i, x) => Free(x) = {} /\ Taken(x) = {}
  BY <1>i DEF Places
<1>18. Places'
  <2> SUFFICES ASSUME NEW x \in Safe
               PROVE  /\ \A i, j \in Free(x)' : i = j
                      /\ \A u, v \in Taken(x)' : u = v
                      /\ \A s, r \in Sessions : \A i, j \in Slots :
                           Names(s, i, x)' /\ Names(r, j, x)' => s = r /\ i = j
                      /\ Free(x)' = {} \/ Taken(x)' = {}
                      /\ \A s \in Sessions : \A i \in Slots :
                           Names(s, i, x)' => Free(x)' = {} /\ Taken(x)' = {}
    BY <1>15 DEF Places
  <2>1. Free(x)' = Free(x)
    BY <1>1 DEF Free
  <2>2. Taken(x)' = Taken(x) \ {t}
    BY <1>9 DEF Taken, Binding
  <2>3. CASE t \in Taken(x)
    <3>1. /\ Taken(x)' = {} /\ Free(x) = {}
          /\ \A s \in Sessions : \A i \in Slots : ~Names(s, i, x)
      BY <1>17, <2>2, <2>3
    <3>2. \A s \in Sessions : \A i \in Slots : Names(s, i, x)' => s = h /\ i = a
      BY <1>16, <3>1
    <3> QED
      BY <2>1, <3>1, <3>2
  <2>4. CASE t \notin Taken(x)
    <3>1. \A s \in Sessions : \A i \in Slots : Names(s, i, x)' => Names(s, i, x)
      BY <1>16, <2>4
    <3> QED
      BY <1>17, <2>1, <2>2, <3>1
  <2> QED
    BY <2>3, <2>4
<1>19. Wakes'
  <2> SUFFICES ASSUME NEW x \in Safe, NEW s \in Sessions, NEW i \in Slots, NEW u \in Owners(s)',
                      Names(s, i, x)', Awake(u)', sync'[s] # NONE
               PROVE  intrTable'[x] = sync'[s]
    BY <1>15 DEF Wakes
  <2>1. u \in Owners(s) /\ Awake(u) /\ sync'[s] = sync[s]
    BY <1>1, <1>9, <1>11 DEF Awake, Binding, Owners
  <2>2. x \in Rundowns
    BY DEF Safe
  <2>3. CASE Names(s, i, x)
    <3>1. intrTable[x] = sync[s] /\ Taken(x) = {}
      BY <1>i, <1>1, <2>1, <2>3, <1>17 DEF Wakes
    <3>2. input[t].base = RUNDWN => e # x
      <4> SUFFICES ASSUME input[t].base = RUNDWN, e = x
                   PROVE  FALSE
        OBVIOUS
      <4>1. e = y
        BY <1>4, <1>5, <1>6, <1>15
      <4>2. t \in Taken(x)
        BY <1>1, <1>7, <4>1 DEF Taken, Binding
      <4> QED
        BY <3>1, <4>2
    <3>3. intrTable'[x] = intrTable[x]
      BY <1>i, <1>4, <2>2, <3>2 DEF TypeOK
    <3> QED
      BY <2>1, <3>1, <3>3
  <2>4. CASE s = h /\ i = a /\ x = y /\ mid[h][a] = y /\ t \in Taken(x)
    <3>1. e = x
      BY <1>4, <1>6, <2>4
    <3>2. input[t].base = RUNDWN
      BY <2>4 DEF Taken, Input
    <3> QED
      BY <1>i, <1>4, <2>1, <2>2, <2>4, <3>1, <3>2 DEF TypeOK
  <2> QED
    BY <1>16, <2>3, <2>4
<1> QED
  BY <1>8, <1>11, <1>14, <1>18, <1>19 DEF IInv

-----------------------------------------------------------------------------
(***************************************************************************)
(* SAS_Close.                                                              *)
(***************************************************************************)
LEMMA CloseOwnerIInv ==
  ASSUME IInv, NEW t \in Threads, CloseSync(t) \/ CloseLoad(t) \/ CloseGive(t)
  PROVE  IInv'
<1>i. TypeOK /\ Steps /\ SessionInOnePlace
  BY DEF IInv
<1>m. MaxInputs \in Nat
  BY MaxInputsAssumption
<1>1. CASE CloseSync(t)
  <2>1. /\ pc[t] = "open" /\ pc' = [pc EXCEPT ![t] = "close"]
        /\ syncs' = syncs \ {sync[handle[t]]}
        /\ sync' = [sync EXCEPT ![handle[t]] = NONE]
        /\ UNCHANGED <<freeSess, freeRun, mapped, srcs, mid, base, intrTable,
                       handle, input, at, clearing, lost, torn>>
    BY <1>1 DEF CloseSync, Goto, fifos
  <2>2. PICK h \in Sessions : h = handle[t]
    BY <2>1, OneOwner
  <2>3. TypeOK'
    BY <1>i, <2>1, <2>2 DEF TypeOK
  <2>4. /\ pc'[t] = "close" /\ \A u \in Threads \ {t} : pc'[u] = pc[u]
        /\ \A s \in Sessions \ {h} : sync'[s] = sync[s]
    BY <1>i, <2>1, <2>2 DEF TypeOK
  <2>5. Local(t)' /\ ~Binding(t)' /\ ~Awake(t)'
    BY <1>i, <2>1, <2>4 DEF Steps, Local, Binding, Awake
  <2>6. \A j \in Span(srcs'[h], pc'[t], at'[t]) : j \in Span(srcs[h], pc[t], at[t])
    BY <2>1, <2>4 DEF Span
  <2> QED
    BY <2>1, <2>2, <2>3, <2>4, <2>5, <2>6, QuietStep
<1>2. CASE CloseLoad(t)
  <2>1. /\ pc[t] = "close" /\ pc' = [pc EXCEPT ![t] = "free"]
        /\ srcs[handle[t]] # 0
        /\ at' = [at EXCEPT ![t] = srcs[handle[t]]]
        /\ UNCHANGED <<freeSess, freeRun, mapped, sync, srcs, mid, base, syncs, intrTable,
                       handle, input, clearing, lost, torn>>
    BY <1>2 DEF CloseLoad, Goto, Srcs, fifos, struct, sems
  <2>2. PICK h \in Sessions : h = handle[t]
    BY <2>1, OneOwner
  <2>3. srcs[h] \in Slots /\ srcs[h] \in 0 .. MaxInputs
    BY <1>i, <1>m, <2>1, <2>2 DEF TypeOK, Slots
  <2>4. TypeOK'
    BY <1>i, <2>1, <2>2, <2>3 DEF TypeOK
  <2>5. /\ pc'[t] = "free" /\ at'[t] = srcs[h]
        /\ \A u \in Threads \ {t} : pc'[u] = pc[u] /\ at'[u] = at[u]
    BY <1>i, <2>1, <2>2 DEF TypeOK
  <2>6. Local(t)' /\ ~Binding(t)' /\ ~Awake(t)'
    BY <1>i, <2>1, <2>2, <2>3, <2>5 DEF Steps, Local, Binding, Awake, Srcs
  <2>7. \A j \in Span(srcs'[h], pc'[t], at'[t]) : j \in Span(srcs[h], pc[t], at[t])
    BY <2>1, <2>5 DEF Span
  <2> QED
    BY <2>1, <2>2, <2>4, <2>5, <2>6, <2>7, QuietStep
<1>3. CASE CloseGive(t)
  <2>1. /\ pc[t] = "close" /\ pc' = [pc EXCEPT ![t] = "clear"]
        /\ srcs[handle[t]] = 0
        /\ freeSess' = Append(freeSess, handle[t])
        /\ clearing' = [clearing EXCEPT ![t] = Words]
        /\ UNCHANGED <<freeRun, mapped, sync, srcs, mid, base, syncs, intrTable,
                       handle, input, at, lost, torn>>
    BY <1>3 DEF CloseGive, Goto, Srcs, struct, sems
  <2>2. PICK h \in Sessions : h = handle[t]
    BY <2>1, OneOwner
  <2>3. h \notin Range(freeSess) /\ h \notin lost /\ Range(freeSess) \cap lost = {}
    <3>1. Owners(h) = {t}
      BY <2>1, <2>2, OneOwner
    <3> QED
      BY <1>i, <3>1 DEF SessionInOnePlace
  <2>4. /\ freeSess' \in Seq(Sessions) /\ IsInjective(freeSess')
        /\ Range(freeSess') = Range(freeSess) \cup {h}
    BY <1>i, <2>1, <2>2, <2>3, GiveBack DEF TypeOK, SessionInOnePlace
  <2>5. TypeOK'
    BY <1>i, <2>1, <2>4 DEF TypeOK
  <2>6. pc'[t] = "clear" /\ \A u \in Threads \ {t} : pc'[u] = pc[u]
    BY <1>i, <2>1 DEF TypeOK
  <2>7. Local(t)' /\ ~Binding(t) /\ t \notin Owners(h)'
    BY <1>i, <2>1, <2>6 DEF Steps, Local, Binding, Owners
  <2> QED
    BY <2>1, <2>2, <2>3, <2>4, <2>5, <2>6, <2>7, LeaveStep
<1> QED
  BY <1>1, <1>2, <1>3

LEMMA CloseFreeIInv ==
  ASSUME IInv, NEW t \in Threads, CloseFree(t)
  PROVE  IInv'
<1>i. TypeOK /\ Steps /\ Named /\ Places /\ Wakes
  BY DEF IInv
<1>m. MaxInputs \in Nat
  BY MaxInputsAssumption
<1>1. /\ pc[t] = "free" /\ pc' = [pc EXCEPT ![t] = "close"]
      /\ srcs' = [srcs EXCEPT ![handle[t]] = at[t] - 1]
      /\ at' = [at EXCEPT ![t] = 0]
      /\ UNCHANGED <<freeSess, mapped, sync, mid, base, syncs, intrTable,
                     handle, input, clearing, lost, torn>>
  BY DEF CloseFree, Goto, sems
<1>2. PICK h \in Sessions : h = handle[t]
  BY <1>1, OneOwner
<1>3. PICK a \in Slots : a = at[t]
  BY <1>i, <1>1 DEF Steps, Local
<1>4. freeRun' = IF base[h][a] = RUNDWN THEN Append(freeRun, mid[h][a]) ELSE freeRun
  BY <1>2, <1>3 DEF CloseFree, _freeMbx
<1>5. a - 1 \in 0 .. MaxInputs /\ a - 1 \in Int /\ srcs[h] <= a /\ srcs[h] \in Nat
  BY <1>i, <1>m, <1>1, <1>2, <1>3 DEF Steps, Local, Srcs, TypeOK, Slots
<1>6. /\ pc'[t] = "close" /\ at'[t] = 0 /\ srcs'[h] = a - 1
      /\ \A u \in Threads \ {t} : pc'[u] = pc[u] /\ at'[u] = at[u]
      /\ \A s \in Sessions \ {h} : srcs'[s] = srcs[s]
  BY <1>i, <1>1, <1>2, <1>3 DEF TypeOK
<1>7. Local(t)'
  BY <1>i, <1>1, <1>6 DEF Steps, Local, Binding
<1>8. /\ Steps' /\ Unowned' /\ SessionInOnePlace'
      /\ \A s \in Sessions : Owners(s)' = Owners(s)
      /\ \A s \in Sessions \ {h} : Reach(s)' = Reach(s) /\ t \notin Owners(s)
      /\ Reach(h) = Span(srcs[h], pc[t], at[t])
      /\ Reach(h)' = Span(srcs'[h], pc'[t], at'[t])
  BY <1>1, <1>2, <1>6, <1>7, OwnerStep
<1>9. a \in Reach(h) /\ a \notin Reach(h)' /\ \A i \in Reach(h)' : i \in Reach(h)
  <2>1. a \in Span(srcs[h], "free", a)
    BY <1>m DEF Span, Slots
  <2>2. \A i \in Span(a - 1, "close", 0) : i # a /\ i \in Span(srcs[h], "free", a)
    BY <1>m, <1>5 DEF Span, Slots
  <2> QED
    BY <1>1, <1>3, <1>6, <1>8, <2>1, <2>2
<1>10. Named' /\ \A x : \A s \in Sessions : \A i \in Slots : Names(s, i, x)' => Names(s, i, x)
  BY <1>1, <1>8, <1>9, NoNewNames
<1>11. base[h][a] = RUNDWN => mid[h][a] \in Rundowns
  BY <1>i, <1>9 DEF Named
<1>12. /\ freeRun' \in Seq(Rundowns)
       /\ base[h][a] = RUNDWN => /\ DOMAIN freeRun' = DOMAIN freeRun \cup {Len(freeRun) + 1}
                                 /\ freeRun'[Len(freeRun) + 1] = mid[h][a]
                                 /\ \A i \in DOMAIN freeRun : freeRun'[i] = freeRun[i]
  <2>1. freeRun \in Seq(Rundowns)
    BY <1>i DEF TypeOK
  <2> QED
    BY <1>4, <1>11, <2>1
<1>13. TypeOK'
  <2>1. 0 \in 0 .. MaxInputs
    BY <1>m
  <2> QED
    BY <1>i, <1>1, <1>2, <1>3, <1>5, <1>12, <2>1 DEF TypeOK
<1>14. Safe' = Safe
  BY <1>1 DEF Safe
<1>15. Places'
  <2> SUFFICES ASSUME NEW x \in Safe
               PROVE  /\ \A i, j \in Free(x)' : i = j
                      /\ \A u, v \in Taken(x)' : u = v
                      /\ \A s, r \in Sessions : \A i, j \in Slots :
                           Names(s, i, x)' /\ Names(r, j, x)' => s = r /\ i = j
                      /\ Free(x)' = {} \/ Taken(x)' = {}
                      /\ \A s \in Sessions : \A i \in Slots :
                           Names(s, i, x)' => Free(x)' = {} /\ Taken(x)' = {}
    BY <1>14 DEF Places
  <2>1. /\ \A i, j \in Free(x) : i = j
        /\ \A u, v \in Taken(x) : u = v
        /\ \A s, r \in Sessions : \A i, j \in Slots : Names(s, i, x) /\ Names(r, j, x) => s = r /\ i = j
        /\ Free(x) = {} \/ Taken(x) = {}
        /\ \A s \in Sessions : \A i \in Slots : Names(s, i, x) => Free(x) = {} /\ Taken(x) = {}
    BY <1>i DEF Places
  <2>2. Taken(x)' = Taken(x)
    BY <1>1, <1>6 DEF Taken, Binding
  <2>3. CASE base[h][a] = RUNDWN /\ mid[h][a] = x
    <3>1. Names(h, a, x) /\ ~Names(h, a, x)'
      BY <1>9, <2>3 DEF Names
    <3>2. /\ Taken(x) = {} /\ Free(x) = {}
          /\ \A s \in Sessions : \A i \in Slots : ~Names(s, i, x)'
      BY <1>10, <2>1, <3>1
    <3>3. \A i \in Free(x)' : i = Len(freeRun) + 1
      BY <1>12, <2>3, <3>2 DEF Free
    <3> QED
      BY <2>2, <3>2, <3>3
  <2>4. CASE ~(base[h][a] = RUNDWN /\ mid[h][a] = x)
    <3>1. Free(x)' = Free(x)
      BY <1>4, <1>12, <2>4 DEF Free
    <3> QED
      BY <1>10, <2>1, <2>2, <3>1
  <2> QED
    BY <2>3, <2>4
<1>16. Wakes'
  <2>1. \A s \in Sessions : \A u \in Owners(s)' :
          u \in Owners(s) /\ (Awake(u)' => Awake(u)) /\ sync'[s] = sync[s]
    BY <1>1, <1>6, <1>8 DEF Awake, Binding, Owners
  <2> QED
    BY <1>i, <1>1, <1>10, <1>14, <2>1, WakesKept
<1> QED
  BY <1>8, <1>10, <1>13, <1>15, <1>16 DEF IInv

\* What a store of the memset does to the session structures, in any order of its
\* stores: a word keeps its value or gets its zero, and where a mailbox id of an
\* owned session is lost, the structure counts as torn.
LEMMA WipeEffect ==
  ASSUME IInv, NEW t \in Threads, NEW w \in Words, CloseClear(t, w)
  PROVE  /\ TypeOK'
         /\ UNCHANGED <<freeSess, freeRun, syncs, intrTable, pc, handle, input, at, lost>>
         /\ torn => torn'
         /\ \A s \in Sessions : sync'[s] \in {sync[s], NONE} /\ srcs'[s] \in {srcs[s], 0}
         /\ \A s \in Sessions : \A i \in Slots : base'[s][i] \in {base[s][i], PEND}
         /\ \A s \in Sessions : \A i \in Slots :
              mid'[s][i] = mid[s][i] \/ (mid'[s][i] = ZERO /\ (Owners(s) = {} \/ torn'))
<1>i. TypeOK /\ Steps
  BY DEF IInv
<1>1. /\ pc[t] = "clear" /\ Wipe(handle[t], w)
      /\ torn' = (torn \/ Tears(handle[t], w))
      /\ clearing' = [clearing EXCEPT ![t] = @ \ {w}]
      /\ UNCHANGED <<freeSess, freeRun, syncs, intrTable, pc, handle, input, at, lost>>
  BY DEF CloseClear, fifos, sems
<1>2. PICK h \in Sessions : h = handle[t]
  BY <1>i, <1>1 DEF Steps, Local, TypeOK
<1>3. /\ clearing' \in [Threads -> SUBSET Words] /\ torn' \in BOOLEAN
      /\ 0 \in 0 .. MaxInputs /\ ZERO \in Ids
  BY <1>i, <1>1, MaxInputsAssumption, ZeroAssumption DEF TypeOK, Tears, Ids
<1>4. /\ mapped' = IF w[1] = "maps" THEN [mapped EXCEPT ![h] = FALSE] ELSE mapped
      /\ sync' = IF w[1] = "sync" THEN [sync EXCEPT ![h] = NONE] ELSE sync
      /\ srcs' = IF w[1] = "srcs" THEN [srcs EXCEPT ![h] = 0] ELSE srcs
      /\ mid' = IF w[1] = "mid" THEN [mid EXCEPT ![h][w[2]] = ZERO] ELSE mid
      /\ base' = IF w[1] = "base" THEN [base EXCEPT ![h][w[2]] = PEND] ELSE base
  BY <1>1, <1>2 DEF Wipe
<1>5. w[1] \in {"mid", "base"} => w[2] \in Slots
  BY DEF Words
<1>6. mapped' \in [Sessions -> BOOLEAN] /\ sync' \in [Sessions -> Syncs \cup {NONE}]
      /\ \A s \in Sessions : sync'[s] \in {sync[s], NONE}
  BY <1>i, <1>4 DEF TypeOK
<1>7. srcs' \in [Sessions -> 0 .. MaxInputs] /\ \A s \in Sessions : srcs'[s] \in {srcs[s], 0}
  BY <1>i, <1>3, <1>4 DEF TypeOK
<1>8. /\ base' \in [Sessions -> [Slots -> {RUNDWN, PEND}]]
      /\ \A s \in Sessions : \A i \in Slots : base'[s][i] \in {base[s][i], PEND}
  <2>0. base \in [Sessions -> [Slots -> {RUNDWN, PEND}]]
    BY <1>i DEF TypeOK
  <2>1. CASE w[1] = "base"
    <3>1. w[2] \in Slots /\ base' = [base EXCEPT ![h][w[2]] = PEND]
      BY <1>4, <1>5, <2>1
    <3> QED
      BY <2>0, <3>1, MailboxStore
  <2>2. CASE w[1] # "base"
    BY <1>4, <2>0, <2>2
  <2> QED
    BY <2>1, <2>2
<1>9. /\ mid' \in [Sessions -> [Slots -> Ids]]
      /\ \A s \in Sessions : \A i \in Slots :
           mid'[s][i] = mid[s][i] \/ (mid'[s][i] = ZERO /\ (Owners(s) = {} \/ torn'))
  <2>0. mid \in [Sessions -> [Slots -> Ids]]
    BY <1>i DEF TypeOK
  <2>1. CASE w[1] = "mid"
    <3>1. w[2] \in Slots /\ mid' = [mid EXCEPT ![h][w[2]] = ZERO]
      BY <1>4, <1>5, <2>1
    <3>2. /\ mid' \in [Sessions -> [Slots -> Ids]] /\ mid'[h][w[2]] = ZERO
          /\ \A j \in Slots \ {w[2]} : mid'[h][j] = mid[h][j]
          /\ \A r \in Sessions \ {h} : mid'[r] = mid[r]
      BY <1>3, <2>0, <3>1, MailboxStore
    <3>3. mid[h][w[2]] = ZERO \/ Owners(h) = {} \/ torn'
      BY <1>1, <1>2, <2>1 DEF Tears
    <3> QED
      BY <3>2, <3>3
  <2>2. CASE w[1] # "mid"
    BY <1>4, <2>0, <2>2
  <2> QED
    BY <2>1, <2>2
<1>10. TypeOK'
  BY <1>i, <1>1, <1>3, <1>6, <1>7, <1>8, <1>9 DEF TypeOK
<1> QED
  BY <1>1, <1>6, <1>7, <1>8, <1>9, <1>10

LEMMA CloseClearIInv ==
  ASSUME IInv, NEW t \in Threads, NEW w \in Words, CloseClear(t, w)
  PROVE  IInv'
<1>i. TypeOK /\ Steps /\ Unowned /\ Named /\ SessionInOnePlace /\ Places /\ Wakes
  BY DEF IInv
<1>1. /\ TypeOK'
      /\ UNCHANGED <<freeSess, freeRun, syncs, intrTable, pc, handle, input, at, lost>>
      /\ torn => torn'
      /\ \A s \in Sessions : sync'[s] \in {sync[s], NONE} /\ srcs'[s] \in {srcs[s], 0}
      /\ \A s \in Sessions : \A i \in Slots : base'[s][i] \in {base[s][i], PEND}
      /\ \A s \in Sessions : \A i \in Slots :
           mid'[s][i] = mid[s][i] \/ (mid'[s][i] = ZERO /\ (Owners(s) = {} \/ torn'))
  BY WipeEffect
<1>2. \A s : Owners(s)' = Owners(s)
  BY <1>1 DEF Owners
<1>3. \A s \in Sessions : srcs'[s] <= srcs[s] /\ srcs[s] \in Nat /\ srcs'[s] \in Nat
  <2>1. \A s \in Sessions : srcs[s] \in Nat
    BY <1>i, MaxInputsAssumption DEF TypeOK
  <2> QED
    BY <1>1, <2>1
<1>4. ASSUME NEW s \in Sessions, NEW i \in Reach(s)'
      PROVE  i \in Reach(s) /\ Owners(s) # {} /\ i \in Slots
  <2>1. Owners(s) # {}
    <3> SUFFICES ASSUME Owners(s) = {}
                 PROVE  FALSE
      OBVIOUS
    <3>1. srcs'[s] = 0 /\ Owners(s)' = {}
      BY <1>i, <1>1, <1>2 DEF Unowned
    <3> QED
      BY <1>4, <3>1, ReachOfUnowned
  <2>2. \A u \in Owners(s) : i \in Span(srcs'[s], pc[u], at[u])
    BY <1>1, <1>2, <1>4 DEF Reach
  <2>3. i \in Slots
    BY <1>4 DEF Reach
  <2>4. i <= srcs'[s] => i <= srcs[s]
    BY <1>3, <2>3 DEF Slots
  <2>5. \A u \in Owners(s) : i \in Span(srcs[s], pc[u], at[u])
    BY <2>2, <2>4 DEF Span
  <2> QED
    BY <2>1, <2>3, <2>5 DEF Reach
<1>5. Steps'
  <2> SUFFICES ASSUME NEW u \in Threads
               PROVE  Local(u)'
    BY DEF Steps
  <2>1. CASE pc[u] \in {"idle", "clear"}
    BY <1>i, <1>1, <2>1 DEF Steps, Local, Binding
  <2>2. CASE pc[u] \notin {"idle", "clear"}
    <3>1. PICK r \in Sessions : r = handle[u] /\ Owners(r) = {u}
      BY <2>2, OneOwner
    <3>2. /\ (Binding(u) \/ pc[u] = "free") => at[u] \in Slots
          /\ pc[u] \in {"alloc", "init"} => srcs[r] = 0
          /\ pc[u] \in {"mid", "count"} => srcs[r] + 1 <= at[u]
          /\ pc[u] = "free" => srcs[r] <= at[u]
          /\ pc[u] \in {"count", "base", "intr"} =>
               mid[r][at[u]] = input[u].mid \/ (torn /\ mid[r][at[u]] = ZERO)
          /\ pc[u] = "intr" => base[r][at[u]] \in {input[u].base, PEND}
      BY <1>i, <3>1 DEF Steps, Local, Srcs
    <3>3. /\ pc[u] \in {"alloc", "init"} => srcs'[r] = 0
          /\ pc[u] \in {"mid", "count"} => srcs'[r] + 1 <= at[u]
          /\ pc[u] = "free" => srcs'[r] <= at[u]
      BY <1>1, <1>3, <3>2 DEF Binding, Slots
    <3>4. /\ pc[u] \in {"count", "base", "intr"} =>
               mid'[r][at[u]] = input[u].mid \/ (torn' /\ mid'[r][at[u]] = ZERO)
          /\ pc[u] = "intr" => base'[r][at[u]] \in {input[u].base, PEND}
      BY <1>1, <3>1, <3>2 DEF Binding
    <3>5. (pc[u] = "idle") = (handle[u] = NONE)
      BY <1>i DEF Steps, Local
    <3> QED
      BY <1>1, <3>1, <3>2, <3>3, <3>4, <3>5 DEF Local, Binding, Srcs
  <2> QED
    BY <2>1, <2>2
<1>6. Unowned'
  BY <1>i, <1>1, <1>2 DEF Unowned
<1>7. SessionInOnePlace'
  BY <1>i, <1>1, <1>2, SameOwners
<1>8. \A s \in Sessions : \A i \in Slots : base'[s][i] = RUNDWN => base[s][i] = RUNDWN
  BY <1>1 DEF RUNDWN, PEND
<1>9. Named'
  BY <1>i, <1>1, <1>4, <1>8, ZeroAssumption DEF Named
<1>10. Safe' \subseteq Safe /\ (torn' => ZERO \notin Safe')
  BY <1>1 DEF Safe
<1>11. \A x \in Safe' : \A s \in Sessions : \A i \in Slots : Names(s, i, x)' => Names(s, i, x)
  BY <1>1, <1>4, <1>8, <1>10 DEF Names
<1>12. Places'
  <2>1. \A x : Taken(x)' \subseteq Taken(x)
    BY <1>1 DEF Taken, Binding
  <2> QED
    BY <1>i, <1>1, <1>10, <1>11, <2>1, PlacesKept
<1>13. Wakes'
  <2>1. \A s \in Sessions : \A u \in Owners(s)' : sync'[s] # NONE =>
          u \in Owners(s) /\ (Awake(u)' => Awake(u)) /\ sync'[s] = sync[s]
    BY <1>1, <1>2 DEF Awake, Binding
  <2> QED
    BY <1>i, <1>1, <1>10, <1>11, <2>1, WakesKept
<1> QED
  BY <1>1, <1>5, <1>6, <1>7, <1>9, <1>12, <1>13 DEF IInv

LEMMA CloseDoneIInv ==
  ASSUME IInv, NEW t \in Threads, CloseDone(t)
  PROVE  IInv'
<1>i. TypeOK /\ Steps /\ Unowned /\ Named /\ SessionInOnePlace /\ Places /\ Wakes
  BY DEF IInv
<1>1. /\ pc[t] = "clear" /\ pc' = [pc EXCEPT ![t] = "idle"]
      /\ handle' = [handle EXCEPT ![t] = NONE]
      /\ UNCHANGED <<freeSess, freeRun, mapped, sync, srcs, mid, base, syncs, intrTable,
                     input, at, clearing, lost, torn>>
  BY DEF CloseDone, Goto, fifos, struct, sems
<1>2. TypeOK'
  BY <1>i, <1>1 DEF TypeOK
<1>3. /\ pc'[t] = "idle" /\ handle'[t] = NONE
      /\ \A u \in Threads \ {t} : handle'[u] = handle[u] /\ pc'[u] = pc[u] /\ at'[u] = at[u]
  BY <1>i, <1>1 DEF TypeOK
<1>4. ASSUME NEW s \in Sessions
      PROVE  Owners(s)' = Owners(s) /\ Reach(s)' = Reach(s) /\ t \notin Owners(s)
  <2>1. t \notin Owners(s) /\ t \notin Owners(s)'
    BY <1>1, <1>3, NoneAssumption DEF Owners
  <2> QED
    BY <1>1, <1>3, <2>1, Elsewhere
<1>5. Steps'
  BY <1>i, <1>1, <1>3 DEF Steps, Local, Binding, Srcs
<1>6. Unowned' /\ SessionInOnePlace'
  <2>1. Unowned'
    BY <1>i, <1>1, <1>4 DEF Unowned
  <2> QED
    BY <1>i, <1>1, <1>4, <2>1, SameOwners
<1>7. Named' /\ \A x : \A s \in Sessions : \A i \in Slots : Names(s, i, x)' => Names(s, i, x)
  BY <1>1, <1>4, NoNewNames
<1>8. Safe' = Safe
  BY <1>1 DEF Safe
<1>9. Places'
  <2>1. \A x : Taken(x)' \subseteq Taken(x)
    BY <1>1, <1>3 DEF Taken, Binding
  <2> QED
    BY <1>i, <1>1, <1>7, <1>8, <2>1, PlacesKept
<1>10. Wakes'
  <2>1. \A s \in Sessions : \A u \in Owners(s)' :
          u \in Owners(s) /\ (Awake(u)' => Awake(u)) /\ sync'[s] = sync[s]
    BY <1>1, <1>3, <1>4 DEF Awake, Binding, Owners
  <2> QED
    BY <1>i, <1>1, <1>7, <1>8, <2>1, WakesKept
<1> QED
  BY <1>2, <1>5, <1>6, <1>7, <1>9, <1>10 DEF IInv

-----------------------------------------------------------------------------
LEMMA NextIInv == IInv /\ [Next]_vars => IInv'
<1> SUFFICES ASSUME IInv, [Next]_vars
             PROVE  IInv'
  OBVIOUS
<1>1. ASSUME NEW t \in Threads, SAS_Bind(t)
      PROVE  IInv'
  BY <1>1, BindTakeIInv, BindStoresIInv, BindIntrIInv DEF SAS_Bind
<1>2. ASSUME NEW t \in Threads, SAS_Close(t)
      PROVE  IInv'
  BY <1>2, CloseOwnerIInv, CloseFreeIInv, CloseClearIInv, CloseDoneIInv DEF SAS_Close
<1>3. CASE Next
  BY <1>1, <1>2, <1>3, OpenIInv DEF Next
<1>4. CASE UNCHANGED vars
  <2>1. UNCHANGED <<freeSess, freeRun, mapped, sync, srcs, mid, base, syncs, intrTable,
                    pc, handle, input, at, clearing, lost, torn>>
    BY <1>4 DEF vars, fifos, struct, sems
  <2>2. TypeOK'
    BY <2>1 DEF IInv, TypeOK
  <2>3. \A s : Owners(s)' = Owners(s)
    BY <2>1 DEF Owners
  <2>4. \A s : Reach(s)' = Reach(s)
    BY <2>1, <2>3 DEF Reach
  <2>5. Steps'
    BY <2>1 DEF IInv, Steps, Local, Binding, Srcs
  <2>6. Unowned' /\ Named' /\ \A s, i, x : Names(s, i, x)' = Names(s, i, x)
    BY <2>1, <2>3, <2>4 DEF IInv, Unowned, Named, Names
  <2>7. SessionInOnePlace'
    BY <2>1, <2>3, SameOwners DEF IInv
  <2>8. Safe' = Safe /\ (\A x : Taken(x)' = Taken(x)) /\ \A t : Awake(t)' = Awake(t)
    BY <2>1 DEF Safe, Taken, Binding, Awake
  <2>9. Places'
    BY <2>1, <2>6, <2>8, PlacesKept DEF IInv
  <2>10. Wakes'
    BY <2>1, <2>3, <2>6, <2>8, WakesKept DEF IInv
  <2> QED
    BY <2>2, <2>5, <2>6, <2>7, <2>9, <2>10 DEF IInv
<1> QED
  BY <1>3, <1>4

LEMMA Invariance == Spec => []IInv
BY InitIInv, NextIInv, PTL DEF Spec

\* What a session has is in its reach.
LEMMA HasNames ==
  ASSUME IInv, NEW s \in Sessions, NEW i \in Slots, NEW x, Has(s, i, x)
  PROVE  Names(s, i, x)
<1>1. i \in Reach(s)
  BY DEF Has, Reach, Span, Binding
<1> QED
  BY <1>1 DEF Has, Names

-----------------------------------------------------------------------------
(***************************************************************************)
(* The theorems.                                                           *)
(***************************************************************************)
\* The variables of the sessions stay in range; no session gets more inputs than
\* MAX_SESSION_INPUTS, although a bind looks for room long before it stores the
\* count, and a memset may reset the count in between.
THEOREM TypeCorrect == Spec => []TypeOK
<1>1. IInv => TypeOK
  BY DEF IInv
<1> QED
  BY <1>1, Invariance, PTL

\* A session offset is in the free list once, with one thread, or lost to an open
\* that failed: SAS_Open never hands out a session somebody has.
THEOREM SessionsApart == Spec => []SessionInOnePlace
<1>1. IInv => SessionInOnePlace
  BY DEF IInv
<1> QED
  BY <1>1, Invariance, PTL

\* A rundown mailbox is never bound twice, nor free while it is bound, also when the
\* memset of a close runs under the next owner of the session; mailbox 0 is excepted
\* once such a memset has erased a mailbox id.
THEOREM RundownsApart == Spec => []RundownInOnePlace
<1>1. ASSUME IInv PROVE RundownInOnePlace
  BY <1>1, HasNames DEF IInv, Places, RundownInOnePlace
<1> QED
  BY <1>1, Invariance, PTL

\* The interrupt table has, for every rundown mailbox of an open session whose
\* semaphore no memset has erased, that session's semaphore, whoever had the mailbox
\* before; mailbox 0 is excepted as in RundownsApart.
THEOREM OwnerWoken == Spec => []InterruptWakesOwner
<1>1. ASSUME IInv PROVE InterruptWakesOwner
  BY <1>1, HasNames DEF IInv, Wakes, Awake, InterruptWakesOwner
<1> QED
  BY <1>1, Invariance, PTL

=============================================================================
