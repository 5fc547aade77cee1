------------------------------- MODULE BdiProofs -------------------------------
(***************************************************************************)
(* Theorems about Bdi for every set of pages and every page size.          *)
(***************************************************************************)
EXTENDS Bdi, SequencesExt, SequenceTheorems, FiniteSetTheorems, TLAPS

\* The positions of a list and of a longer one.
LEMMA ListAppend ==
  ASSUME NEW S, NEW q \in Seq(S), NEW e \in S
  PROVE  /\ Append(q, e) \in Seq(S) /\ DOMAIN Append(q, e) = DOMAIN q \cup {Len(q) + 1}
         /\ DOMAIN q = 1 .. Len(q) /\ Len(q) \in Nat
         /\ \A i \in DOMAIN q : Append(q, e)[i] = q[i] /\ i # Len(q) + 1
         /\ Append(q, e)[Len(q) + 1] = e
OBVIOUS

\* The positions of the tail of a list.
LEMMA ListTail ==
  ASSUME NEW S, NEW q \in Seq(S), q # <<>>
  PROVE  /\ Tail(q) \in Seq(S) /\ Head(q) \in S /\ Head(q) = q[1] /\ 1 \in DOMAIN q
         /\ DOMAIN q = 1 .. Len(q) /\ Len(q) \in Nat
         /\ \A i \in DOMAIN Tail(q) : i + 1 \in DOMAIN q /\ Tail(q)[i] = q[i + 1] /\ i \in Nat \ {0}
         /\ \A i \in DOMAIN q : i # 1 => i - 1 \in DOMAIN Tail(q) /\ Tail(q)[i - 1] = q[i]
<1>1. DOMAIN q = 1 .. Len(q) /\ Len(q) \in Nat /\ Len(q) # 0 /\ Head(q) = q[1]
  OBVIOUS
<1>2. /\ Tail(q) \in Seq(S) /\ DOMAIN Tail(q) = 1 .. Len(q) - 1
      /\ \A i \in 1 .. Len(q) - 1 : Tail(q)[i] = q[i + 1]
  OBVIOUS
<1> QED
  BY <1>1, <1>2

\* Taking the head of a list of distinct elements.
LEMMA TakeHead ==
  ASSUME NEW S, NEW q \in Seq(S), q # <<>>, IsInjective(q)
  PROVE  /\ Head(q) \in S /\ Head(q) \in Range(q)
         /\ Tail(q) \in Seq(S)
         /\ IsInjective(Tail(q))
         /\ Range(Tail(q)) = Range(q) \ {Head(q)}
<1> DEFINE t == Tail(q)
<1>1. /\ t \in Seq(S) /\ Head(q) \in S /\ Head(q) = q[1] /\ 1 \in DOMAIN q
      /\ \A i \in DOMAIN t : i + 1 \in DOMAIN q /\ t[i] = q[i + 1] /\ i \in Nat \ {0}
      /\ \A i \in DOMAIN q : i # 1 => i - 1 \in DOMAIN t /\ t[i - 1] = q[i]
  BY ListTail
<1> HIDE DEF t
<1>2. \A i, j \in DOMAIN t : t[i] = t[j] => i + 1 = j + 1
  BY <1>1 DEF IsInjective
<1>3. IsInjective(t)
  BY <1>1, <1>2 DEF IsInjective
<1>4. \A i \in DOMAIN t : t[i] # q[1]
  BY <1>1 DEF IsInjective
<1>5. Range(t) = Range(q) \ {q[1]} /\ q[1] \in Range(q)
  BY <1>1, <1>4 DEF Range
<1> QED
  BY <1>1, <1>3, <1>5 DEF t

\* Appending to a list of distinct elements.
LEMMA GiveBack ==
  ASSUME NEW S, NEW q \in Seq(S), NEW e \in S
  PROVE  /\ Append(q, e) \in Seq(S)
         /\ Range(Append(q, e)) = Range(q) \cup {e}
         /\ IsInjective(q) /\ e \notin Range(q) => IsInjective(Append(q, e))
<1> DEFINE a == Append(q, e)
           k == Len(q) + 1
<1>1. /\ a \in Seq(S) /\ DOMAIN a = DOMAIN q \cup {k} /\ a[k] = e
      /\ \A i \in DOMAIN q : a[i] = q[i] /\ i # k
  OBVIOUS
<1> HIDE DEF a, k
<1> QED
  BY <1>1 DEF IsInjective, Range, a

\* The elements of a list, of its tail and of a longer one.
LEMMA ListElements ==
  ASSUME NEW S, NEW q \in Seq(S)
  PROVE  /\ Range(q) \subseteq S
         /\ q # <<>> => Head(q) \in Range(q) /\ Tail(q) \in Seq(S) /\ Range(Tail(q)) \subseteq Range(q)
         /\ \A e \in S : Append(q, e) \in Seq(S) /\ Range(Append(q, e)) = Range(q) \cup {e}
<1>1. Range(q) \subseteq S
  BY RangeOfSeq
<1>2. ASSUME q # <<>>
      PROVE  Head(q) \in Range(q) /\ Tail(q) \in Seq(S) /\ Range(Tail(q)) \subseteq Range(q)
  BY <1>2, HeadTailProperties DEF Range
<1>3. ASSUME NEW e \in S
      PROVE  Append(q, e) \in Seq(S) /\ Range(Append(q, e)) = Range(q) \cup {e}
  BY AppendProperties DEF Range
<1> QED
  BY <1>1, <1>2, <1>3

-----------------------------------------------------------------------------
\* The pages that the jobs of list w announce, and that no two announce the same.
Announced(w) == {w[i].page : i \in {k \in DOMAIN w : w[k].rundown}}

AnnouncedOnce(w) ==
  \A i, j \in {k \in DOMAIN w : w[k].rundown} : w[i].page = w[j].page => i = j

Apart(F, D, W, R, H, L) ==
  /\ F \cap (D \cup W \cup R \cup H \cup L) = {}
  /\ D \cap (W \cup R \cup H \cup L) = {}
  /\ W \cap (R \cup H \cup L) = {}
  /\ R \cap (H \cup L) = {}
  /\ H \cap L = {}

OnePlace ==
  /\ Apart(free, {dma} \ {NONE}, Announced(work), Range(rundown), held, lost)
  /\ AnnouncedOnce(work)
  /\ IsInjective(rundown)

\* A page that follows a page on its way to the user is being filled, behind it on
\* the way, or lost; and it is not discarded.
NextBehind ==
  /\ \A r \in Announced(work) \cup Range(rundown) :
       /\ page[r].next \in {NONE, dma} \cup Announced(work) \cup Range(rundown) \cup lost
       /\ status => page[r].next = NONE \/ page[r].next # dma
  /\ \A i, j \in DOMAIN rundown : page[rundown[i]].next = rundown[j] => i < j
  /\ \A i \in Announcing :
       /\ \A j \in Announcing : page[work[i].page].next = work[j].page => i < j
       /\ page[work[i].page].next \notin Range(rundown)

\* No data is moved into a page after it has been announced.
JobsBefore ==
  /\ \A i \in DOMAIN work : work[i].page \notin held \cup Range(rundown)
  /\ \A i \in Announcing : \A j \in DOMAIN work : work[j].page = work[i].page => j <= i

\* The pages on their way to the user.
Flying == Announced(work) \cup Range(rundown)

\* The units a page begins behind and ends with: what does not fit into a page
\* belongs to the page that follows it.
Start(p) == page[p].upto - page[p].size
End(p) == IF page[p].next = NONE THEN page[p].upto ELSE Start(p) + PageSize

\* The page being filled ends with the unit received last.
Filling == dma # NONE => ~page[dma].last /\ page[dma].upto = rx

\* Pages reach the user in the order of their data.
InOrder ==
  /\ \A r \in Flying : page[r].upto <= rx
  /\ \A i, j \in DOMAIN rundown : i < j => page[rundown[i]].upto < page[rundown[j]].upto
  /\ \A i, j \in Announcing : i < j => page[work[i].page].upto < page[work[j].page].upto
  /\ \A i \in DOMAIN rundown, j \in Announcing : page[rundown[i]].upto < page[work[j].page].upto

Earliest(r) == \A x \in Flying : page[r].upto <= page[x].upto
Latest(r) == \A x \in Flying : page[x].upto <= page[r].upto
Behind(s, r) ==
  /\ page[s].upto < page[r].upto
  /\ \A x \in Flying : page[x].upto <= page[s].upto \/ page[r].upto <= page[x].upto

\* What the user may conclude from page r when the page before it had number seq,
\* ended a frame or not, and ended with a unit.
Follows(seq, last, unit, r) ==
  /\ \/ page[r].seq = seq + 1 /\ ~last
     \/ page[r].seq = 0 /\ (page[r].first \/ page[r].err \/ last)
  /\ page[r].err \/ Start(r) = unit

\* The device will number the page it completes next so that it follows.
Ready(seq, last, unit) ==
  /\ \/ sequence = seq + 1 /\ ~last
     \/ sequence = 0 /\ (last \/ status \/ (dma # NONE /\ page[dma].first))
  /\ status \/ unit = IF dma = NONE THEN rx ELSE Start(dma)

\* Every page on its way follows the one before it: the first one follows what
\* the user was given last, and what the device completes next the last one.
Chain ==
  /\ \A r \in Flying : Earliest(r) => Follows(seen.seq, seen.last, seen.unit, r)
  /\ \A s, r \in Flying : Behind(s, r) => Follows(page[s].seq, page[s].last, End(s), r)
  /\ \A r \in Flying : Latest(r) => Ready(page[r].seq, page[r].last, End(r))
  /\ Flying = {} => Ready(seen.seq, seen.last, seen.unit)

\* The pages being filled or on their way to the user.
InUse == Flying \cup ({dma} \ {NONE})

\* A movement of data goes where the frame was laid; one into a page that was
\* discarded may still be outstanding, and then stays below the page's size.
JobsRight ==
  \A i \in DOMAIN work :
    \/ work[i].page \in tainted /\ work[i].off + work[i].size <= PageSize
    \/ work[i].page \in lost
    \/ /\ work[i].page \in InUse
       /\ work[i].unit = Start(work[i].page) + 1 + work[i].off
       /\ work[i].off + work[i].size <= page[work[i].page].size

\* The unit for offset o of page p is still to be moved, or to be carried in.
Moving(p, o) ==
  \E i \in DOMAIN work : work[i].page = p /\ o \in work[i].off .. work[i].off + work[i].size - 1

Coming(p, o) ==
  \/ o < Len(page[p].ovflow)
  \/ \E s \in Flying : page[s].next = p /\ o < page[s].size - PageSize

\* Every unit of a page is in its place or still on its way there; of a page that
\* was discarded with movements outstanding this holds of the overflow.
DataRight ==
  \A p \in InUse : \A o \in 0 .. page[p].size - 1 :
    p \notin tainted \/ o >= PageSize =>
      data[p][o] = Start(p) + o + 1 \/ Moving(p, o) \/ Coming(p, o)

\* What has been carried over to a page is what the page begins with.
CarriedIn ==
  \A p \in InUse :
    /\ \A i \in DOMAIN page[p].ovflow : page[p].ovflow[i] = Start(p) + i
    /\ Len(page[p].ovflow) < PageSize
    /\ page[p].ovflow # <<>> => \A s \in Flying : page[s].next # p

\* A page that overflows is followed by the page that takes the overflow.
CarryOver ==
  \A s \in Flying :
    /\ IF page[s].next = NONE THEN page[s].size <= PageSize ELSE page[s].size > PageSize
    /\ page[s].next \in InUse => Start(page[s].next) = Start(s) + PageSize
    /\ \A t \in Flying : page[s].next = page[t].next /\ page[s].next # NONE => s = t

DataInv == JobsRight /\ DataRight /\ CarriedIn /\ CarryOver

IInv ==
  /\ PageTakesFrame
  /\ TypeOK /\ OnePlace /\ NextBehind /\ JobsBefore /\ Filling /\ InOrder /\ Chain /\ DataInv

-----------------------------------------------------------------------------
LEMMA OnePlaceIs == OnePlace <=> PageInOnePlace
<1> DEFINE W == Announced(work)
           R == Range(rundown)
           D == {dma} \ {NONE}
<1>1. Place = [free |-> free, dma |-> D, work |-> W, rundown |-> R, held |-> held, lost |-> lost]
  BY DEF Place, Announced, Announcing
<1>2. AnnouncedOnce(work) <=> \A i, j \in Announcing : work[i].page = work[j].page => i = j
  BY DEF AnnouncedOnce, Announcing
<1>3. Apart(free, D, W, R, held, lost)
        <=> \A i, j \in DOMAIN Place : i # j => Place[i] \cap Place[j] = {}
  <2> HIDE DEF W, R, D
  <2>1. /\ DOMAIN Place = {"free", "dma", "work", "rundown", "held", "lost"}
        /\ Place["free"] = free /\ Place["dma"] = D /\ Place["work"] = W
        /\ Place["rundown"] = R /\ Place["held"] = held /\ Place["lost"] = lost
    BY <1>1
  <2>2. ASSUME \A i, j \in DOMAIN Place : i # j => Place[i] \cap Place[j] = {}
        PROVE  Apart(free, D, W, R, held, lost)
    <3>1. /\ free \cap D = {} /\ free \cap W = {} /\ free \cap R = {} /\ free \cap held = {}
          /\ free \cap lost = {}
      BY <2>1, <2>2
    <3>2. D \cap W = {} /\ D \cap R = {} /\ D \cap held = {} /\ D \cap lost = {}
      BY <2>1, <2>2
    <3>3. W \cap R = {} /\ W \cap held = {} /\ W \cap lost = {}
      BY <2>1, <2>2
    <3>4. R \cap held = {} /\ R \cap lost = {} /\ held \cap lost = {}
      BY <2>1, <2>2
    <3> QED
      BY <3>1, <3>2, <3>3, <3>4 DEF Apart
  <2>3. ASSUME Apart(free, D, W, R, held, lost), NEW i \in DOMAIN Place, NEW j \in DOMAIN Place,
               i # j
        PROVE  Place[i] \cap Place[j] = {}
    BY <2>1, <2>3 DEF Apart
  <2> QED
    BY <2>2, <2>3
<1> QED
  BY <1>2, <1>3 DEF OnePlace, PageInOnePlace

LEMMA AnnounceAppend ==
  ASSUME NEW w \in Seq(Jobs), NEW job \in Jobs, AnnouncedOnce(w),
         job.rundown => job.page \notin Announced(w)
  PROVE  /\ Announced(Append(w, job)) = Announced(w) \cup (IF job.rundown THEN {job.page} ELSE {})
         /\ AnnouncedOnce(Append(w, job))
<1> DEFINE v == Append(w, job)
<1>1. /\ DOMAIN v = DOMAIN w \cup {Len(w) + 1} /\ v[Len(w) + 1] = job
      /\ \A i \in DOMAIN w : v[i] = w[i] /\ i # Len(w) + 1
  BY ListAppend
<1> HIDE DEF v
<1>2. Announced(v) = Announced(w) \cup (IF job.rundown THEN {job.page} ELSE {})
  BY <1>1 DEF Announced
<1>3. \A i \in DOMAIN w : w[i].rundown => w[i].page \in Announced(w)
  BY DEF Announced
<1>4. AnnouncedOnce(v)
  BY <1>1, <1>3 DEF AnnouncedOnce
<1> QED
  BY <1>2, <1>4 DEF v

LEMMA AnnounceTail ==
  ASSUME NEW w \in Seq(Jobs), w # <<>>, AnnouncedOnce(w)
  PROVE  /\ Announced(Tail(w)) = Announced(w) \ (IF Head(w).rundown THEN {Head(w).page} ELSE {})
         /\ AnnouncedOnce(Tail(w))
         /\ Head(w).rundown => Head(w).page \in Announced(w)
<1> DEFINE v == Tail(w)
           h == Head(w)
<1>1. /\ h = w[1] /\ 1 \in DOMAIN w
      /\ \A i \in DOMAIN v : i + 1 \in DOMAIN w /\ v[i] = w[i + 1] /\ i \in Nat \ {0}
      /\ \A i \in DOMAIN w : i # 1 => i - 1 \in DOMAIN v /\ v[i - 1] = w[i]
  BY ListTail
<1> HIDE DEF v, h
<1>2. h.rundown => h.page \in Announced(w)
  BY <1>1 DEF Announced
<1>3. AnnouncedOnce(v)
  <2> SUFFICES ASSUME NEW i \in DOMAIN v, NEW j \in DOMAIN v, v[i].rundown, v[j].rundown,
                      v[i].page = v[j].page
               PROVE  i = j
    BY DEF AnnouncedOnce
  <2>1. i + 1 = j + 1
    BY <1>1 DEF AnnouncedOnce
  <2> QED
    BY <1>1, <2>1
<1>4. ASSUME NEW x \in Announced(v)
      PROVE  x \in Announced(w) /\ (h.rundown => x # h.page)
  <2>1. PICK i \in DOMAIN v : v[i].rundown /\ x = v[i].page
    BY <1>4 DEF Announced
  <2>2. i + 1 \in DOMAIN w /\ w[i + 1].rundown /\ x = w[i + 1].page /\ i + 1 # 1
    BY <1>1, <2>1
  <2>3. x \in Announced(w)
    BY <2>2 DEF Announced
  <2>4. h.rundown => x # h.page
    BY <1>1, <2>2 DEF AnnouncedOnce
  <2> QED
    BY <2>3, <2>4
<1>5. ASSUME NEW x \in Announced(w), h.rundown => x # h.page
      PROVE  x \in Announced(v)
  <2>1. PICK i \in DOMAIN w : w[i].rundown /\ x = w[i].page
    BY <1>5 DEF Announced
  <2>2. i # 1
    BY <1>1, <1>5, <2>1
  <2>3. i - 1 \in DOMAIN v /\ v[i - 1] = w[i]
    BY <1>1, <2>2
  <2> QED
    BY <2>1, <2>3 DEF Announced
<1> QED
  BY <1>2, <1>3, <1>4, <1>5 DEF v, h

-----------------------------------------------------------------------------
(***************************************************************************)
(* A page is in one place: action by action.                               *)
(***************************************************************************)
LEMMA DiscardKeeps ==
  ASSUME TypeOK, OnePlace, NEW f \in Frames, _discard(f)
  PROVE  OnePlace'
<1>1. /\ dma' = NONE /\ UNCHANGED <<work, rundown, held>>
      /\ \/ UNCHANGED <<free, lost>>
         \/ dma # NONE /\ free' = free \cup {dma} /\ UNCHANGED lost
         \/ dma # NONE /\ lost' = lost \cup {dma} /\ UNCHANGED free
  BY DEF _discard, Freed
<1> DEFINE W == Announced(work)
           R == Range(rundown)
<1>2. {dma'} \ {NONE} = {} /\ Announced(work') = W /\ Range(rundown') = R
  BY <1>1
<1>3. Apart(free, {dma} \ {NONE}, W, R, held, lost)
  BY DEF OnePlace
<1> HIDE DEF W, R
<1>4. Apart(free', {}, W, R, held, lost')
  <2>1. CASE UNCHANGED <<free, lost>>
    BY <1>3, <2>1 DEF Apart
  <2>2. CASE dma # NONE /\ free' = free \cup {dma} /\ UNCHANGED lost
    BY <1>3, <2>2 DEF Apart
  <2>3. CASE dma # NONE /\ lost' = lost \cup {dma} /\ UNCHANGED free
    BY <1>3, <2>3 DEF Apart
  <2> QED
    BY <1>1, <2>1, <2>2, <2>3
<1>5. AnnouncedOnce(work') /\ IsInjective(rundown')
  BY <1>1 DEF OnePlace
<1> QED
  BY <1>1, <1>2, <1>4, <1>5 DEF OnePlace

LEMMA NoNextPageKeeps ==
  ASSUME TypeOK, OnePlace, NEW f \in Frames, NEW p \in Pages, NoNextPage(f, p)
  PROVE  OnePlace'
<1>1. /\ dma' = NONE /\ UNCHANGED <<work, rundown, held>>
      /\ free' = free \ {p} /\ lost' = lost \cup {p}
      /\ dma = p \/ (dma = NONE /\ p \in free)
  BY DEF NoNextPage, Target
<1> DEFINE D == {dma} \ {NONE}
           W == Announced(work)
           R == Range(rundown)
<1>2. {dma'} \ {NONE} = {} /\ Announced(work') = W /\ Range(rundown') = R
  BY <1>1
<1>3. Apart(free, D, W, R, held, lost) /\ (p \in D \/ p \in free)
  BY <1>1, NoneAssumption DEF OnePlace
<1>4. AnnouncedOnce(work') /\ IsInjective(rundown')
  BY <1>1 DEF OnePlace
<1> HIDE DEF D, W, R
<1>5. p \notin W \cup R \cup held
  BY <1>3 DEF Apart
<1>6. Apart(free', {}, W, R, held, lost')
  BY <1>1, <1>3, <1>5 DEF Apart
<1> QED
  BY <1>1, <1>2, <1>4, <1>6 DEF OnePlace

LEMMA EngineKeeps ==
  ASSUME TypeOK, OnePlace, Engine
  PROVE  OnePlace'
<1> DEFINE job == Head(work)
<1>1. /\ work' = Tail(work) /\ work # <<>> /\ work \in Seq(Jobs)
      /\ UNCHANGED <<free, dma, held, lost>>
      /\ rundown' = IF job.rundown THEN Append(rundown, job.page) ELSE rundown
  BY DEF Engine, devVars, TypeOK
<1>2. job \in Jobs
  BY <1>1, ListTail
<1>3. job.page \in Pages /\ rundown \in Seq(Pages)
  <2> HIDE DEF job
  <2> QED
    BY <1>2 DEF Jobs, TypeOK
<1>4. /\ Announced(work') = Announced(work) \ (IF job.rundown THEN {job.page} ELSE {})
      /\ AnnouncedOnce(work')
      /\ job.rundown => job.page \in Announced(work)
  BY <1>1, AnnounceTail DEF OnePlace
<1> HIDE DEF job
<1>5. CASE job.rundown
  <2>1. job.page \notin Range(rundown)
    BY <1>4, <1>5 DEF OnePlace, Apart
  <2>2. Range(rundown') = Range(rundown) \cup {job.page} /\ IsInjective(rundown')
    BY <1>1, <1>3, <1>5, <2>1, GiveBack DEF OnePlace
  <2> QED
    BY <1>1, <1>4, <1>5, <2>2 DEF OnePlace, Apart
<1>6. CASE ~job.rundown
  BY <1>1, <1>4, <1>6 DEF OnePlace, Apart
<1> QED
  BY <1>5, <1>6

LEMMA WaitKeeps ==
  ASSUME TypeOK, OnePlace, BDI_Wait
  PROVE  OnePlace'
<1> DEFINE p == Head(rundown)
<1>1. /\ rundown' = Tail(rundown) /\ rundown # <<>> /\ rundown \in Seq(Pages)
      /\ held' = held \cup {p}
      /\ UNCHANGED <<free, dma, work, lost>>
  BY DEF BDI_Wait, devVars, TypeOK
<1>2. Range(rundown') = Range(rundown) \ {p} /\ IsInjective(rundown') /\ p \in Range(rundown)
  BY <1>1, TakeHead DEF OnePlace
<1> QED
  BY <1>1, <1>2 DEF OnePlace, Apart

LEMMA FreeKeeps ==
  ASSUME TypeOK, OnePlace, NEW p \in Pages, BDI_Free(p)
  PROVE  OnePlace'
BY DEF BDI_Free, devVars, OnePlace, Apart

\* What a frame that finds its pages does, in the order of _fork.
Total(f, p) == Active(p).size + f.size
Forked(f, p) == Total(f, p) >= PageSize \/ f.eof

LEMMA Sizes ==
  ASSUME PageTakesFrame
  PROVE  PageSize \in Nat \ {0} /\ MaxFrame \in Nat \ {0} /\ MaxFrame <= PageSize
BY PageSizeAssumption, MaxFrameAssumption DEF PageTakesFrame

LEMMA StoreDoes ==
  ASSUME PageTakesFrame, TypeOK, NEW f \in Frames, NEW p \in Pages, NEW q \in Pages \cup {NONE}, Store(f, p, q)
  PROVE  /\ f.size \in 1 .. MaxFrame /\ f.size \in 1 .. PageSize /\ f.copied \in BOOLEAN
         /\ Active(p) \in PageFields /\ Active(p).size < PageSize
         /\ Total(f, p) \in Offsets /\ Total(f, p) > 0
         /\ rx + f.size \in Units /\ rx + 1 \in Units /\ rx \in Nat
         /\ Total(f, p) > PageSize => Forked(f, p)
<1>1. f.size \in 1 .. MaxFrame /\ f.size \in 1 .. PageSize /\ f.copied \in BOOLEAN
  <2>1. f.size \in 1 .. MaxFrame /\ f.copied \in BOOLEAN
    BY FrameSizesAssumption, CopiedAssumption DEF Frames
  <2> QED
    BY <2>1, Sizes
<1>2. Active(p) \in PageFields /\ Active(p).size < PageSize
  <2>1. CASE dma = NONE
    <3>1. Fresh \in PageFields /\ Fresh.size = 0
      BY Sizes DEF Fresh, PageFields, Offsets, Units
    <3> QED
      BY <2>1, <3>1, Sizes DEF Active
  <2>2. CASE dma # NONE
    BY <2>2 DEF Active, TypeOK, Store, Target
  <2> QED
    BY <2>1, <2>2
<1>3. Active(p).size \in Offsets
  BY <1>2 DEF PageFields
<1>4. Total(f, p) \in Offsets /\ Total(f, p) > 0
  BY <1>1, <1>2, <1>3, Sizes DEF Total, Offsets
<1>5. rx + f.size <= MaxUnits /\ rx \in 0 .. MaxUnits
  BY DEF Store, Receive, TypeOK, Units
<1>6. rx + f.size \in Units /\ rx + 1 \in Units /\ rx \in Nat
  BY <1>1, <1>5, MaxUnitsAssumption, Sizes DEF Units
<1>7. Total(f, p) > PageSize => Forked(f, p)
  BY <1>4, Sizes DEF Forked, Offsets
<1> QED
  BY <1>1, <1>2, <1>4, <1>6, <1>7

LEMMA JobOf ==
  ASSUME PageTakesFrame, TypeOK, NEW f \in Frames, NEW p \in Pages, NEW q \in Pages \cup {NONE}, Store(f, p, q),
         NEW forked \in BOOLEAN
  PROVE  /\ Job(f, p, Active(p).size, forked) \in Jobs
         /\ Job(f, p, Active(p).size, forked).page = p
         /\ Job(f, p, Active(p).size, forked).rundown = forked
         /\ Job(f, p, Active(p).size, forked).unit = rx + 1
         /\ Job(f, p, Active(p).size, forked).size \in {0, f.size}
         /\ Job(f, p, Active(p).size, forked).off = Active(p).size
<1>1. /\ f.size \in 1 .. PageSize /\ f.copied \in BOOLEAN
      /\ Active(p).size \in Offsets /\ rx + f.size \in Units /\ rx + 1 \in Units /\ rx \in Nat
  BY StoreDoes DEF PageFields
<1>2. f.size \in Units /\ 0 \in Units
  BY <1>1, MaxUnitsAssumption, Sizes DEF Units
<1> DEFINE n == IF f.copied THEN 0 ELSE f.size
           o == Active(p).size
<1>3. n \in Units /\ n \in {0, f.size} /\ o \in Offsets
  BY <1>1, <1>2
<1>4. Job(f, p, o, forked) = [page |-> p, off |-> o, unit |-> rx + 1, size |-> n, rundown |-> forked]
  BY DEF Job
<1> HIDE DEF n, o
<1>5. /\ Job(f, p, o, forked) \in Jobs /\ Job(f, p, o, forked).page = p
      /\ Job(f, p, o, forked).rundown = forked /\ Job(f, p, o, forked).unit = rx + 1
      /\ Job(f, p, o, forked).size = n /\ Job(f, p, o, forked).off = o
  BY <1>1, <1>3, <1>4 DEF Jobs
<1> QED
  BY <1>3, <1>5 DEF o

LEMMA StoreKeeps ==
  ASSUME PageTakesFrame, TypeOK, OnePlace, NEW f \in Frames, NEW p \in Pages, NEW q \in Pages \cup {NONE},
         Store(f, p, q)
  PROVE  OnePlace'
<1> DEFINE forked == Forked(f, p)
           over == Total(f, p) > PageSize
           job == Job(f, p, Active(p).size, forked)
<1>1. /\ dma = p \/ (dma = NONE /\ p \in free)
      /\ IF over THEN q \in free \ {p} ELSE q = NONE
      /\ free' = free \ {p, q}
      /\ dma' = NextDma(p, q, Total(f, p), forked)
      /\ work' = IF f.copied /\ ~forked THEN work ELSE Append(work, job)
      /\ UNCHANGED <<rundown, held, lost>>
  BY DEF Store, Target, Total, Forked, _retire
<1>2. over => forked
  BY StoreDoes
<1>3. forked \in BOOLEAN
  BY DEF Forked
<1>4. job \in Jobs /\ job.page = p /\ job.rundown = forked
  BY <1>3, JobOf
<1>5. work \in Seq(Jobs) /\ p \notin Announced(work) /\ AnnouncedOnce(work)
  BY <1>1, NoneAssumption DEF TypeOK, OnePlace, Apart
<1> HIDE DEF job
<1>6. /\ Announced(work') = Announced(work) \cup (IF forked THEN {p} ELSE {})
      /\ AnnouncedOnce(work')
  <2>1. CASE f.copied /\ ~forked
    BY <1>1, <1>5, <2>1
  <2>2. CASE ~(f.copied /\ ~forked)
    BY <1>1, <1>4, <1>5, <2>2, AnnounceAppend
  <2> QED
    BY <2>1, <2>2
<1>7. {dma'} \ {NONE} \subseteq (IF over THEN {q} ELSE IF forked THEN {} ELSE {p})
  BY <1>1 DEF NextDma
<1> HIDE DEF forked, over
<1> DEFINE D == {dma} \ {NONE}
           W == Announced(work)
           R == Range(rundown)
<1>8. Apart(free, D, W, R, held, lost) /\ (p \in D \/ p \in free)
      /\ (over => q \in free /\ q # p)
  BY <1>1, NoneAssumption DEF OnePlace
<1>9. /\ free' = free \ {p, q}
      /\ Announced(work') = W \cup (IF forked THEN {p} ELSE {})
      /\ D = {} \/ D = {p}
  BY <1>1, <1>6
<1> HIDE DEF D, W, R
<1>10. Apart(free', IF over THEN {q} ELSE IF forked THEN {} ELSE {p}, Announced(work'),
             R, held, lost)
  <2>1. p \notin W \cup R \cup held \cup lost
    BY <1>8 DEF Apart
  <2>2. over => q \notin W \cup R \cup held \cup lost
    BY <1>8 DEF Apart
  <2> QED
    BY <1>2, <1>8, <1>9, <2>1, <2>2 DEF Apart
<1>11. Apart(free', {dma'} \ {NONE}, Announced(work'), R, held, lost)
  BY <1>7, <1>10 DEF Apart
<1>12. Range(rundown') = R /\ IsInjective(rundown') /\ held' = held /\ lost' = lost
  BY <1>1 DEF R, OnePlace
<1> QED
  BY <1>6, <1>11, <1>12 DEF OnePlace

LEMMA PlaceStep ==
  ASSUME PageTakesFrame, TypeOK, OnePlace, [Next]_vars
  PROVE  OnePlace'
<1>1. ASSUME UNCHANGED <<free, dma, work, rundown, held, lost>>
      PROVE  OnePlace'
  BY <1>1 DEF OnePlace
<1>2. ASSUME NEW f \in Frames, _fork(f)
      PROVE  OnePlace'
  <2>1. CASE _discard(f)
    BY <2>1, DiscardKeeps
  <2>2. CASE NoPage(f)
    BY <1>1, <2>2 DEF NoPage
  <2>3. ASSUME NEW p \in Pages, NoNextPage(f, p)
        PROVE  OnePlace'
    BY <2>3, NoNextPageKeeps
  <2>4. ASSUME NEW p \in Pages, NEW q \in Pages \cup {NONE}, Store(f, p, q)
        PROVE  OnePlace'
    BY <2>4, StoreKeeps
  <2> QED
    BY <1>2, <2>1, <2>2, <2>3, <2>4 DEF _fork
<1>3. CASE UNCHANGED vars
  BY <1>1, <1>3 DEF vars, devVars
<1> QED
  BY <1>2, <1>3, EngineKeeps, WaitKeeps, FreeKeeps DEF Next

-----------------------------------------------------------------------------
(***************************************************************************)
(* Every variable stays in its range.                                      *)
(***************************************************************************)
\* The data and the pages, the rest.
Buffers ==
  /\ dma \in Pages \cup {NONE}
  /\ dma # NONE => page[dma].size < PageSize
  /\ page \in [Pages -> PageFields]
  /\ data \in [Pages -> [Offsets -> Units]]

Queues ==
  /\ work \in Seq(Jobs)
  /\ \A i \in DOMAIN work : work[i].unit + work[i].size <= MaxUnits + 1
  /\ rundown \in Seq(Pages)

Rest ==
  /\ free \subseteq Pages
  /\ status \in BOOLEAN
  /\ sequence \in Nat /\ fails \in Nat /\ discard \in Nat
  /\ stamped \subseteq Pages
  /\ held \subseteq Pages
  /\ rx \in Units
  /\ tainted \subseteq Pages
  /\ lost \subseteq Pages

LEMMA TypeOKIs == TypeOK <=> Buffers /\ Queues /\ Rest /\ InBuffers
BY DEF TypeOK, Buffers, Queues, Rest

LEMMA SameInBuffers ==
  ASSUME InBuffers, UNCHANGED <<page, work>>
  PROVE  InBuffers'
BY DEF InBuffers

LEMMA ReceiveTypes ==
  ASSUME NEW f \in Frames, rx \in Units, Receive(f)
  PROVE  rx' \in Units
<1>1. f.size \in 1 .. MaxFrame
  BY FrameSizesAssumption DEF Frames
<1> QED
  BY <1>1, MaxUnitsAssumption, MaxFrameAssumption DEF Receive, Units

LEMMA LaidTypes ==
  ASSUME NEW b \in [Offsets -> Units], NEW o \in Offsets, NEW u \in Units, NEW n \in Units,
         u + n <= MaxUnits + 1
  PROVE  Laid(b, o, u, n) \in [Offsets -> Units]
<1> SUFFICES ASSUME NEW x \in Offsets, x \in o .. o + n - 1
             PROVE  u + (x - o) \in Units
  BY DEF Laid
<1> QED
  BY MaxUnitsAssumption, PageSizeAssumption, MaxFrameAssumption DEF Units, Offsets

LEMMA StoreTypes ==
  ASSUME PageTakesFrame, TypeOK, OnePlace, NEW f \in Frames, NEW p \in Pages, NEW q \in Pages \cup {NONE},
         Store(f, p, q)
  PROVE  TypeOK'
<1> DEFINE total == Total(f, p)
           over == total > PageSize
           forked == Forked(f, p)
           job == Job(f, p, Active(p).size, forked)
<1>1. /\ f.size \in 1 .. PageSize /\ f.copied \in BOOLEAN /\ f.sof \in BOOLEAN /\ f.eof \in BOOLEAN
      /\ Active(p) \in PageFields /\ Active(p).size \in Offsets
      /\ total \in Offsets /\ total > 0
      /\ rx + f.size \in Units /\ rx + 1 \in Units /\ rx \in Nat
      /\ (over => forked) /\ forked \in BOOLEAN
  BY StoreDoes DEF PageFields, Frames, Forked
<1>2. rx' \in Units /\ rx' = rx + f.size
  BY <1>1 DEF Store, Receive
<1>3. total - PageSize < PageSize /\ (over => total - PageSize \in Offsets)
      /\ (~over /\ ~forked => total < PageSize)
  BY <1>1, Sizes DEF Offsets, Forked
<1>4. Rest'
  <2>1. sequence' \in Nat /\ status' \in BOOLEAN
    BY <1>1 DEF Store, Stamp, TypeOK, Total, Forked
  <2>2. /\ free' \subseteq Pages /\ stamped' \subseteq Pages
        /\ UNCHANGED <<fails, discard, held, tainted, lost>>
    BY DEF Store, TypeOK
  <2> QED
    BY <1>2, <2>1, <2>2 DEF Rest, TypeOK
<1>5. Queues'
  <2>1. job \in Jobs /\ job.unit = rx + 1 /\ job.size \in {0, f.size}
    BY <1>1, JobOf
  <2>2. job.unit + job.size <= MaxUnits + 1
    BY <1>1, <2>1, MaxUnitsAssumption DEF Units
  <2>3. /\ work' = IF f.copied /\ ~forked THEN work ELSE Append(work, job)
        /\ UNCHANGED rundown
    BY DEF Store, Total, Forked, _retire
  <2> HIDE DEF job
  <2> QED
    BY <2>1, <2>2, <2>3, ListAppend DEF Queues, TypeOK
<1>6. data' \in [Pages -> [Offsets -> Units]]
  <2> DEFINE L == Laid(data[p], Active(p).size, rx + 1, f.size)
  <2>1. data' = IF f.copied THEN [data EXCEPT ![p] = L] ELSE data
    BY DEF Store, _retire
  <2>2. data[p] \in [Offsets -> Units] /\ data \in [Pages -> [Offsets -> Units]]
    BY DEF TypeOK
  <2>3. f.size \in Units /\ rx + 1 + f.size <= MaxUnits + 1
    BY <1>1, MaxUnitsAssumption, Sizes DEF Units
  <2>4. L \in [Offsets -> Units]
    BY <1>1, <2>2, <2>3, LaidTypes
  <2> HIDE DEF L
  <2> QED
    BY <2>1, <2>2, <2>4
<1> DEFINE filled == [Active(p) EXCEPT !.size = total,
                        !.first = @ \/ f.sof,
                        !.last = @ \/ f.eof,
                        !.next = IF over THEN q ELSE NONE,
                        !.seq = IF ~forked THEN @ ELSE IF f.sof THEN 0 ELSE sequence,
                        !.err = @ \/ (forked /\ status),
                        !.upto = rx + f.size]
           rest == [Fresh EXCEPT !.size = total - PageSize, !.upto = rx + f.size]
<1>7. /\ page' = [x \in Pages |-> CASE x = p -> filled [] x = q -> rest [] OTHER -> page[x]]
      /\ dma' = NextDma(p, q, total, forked)
      /\ IF over THEN q \in free \ {p} ELSE q = NONE
  BY DEF Store, Total, Forked
<1>8. filled \in PageFields /\ filled.size = total
  <2>1. rx + f.size \in Nat /\ status \in BOOLEAN /\ sequence \in Nat
    BY <1>1 DEF TypeOK, Units
  <2> DEFINE a == Active(p)
  <2>2. /\ a \in PageFields /\ a.first \in BOOLEAN /\ a.last \in BOOLEAN /\ a.err \in BOOLEAN
        /\ a.seq \in Nat /\ a.ovflow \in Seq(Units)
    BY <1>1 DEF PageFields
  <2> DEFINE nx == IF over THEN q ELSE NONE
             sq == IF ~forked THEN a.seq ELSE IF f.sof THEN 0 ELSE sequence
             fi == a.first \/ f.sof
             la == a.last \/ f.eof
             er == a.err \/ (forked /\ status)
             up == rx + f.size
  <2>3. nx \in Pages \cup {NONE} /\ sq \in Nat
    BY <2>1, <2>2
  <2>4. fi \in BOOLEAN /\ la \in BOOLEAN /\ er \in BOOLEAN
    OBVIOUS
  <2>5. filled = [a EXCEPT !.size = total, !.first = fi, !.last = la, !.next = nx, !.seq = sq,
                           !.err = er, !.upto = up]
    OBVIOUS
  <2>6. total \in Offsets /\ up \in Nat
    BY <1>1, <2>1
  <2> HIDE DEF total, a, nx, sq, fi, la, er, up, filled
  <2> QED
    BY <2>2, <2>3, <2>4, <2>5, <2>6 DEF PageFields
<1>9. over => rest \in PageFields /\ rest.size = total - PageSize
  <2>1. Fresh \in PageFields
    BY Sizes DEF Fresh, PageFields, Offsets, Units
  <2>2. rx + f.size \in Nat
    BY <1>1 DEF Units
  <2> HIDE DEF total
  <2> QED
    BY <1>3, <2>1, <2>2 DEF PageFields
<1> HIDE DEF filled, rest
<1>10. page' \in [Pages -> PageFields]
  <2> HIDE DEF over
  <2>1. \A x \in Pages : x = q => over
    BY <1>7, NoneAssumption
  <2>2. \A x \in Pages : page'[x] \in {filled, page[x]} \/ (x = q /\ page'[x] = rest)
    BY <1>7
  <2>3. \A x \in Pages : page'[x] \in PageFields
    BY <1>8, <1>9, <2>1, <2>2 DEF TypeOK
  <2> QED
    BY <1>7, <2>3
<1>11. dma' \in Pages \cup {NONE} /\ (dma' # NONE => page'[dma'].size < PageSize)
  <2>1. CASE over
    <3>1. dma' = q /\ q \in Pages /\ q # p
      BY <1>7, <2>1 DEF NextDma, TypeOK
    <3>2. page'[q] = rest
      BY <1>7, <3>1
    <3> QED
      BY <1>3, <1>9, <2>1, <3>1, <3>2
  <2>2. CASE ~over /\ forked
    BY <1>7, <2>2 DEF NextDma
  <2>3. CASE ~over /\ ~forked
    <3>1. dma' = p
      BY <1>7, <2>3 DEF NextDma
    <3>2. page'[p] = filled
      <4>1. p # q
        BY <1>7, <2>3, NoneAssumption
      <4> QED
        BY <1>7, <4>1
    <3> QED
      BY <1>3, <1>8, <2>3, <3>1, <3>2
  <2> QED
    BY <2>1, <2>2, <2>3
<1>12. ASSUME NEW i \in DOMAIN work'
       PROVE  work'[i].off + work'[i].size <= PageSize + MaxFrame
  <2>1. job \in Jobs /\ job.off = Active(p).size /\ job.size \in {0, f.size}
    BY <1>1, JobOf
  <2>2. job.off + job.size <= PageSize + MaxFrame
    BY <1>1, <2>1, Sizes DEF Offsets, Total
  <2>3. work' = IF f.copied /\ ~forked THEN work ELSE Append(work, job)
    BY DEF Store, Total, Forked, _retire
  <2> HIDE DEF job
  <2>4. work'[i] = job \/ (i \in DOMAIN work /\ work'[i] = work[i])
    BY <1>12, <2>1, <2>3, ListAppend DEF TypeOK
  <2> QED
    BY <2>2, <2>4 DEF TypeOK, InBuffers
<1>13. ASSUME NEW x \in Pages
       PROVE  Len(page'[x].ovflow) < MaxFrame
  <2>1. Len(<<>>) < MaxFrame
    BY Sizes
  <2>2. Fresh.ovflow = <<>> /\ rest.ovflow = Fresh.ovflow
    BY DEF Fresh, rest
  <2>3. Len(Active(p).ovflow) < MaxFrame
    BY <2>1, <2>2 DEF Active, TypeOK, InBuffers
  <2>4. filled.ovflow = Active(p).ovflow
    <3> HIDE DEF total, over, forked
    <3> QED
      BY <1>1 DEF filled, PageFields
  <2>5. page'[x] \in {filled, rest, page[x]}
    BY <1>7
  <2> QED
    BY <2>1, <2>2, <2>3, <2>4, <2>5 DEF TypeOK, InBuffers
<1>14. InBuffers'
  BY <1>12, <1>13 DEF InBuffers
<1> QED
  BY <1>4, <1>5, <1>6, <1>10, <1>11, <1>14 DEF Queues, Rest, TypeOK

LEMMA EngineTypes ==
  ASSUME PageTakesFrame, TypeOK, Engine
  PROVE  TypeOK'
<1> DEFINE job == Head(work)
           L == Laid(data[job.page], job.off, job.unit, job.size)
<1>1. /\ work # <<>> /\ work' = Tail(work)
      /\ data' = [data EXCEPT ![job.page] = L]
      /\ rundown' = IF job.rundown THEN Append(rundown, job.page) ELSE rundown
      /\ UNCHANGED <<free, devVars, page, stamped, held, rx, tainted, lost>>
  BY DEF Engine
<1>2. job \in Jobs /\ job = work[1] /\ 1 \in DOMAIN work
  BY <1>1, ListTail DEF TypeOK
<1>3. job.unit + job.size <= MaxUnits + 1
  BY <1>2 DEF TypeOK
<1>4. /\ work' \in Seq(Jobs)
      /\ \A i \in DOMAIN work' : work'[i].unit + work'[i].size <= MaxUnits + 1
  <2>1. work \in Seq(Jobs) /\ \A i \in DOMAIN work : work[i].unit + work[i].size <= MaxUnits + 1
    BY DEF TypeOK
  <2>2. /\ Tail(work) \in Seq(Jobs)
        /\ \A i \in DOMAIN Tail(work) : i + 1 \in DOMAIN work /\ Tail(work)[i] = work[i + 1]
    BY <1>1, <2>1, ListTail
  <2> QED
    BY <1>1, <2>1, <2>2
<1>5. job.page \in Pages /\ job.off \in Offsets /\ job.unit \in Units /\ job.size \in Units
  <2> HIDE DEF job
  <2> QED
    BY <1>2 DEF Jobs
<1> HIDE DEF job
<1>6. L \in [Offsets -> Units]
  BY <1>3, <1>5, LaidTypes DEF TypeOK
<1> HIDE DEF L
<1>7. data' \in [Pages -> [Offsets -> Units]]
  BY <1>1, <1>5, <1>6 DEF TypeOK
<1>8. rundown' \in Seq(Pages)
  BY <1>1, <1>5, ListAppend DEF TypeOK
<1>9. /\ UNCHANGED <<free, dma, status, sequence, fails, discard, page, stamped, held, rx,
                     tainted, lost>>
  BY <1>1 DEF devVars
<1>10. InBuffers'
  <2>1. \A i \in DOMAIN Tail(work) : i + 1 \in DOMAIN work /\ Tail(work)[i] = work[i + 1]
    BY <1>1, ListTail DEF TypeOK
  <2> QED
    BY <1>1, <2>1 DEF TypeOK, InBuffers
<1> QED
  BY <1>4, <1>7, <1>8, <1>9, <1>10 DEF TypeOK

LEMMA CompletedTypes ==
  ASSUME PageTakesFrame, TypeOK, NEW p \in Pages
  PROVE  Completed(p) \in [Offsets -> Units]
<1>1. page[p].ovflow \in Seq(Units) /\ data[p] \in [Offsets -> Units]
  BY DEF TypeOK, PageFields
<1>2. \A x \in Offsets : x < Len(page[p].ovflow) => page[p].ovflow[x + 1] \in Units
  <2> DEFINE q == page[p].ovflow
  <2>1. q \in Seq(Units)
    BY <1>1
  <2> HIDE DEF q
  <2>2. Len(q) \in Nat /\ \A i \in 1 .. Len(q) : q[i] \in Units
    BY <2>1
  <2>3. \A x \in Offsets : x < Len(q) => x + 1 \in 1 .. Len(q)
    BY <2>2, Sizes DEF Offsets
  <2> QED
    BY <2>2, <2>3 DEF q
<1> QED
  BY <1>1, <1>2 DEF Completed

LEMMA WaitTypes ==
  ASSUME PageTakesFrame, TypeOK, OnePlace, BDI_Wait
  PROVE  TypeOK'
<1> DEFINE p == Head(rundown)
<1>1. /\ rundown # <<>> /\ rundown' = Tail(rundown) /\ _wait(p)
      /\ held' = held \cup {p}
      /\ UNCHANGED <<free, devVars, stamped, work, rx, tainted, lost>>
  BY DEF BDI_Wait
<1>2. p \in Pages /\ rundown' \in Seq(Pages) /\ p \in Range(rundown)
  BY <1>1, ListTail, TakeHead DEF TypeOK, OnePlace
<1>3. p # dma
  BY <1>2, NoneAssumption DEF OnePlace, Apart
<1> HIDE DEF p
<1> DEFINE n == page[p].next
           over == page[p].size - PageSize
           carried == [i \in 1 .. over |-> Completed(p)[PageSize + i - 1]]
           mine == [page[p] EXCEPT !.ovflow = <<>>, !.size = IF n = NONE THEN @ ELSE PageSize]
           theirs == [page[n] EXCEPT !.ovflow = carried]
<1>4. /\ data' = [data EXCEPT ![p] = Completed(p)]
      /\ page' = [x \in Pages |-> CASE x = p -> mine [] x = n -> theirs [] OTHER -> page[x]]
  BY <1>1 DEF _wait
<1>5. Completed(p) \in [Offsets -> Units]
  BY <1>2, CompletedTypes
<1>6. data' \in [Pages -> [Offsets -> Units]]
  BY <1>2, <1>4, <1>5 DEF TypeOK
<1>7. carried \in Seq(Units) /\ Len(carried) < MaxFrame
  <2>1. page[p].size \in Offsets
    BY <1>2 DEF TypeOK, PageFields
  <2>2. \A i \in 1 .. over : PageSize + i - 1 \in Offsets
    BY <2>1, Sizes DEF Offsets
  <2>3. \A i \in 1 .. over : Completed(p)[PageSize + i - 1] \in Units
    BY <1>5, <2>2
  <2>4. over \in Int
    BY <2>1, Sizes DEF Offsets
  <2>5. PICK m \in Nat : 1 .. over = 1 .. m /\ m < MaxFrame
    <3>1. over \in Nat => 1 .. over = 1 .. over /\ over < MaxFrame
      BY <2>1, Sizes DEF Offsets
    <3>2. over \notin Nat => 1 .. over = 1 .. 0 /\ 0 < MaxFrame
      BY <2>4, Sizes
    <3> QED
      BY <3>1, <3>2
  <2> DEFINE g(i) == Completed(p)[PageSize + i - 1]
  <2>6. \A i \in 1 .. m : g(i) \in Units
    BY <2>3, <2>5
  <2>7. carried = [i \in 1 .. m |-> g(i)]
    BY <2>5
  <2> HIDE DEF carried, g
  <2>8. [i \in 1 .. m |-> g(i)] \in Seq(Units) /\ Len([i \in 1 .. m |-> g(i)]) = m
    BY <2>6
  <2> QED
    BY <2>5, <2>7, <2>8
<1> HIDE DEF carried
<1>8. mine \in PageFields /\ Len(mine.ovflow) = 0
  <2>1. PageSize \in Offsets /\ <<>> \in Seq(Units) /\ page[p] \in PageFields
    BY <1>2, Sizes DEF Offsets, TypeOK
  <2> QED
    BY <2>1 DEF PageFields
<1>9. n \in Pages => theirs \in PageFields /\ theirs.size = page[n].size /\ theirs.ovflow = carried
  <2> SUFFICES ASSUME n \in Pages
               PROVE  theirs \in PageFields /\ theirs.size = page[n].size /\ theirs.ovflow = carried
    OBVIOUS
  <2> DEFINE r == page[n]
  <2>1. r \in PageFields
    BY DEF TypeOK
  <2> HIDE DEF r, n
  <2>2. /\ [r EXCEPT !.ovflow = carried] \in PageFields /\ [r EXCEPT !.ovflow = carried].size = r.size
        /\ [r EXCEPT !.ovflow = carried].ovflow = carried
    BY <1>7, <2>1 DEF PageFields
  <2> QED
    BY <2>2 DEF r
<1> HIDE DEF mine, theirs
<1>10. page' \in [Pages -> PageFields]
  BY <1>4, <1>8, <1>9 DEF TypeOK
<1>11. UNCHANGED <<free, dma, status, sequence, fails, discard, stamped, work, rx, tainted, lost>>
       /\ held' \subseteq Pages
  BY <1>1, <1>2 DEF devVars, TypeOK
<1>12. dma' # NONE => page'[dma'].size < PageSize
  <2> SUFFICES ASSUME dma # NONE
               PROVE  page'[dma].size < PageSize
    BY <1>11
  <2>1. dma \in Pages /\ page[dma].size < PageSize
    BY DEF TypeOK
  <2>2. page'[dma] = IF dma = n THEN theirs ELSE page[dma]
    BY <1>3, <1>4, <2>1
  <2> QED
    BY <1>9, <2>1, <2>2
<1>13. InBuffers'
  <2>1. \A x \in Pages : page'[x] = mine \/ (x = n /\ page'[x] = theirs) \/ page'[x] = page[x]
    BY <1>4
  <2>2. ASSUME NEW x \in Pages
        PROVE  Len(page'[x].ovflow) < MaxFrame
    <3>1. CASE page'[x] = mine
      BY <1>8, <3>1, Sizes
    <3>2. CASE x = n /\ page'[x] = theirs
      BY <1>7, <1>9, <3>2
    <3>3. CASE page'[x] = page[x]
      BY <3>3 DEF TypeOK, InBuffers
    <3> QED
      BY <2>1, <3>1, <3>2, <3>3
  <2> QED
    BY <1>11, <2>2 DEF TypeOK, InBuffers
<1> QED
  BY <1>2, <1>6, <1>10, <1>11, <1>12, <1>13 DEF TypeOK

LEMMA TypeStep ==
  ASSUME PageTakesFrame, TypeOK, OnePlace, [Next]_vars
  PROVE  TypeOK'
<1>1. ASSUME NEW f \in Frames, _fork(f)
      PROVE  TypeOK'
  <2>2. CASE _discard(f)
    <3>1. dma' = NONE /\ dma \in Pages \cup {NONE}
      BY <2>2 DEF _discard, TypeOK
    <3>2. tainted' \subseteq Pages
      <4>1. ASSUME dma \in Range([i \in DOMAIN work |-> work[i].page])
            PROVE  dma \in Pages
        <5>1. PICK i \in DOMAIN work : dma = work[i].page
          BY <4>1 DEF Range
        <5>2. work[i] \in Jobs
          BY DEF TypeOK
        <5> QED
          BY <5>1, <5>2 DEF Jobs
      <4> QED
        BY <2>2, <4>1 DEF _discard, TypeOK
    <3>3. free' \subseteq Pages /\ lost' \subseteq Pages
      <4>1. dma # NONE => dma \in Pages
        BY <3>1
      <4> QED
        BY <2>2, <4>1 DEF _discard, Freed, TypeOK
    <3>4. discard' \in Nat /\ rx' \in Units
      BY <2>2, ReceiveTypes DEF _discard, TypeOK
    <3>5. UNCHANGED <<status, sequence, fails, page, data, stamped, work, rundown, held>>
      BY <2>2 DEF _discard
    <3>6. Buffers' /\ Queues' /\ InBuffers'
      BY <3>1, <3>5, SameInBuffers DEF Buffers, Queues, TypeOK
    <3>7. Rest'
      BY <3>2, <3>3, <3>4, <3>5 DEF Rest, TypeOK
    <3> QED
      BY <3>6, <3>7 DEF Buffers, Queues, Rest, TypeOK
  <2>3. CASE NoPage(f)
    <3>1. rx' \in Units
      BY <2>3, ReceiveTypes DEF NoPage, TypeOK
    <3>2. /\ UNCHANGED <<free, dma, page, data, stamped, work, rundown, held, tainted, lost>>
          /\ status' = TRUE /\ sequence' = 0 /\ fails' = fails + 1 /\ discard' = discard + 1
      BY <2>3 DEF NoPage, Fail
    <3>3. Buffers' /\ Queues' /\ InBuffers'
      BY <3>2, SameInBuffers DEF Buffers, Queues, TypeOK
    <3>4. Rest'
      BY <3>1, <3>2 DEF Rest, TypeOK
    <3> QED
      BY <3>3, <3>4 DEF Buffers, Queues, Rest, TypeOK
  <2>4. ASSUME NEW p \in Pages, NoNextPage(f, p)
        PROVE  TypeOK'
    <3>1. rx' \in Units
      BY <2>4, ReceiveTypes DEF NoNextPage, TypeOK
    <3>2. /\ UNCHANGED <<page, data, stamped, work, rundown, held, tainted>>
          /\ dma' = NONE /\ free' = free \ {p} /\ lost' = lost \cup {p}
          /\ status' = TRUE /\ sequence' = 0 /\ fails' = fails + 1 /\ discard' = discard + 1
      BY <2>4 DEF NoNextPage, Fail
    <3>3. Buffers' /\ Queues' /\ InBuffers'
      BY <3>2, SameInBuffers DEF Buffers, Queues, TypeOK
    <3>4. Rest'
      BY <3>1, <3>2 DEF Rest, TypeOK
    <3> QED
      BY <3>3, <3>4 DEF Buffers, Queues, Rest, TypeOK
  <2>5. ASSUME NEW p \in Pages, NEW q \in Pages \cup {NONE}, Store(f, p, q)
        PROVE  TypeOK'
    BY <2>5, StoreTypes
  <2> QED
    BY <1>1, <2>2, <2>3, <2>4, <2>5 DEF _fork
<1>2. ASSUME NEW p \in Pages, BDI_Free(p)
      PROVE  TypeOK'
  <2>1. /\ held' = held \ {p} /\ free' = free \cup {p}
        /\ UNCHANGED <<dma, status, sequence, fails, discard, page, data, stamped, work,
                       rundown, rx, tainted, lost>>
    BY <1>2 DEF BDI_Free, devVars
  <2> QED
    BY <2>1, SameInBuffers DEF TypeOK
<1>3. CASE UNCHANGED vars
  BY <1>3, SameInBuffers DEF vars, devVars, TypeOK
<1> QED
  BY <1>1, <1>2, <1>3, EngineTypes, WaitTypes DEF Next

-----------------------------------------------------------------------------
(***************************************************************************)
(* Pages reach the user in the order in which they follow each other.      *)
(***************************************************************************)
LEMMA DiscardBehind ==
  ASSUME PageTakesFrame, TypeOK, OnePlace, NextBehind, JobsBefore, NEW f \in Frames, _discard(f)
  PROVE  NextBehind' /\ JobsBefore'
<1>1. /\ status /\ dma' = NONE /\ UNCHANGED <<page, work, rundown, held, status>>
      /\ lost \subseteq lost'
  BY DEF _discard, Freed
<1>2. JobsBefore'
  BY <1>1 DEF JobsBefore, Announcing
<1>3. \A r \in Flying : page[r].next \in {NONE} \cup Flying \cup lost
  BY <1>1 DEF NextBehind, Flying
<1>4. \A r \in Flying' : /\ page'[r].next \in {NONE, dma'} \cup Flying' \cup lost'
                         /\ page'[r].next = NONE \/ page'[r].next # dma'
  BY <1>1, <1>3 DEF Flying
<1>5. NextBehind'
  BY <1>1, <1>4 DEF NextBehind, Announcing, Flying
<1> QED
  BY <1>2, <1>5

LEMMA NoNextPageBehind ==
  ASSUME PageTakesFrame, TypeOK, OnePlace, NextBehind, JobsBefore, NEW f \in Frames, NEW p \in Pages, NoNextPage(f, p)
  PROVE  NextBehind' /\ JobsBefore'
<1>1. /\ dma' = NONE /\ UNCHANGED <<page, work, rundown, held>>
      /\ lost' = lost \cup {p} /\ dma \in {p, NONE}
  BY DEF NoNextPage, Target
<1>2. JobsBefore'
  BY <1>1 DEF JobsBefore, Announcing
<1>3. \A r \in Flying' : /\ page'[r].next \in {NONE, dma'} \cup Flying' \cup lost'
                         /\ page'[r].next = NONE \/ page'[r].next # dma'
  BY <1>1 DEF NextBehind, Flying
<1>4. NextBehind'
  BY <1>1, <1>3 DEF NextBehind, Announcing, Flying
<1> QED
  BY <1>2, <1>4

LEMMA StoreBehind ==
  ASSUME PageTakesFrame, TypeOK, OnePlace, NextBehind, JobsBefore, NEW f \in Frames, NEW p \in Pages,
         NEW q \in Pages \cup {NONE}, Store(f, p, q)
  PROVE  NextBehind' /\ JobsBefore'
<1> DEFINE forked == Forked(f, p)
           over == Total(f, p) > PageSize
           job == Job(f, p, Active(p).size, forked)
           k == Len(work) + 1
<1>1. /\ dma = p \/ (dma = NONE /\ p \in free)
      /\ IF over THEN q \in free \ {p} ELSE q = NONE
      /\ dma' = NextDma(p, q, Total(f, p), forked)
      /\ work' = IF f.copied /\ ~forked THEN work ELSE Append(work, job)
      /\ status' = (status /\ ~forked)
      /\ UNCHANGED <<rundown, held, lost>>
  BY DEF Store, Target, Total, Forked, _retire, Stamp
<1>2. over => forked
  BY StoreDoes
<1>3. job \in Jobs /\ job.page = p /\ job.rundown = forked
  <2>1. forked \in BOOLEAN
    BY DEF Forked
  <2> QED
    BY <2>1, JobOf
<1>4. /\ \A x \in Pages \ {p, q} : page'[x] = page[x]
      /\ page'[p].next = IF over THEN q ELSE NONE
  <2>1. p # q
    BY <1>1, NoneAssumption
  <2>2. page'[p] = [Active(p) EXCEPT !.size = Total(f, p),
                        !.first = @ \/ f.sof,
                        !.last = @ \/ f.eof,
                        !.next = IF over THEN q ELSE NONE,
                        !.seq = IF ~forked THEN @ ELSE IF f.sof THEN 0 ELSE sequence,
                        !.err = @ \/ (forked /\ status),
                        !.upto = rx + f.size]
    BY <2>1 DEF Store, Total, Forked
  <2>3. Active(p) \in PageFields
    BY StoreDoes
  <2>4. page'[p].next = IF over THEN q ELSE NONE
    <3> HIDE DEF over, forked
    <3> QED
      BY <2>2, <2>3 DEF PageFields
  <2>5. \A x \in Pages \ {p, q} : page'[x] = page[x]
    BY DEF Store
  <2> QED
    BY <2>4, <2>5
<1>5. /\ \A r \in Flying : r \in Pages /\ r # p /\ r # q
      /\ p \notin held \cup Range(rundown) \cup lost
      /\ over => q \notin Flying \cup held \cup lost
  <2>1. \A r \in Flying : r \in Pages
    <3>1. \A i \in DOMAIN work : work[i].page \in Pages
      <4>1. \A i \in DOMAIN work : work[i] \in Jobs
        BY DEF TypeOK
      <4> QED
        BY <4>1 DEF Jobs
    <3>2. Range(rundown) \subseteq Pages
      BY DEF TypeOK, Range
    <3> QED
      BY <3>1, <3>2 DEF Flying, Announced
  <2>2. p \notin Flying \cup held \cup lost
    BY <1>1, NoneAssumption DEF OnePlace, Apart, Flying
  <2>3. over => q \notin Flying \cup held \cup lost
    BY <1>1 DEF OnePlace, Apart, Flying
  <2>4. ~over => q = NONE
    BY <1>1
  <2> QED
    BY <2>1, <2>2, <2>3, <2>4, NoneAssumption DEF Flying
<1>6. /\ work \in Seq(Jobs) /\ DOMAIN work = 1 .. Len(work) /\ Len(work) \in Nat
      /\ work' # work => /\ DOMAIN work' = DOMAIN work \cup {k} /\ work'[k] = job
                         /\ \A i \in DOMAIN work : work'[i] = work[i] /\ i # k /\ i < k
                         /\ ~(k < k)
      /\ forked => work' # work
      /\ work' = work \/ work' = Append(work, job)
  <2>1. work \in Seq(Jobs)
    BY DEF TypeOK
  <2> HIDE DEF job
  <2>2. /\ DOMAIN work = 1 .. Len(work) /\ Len(work) \in Nat
        /\ DOMAIN Append(work, job) = DOMAIN work \cup {k} /\ Append(work, job)[k] = job
        /\ \A i \in DOMAIN work : Append(work, job)[i] = work[i] /\ i # k
    BY <1>3, <2>1, ListAppend
  <2>3. \A i \in DOMAIN work : i < k
    BY <2>2
  <2>4. Append(work, job) # work /\ ~(k < k)
    <3>1. k \notin DOMAIN work /\ ~(k < k)
      BY <2>2
    <3> HIDE DEF k
    <3>2. k \in DOMAIN Append(work, job)
      BY <2>2
    <3> QED
      BY <3>1, <3>2
  <2>5. work' = work \/ work' = Append(work, job)
    BY <1>1
  <2>6. forked => work' = Append(work, job)
    BY <1>1
  <2> HIDE DEF k, forked
  <2> QED
    BY <2>1, <2>2, <2>3, <2>4, <2>5, <2>6
<1>7. Flying' = Flying \cup (IF forked THEN {p} ELSE {})
  <2>1. p \notin Announced(work) /\ AnnouncedOnce(work)
    BY <1>5 DEF Flying, OnePlace
  <2> HIDE DEF job
  <2>2. Announced(work') = Announced(work) \cup (IF forked THEN {p} ELSE {})
    BY <1>1, <1>3, <1>6, <2>1, AnnounceAppend
  <2> QED
    BY <1>1, <2>2 DEF Flying
<1>8. \A r \in Flying : page'[r].next = page[r].next
  BY <1>4, <1>5
<1>9. \A r \in Flying : /\ page[r].next \in {NONE, dma} \cup Flying \cup lost
                        /\ status => page[r].next = NONE \/ page[r].next # dma
  BY DEF NextBehind, Flying
<1>10. p \notin Flying
  BY <1>5
<1> HIDE DEF job, k
<1>11. \A r \in Flying : page[r].next = p => dma = p
  BY <1>5, <1>9, <1>10, NoneAssumption
<1>12. \A r \in Flying' : /\ page'[r].next \in {NONE, dma'} \cup Flying' \cup lost'
                          /\ status' => page'[r].next = NONE \/ page'[r].next # dma'
  <2> SUFFICES ASSUME NEW r \in Flying'
               PROVE  /\ page'[r].next \in {NONE, dma'} \cup Flying' \cup lost'
                      /\ status' => page'[r].next = NONE \/ page'[r].next # dma'
    OBVIOUS
  <2>1. dma' = IF over THEN q ELSE IF forked THEN NONE ELSE p
    BY <1>1 DEF NextDma
  <2> HIDE DEF over, forked
  <2>2. CASE r \in Flying
    <3>1. page'[r].next = page[r].next
      BY <1>8, <2>2
    <3>2. page[r].next = dma => page[r].next \in {NONE, p}
      BY <1>1
    <3>3. page'[r].next \in {NONE, dma'} \cup Flying' \cup lost'
      BY <1>1, <1>2, <1>7, <1>9, <2>1, <2>2, <3>1, <3>2
    <3>4. ASSUME status'
          PROVE  page'[r].next = NONE \/ page'[r].next # dma'
      <4>1. status /\ ~forked /\ dma' = p
        BY <1>1, <1>2, <2>1, <3>4
      <4> QED
        BY <1>9, <1>11, <2>2, <3>1, <4>1
    <3> QED
      BY <3>3, <3>4
  <2>3. CASE r \notin Flying
    <3>1. r = p /\ forked
      BY <1>7, <2>3
    <3> QED
      BY <1>1, <1>2, <1>4, <2>1, <3>1
  <2> QED
    BY <2>2, <2>3
<1>13. \A i, j \in DOMAIN rundown' : page'[rundown'[i]].next = rundown'[j] => i < j
  <2>1. \A i \in DOMAIN rundown : rundown[i] \in Flying
    BY DEF Flying, Range
  <2> QED
    BY <1>1, <1>8, <2>1 DEF NextBehind
<1>14. \A i \in Announcing' :
         \/ i \in Announcing /\ work'[i] = work[i] /\ work[i].page \in Flying
         \/ i = k /\ work'[i] = job /\ forked
  BY <1>3, <1>6 DEF Announcing, Announced, Flying
<1>15. ASSUME NEW i \in Announcing'
       PROVE  /\ \A j \in Announcing' : page'[work'[i].page].next = work'[j].page => i < j
              /\ page'[work'[i].page].next \notin Range(rundown')
  <2>1. CASE i \in Announcing /\ work'[i] = work[i] /\ work[i].page \in Flying
    <3>1. page'[work'[i].page].next = page[work[i].page].next
      BY <1>8, <2>1
    <3>2. page'[work'[i].page].next \notin Range(rundown')
      BY <1>1, <2>1, <3>1 DEF NextBehind
    <3>3. ASSUME NEW j \in Announcing', page'[work'[i].page].next = work'[j].page
          PROVE  i < j
      <4>1. CASE j \in Announcing /\ work'[j] = work[j]
        BY <2>1, <3>1, <3>3, <4>1 DEF NextBehind
      <4>2. CASE j = k /\ work'[j] = job /\ forked
        BY <1>6, <2>1, <4>2 DEF Announcing
      <4> QED
        BY <1>14, <4>1, <4>2
    <3> QED
      BY <3>2, <3>3
  <2>2. CASE i = k /\ work'[i] = job /\ forked
    <3>1. page'[work'[i].page].next = IF over THEN q ELSE NONE
      BY <1>3, <1>4, <2>2
    <3>2. page'[work'[i].page].next \notin Flying' /\ Range(rundown') \subseteq Flying'
      <4>1. Range(rundown') \subseteq Flying'
        BY DEF Flying
      <4>2. over => q \notin Flying'
        BY <1>1, <1>5, <1>7
      <4>3. NONE \notin Flying'
        BY <1>5, <1>7, NoneAssumption
      <4> QED
        BY <3>1, <4>1, <4>2, <4>3
    <3>3. \A j \in Announcing' : work'[j].page \in Flying'
      BY DEF Announcing, Announced, Flying
    <3> QED
      BY <3>2, <3>3
  <2> QED
    BY <1>14, <2>1, <2>2
<1>16. NextBehind'
  BY <1>12, <1>13, <1>15 DEF NextBehind, Flying
<1>17. ASSUME NEW i \in DOMAIN work'
       PROVE  work'[i].page \notin held' \cup Range(rundown')
  <2>1. CASE i \in DOMAIN work /\ work'[i] = work[i]
    BY <1>1, <2>1 DEF JobsBefore
  <2>2. CASE work'[i] = job
    BY <1>1, <1>3, <1>5, <2>2
  <2> QED
    BY <1>6, <2>1, <2>2
<1>18. ASSUME NEW i \in Announcing', NEW j \in DOMAIN work', work'[j].page = work'[i].page
       PROVE  j <= i
  <2>1. CASE i = k
    <3>1. work' # work \/ i \in DOMAIN work
      BY DEF Announcing
    <3> QED
      BY <1>6, <1>14, <2>1, <3>1 DEF k, Announcing
  <2>2. CASE i # k /\ j = k /\ j \notin DOMAIN work
    <3>1. i \in Announcing /\ work'[i] = work[i] /\ work[i].page \in Flying
      BY <1>14, <2>2
    <3>2. work'[j].page = p
      BY <1>3, <1>6, <2>2
    <3> QED
      BY <1>10, <1>18, <3>1, <3>2
  <2>3. CASE i # k /\ j \in DOMAIN work
    BY <1>6, <1>14, <1>18, <2>3 DEF JobsBefore
  <2> QED
    BY <1>6, <2>1, <2>2, <2>3
<1>19. JobsBefore'
  BY <1>17, <1>18 DEF JobsBefore
<1> QED
  BY <1>16, <1>19

LEMMA EngineBehind ==
  ASSUME PageTakesFrame, TypeOK, OnePlace, NextBehind, JobsBefore, Engine
  PROVE  NextBehind' /\ JobsBefore'
<1> DEFINE job == Head(work)
           p == job.page
<1>1. /\ work # <<>> /\ work' = Tail(work) /\ work \in Seq(Jobs)
      /\ rundown' = IF job.rundown THEN Append(rundown, p) ELSE rundown
      /\ UNCHANGED <<dma, status, page, held, lost>>
  BY DEF Engine, devVars, TypeOK
<1>2. /\ job = work[1] /\ 1 \in DOMAIN work /\ DOMAIN work \subseteq Nat
      /\ \A i \in DOMAIN work' : /\ i + 1 \in DOMAIN work /\ work'[i] = work[i + 1]
                                 /\ i \in Nat \ {0} /\ ~(i + 1 <= 1)
  BY <1>1, ListTail
<1>3. job \in Jobs
  BY <1>1, ListTail
<1> HIDE DEF job
<1>4. p \in Pages /\ rundown \in Seq(Pages)
  BY <1>3 DEF Jobs, TypeOK
<1>5. /\ Announced(work') = Announced(work) \ (IF job.rundown THEN {p} ELSE {})
      /\ job.rundown => p \in Announced(work)
  BY <1>1, AnnounceTail DEF OnePlace, job
<1>6. job.rundown => p \notin Range(rundown) /\ 1 \in Announcing
  BY <1>2, <1>5 DEF OnePlace, Apart, Announcing
<1> HIDE DEF p
<1>7. /\ Range(rundown') = Range(rundown) \cup (IF job.rundown THEN {p} ELSE {})
      /\ DOMAIN rundown = 1 .. Len(rundown) /\ Len(rundown) \in Nat
      /\ \A i \in DOMAIN rundown' :
           \/ i \in DOMAIN rundown /\ rundown'[i] = rundown[i]
           \/ job.rundown /\ i = Len(rundown) + 1 /\ rundown'[i] = p
  <2>1. CASE job.rundown
    <3>1. rundown' = Append(rundown, p) /\ IsInjective(rundown) /\ p \notin Range(rundown)
      BY <1>1, <1>6, <2>1 DEF OnePlace
    <3>2. Range(rundown') = Range(rundown) \cup {p}
      BY <1>4, <3>1, GiveBack
    <3> QED
      BY <1>4, <2>1, <3>1, <3>2, ListAppend
  <2>2. CASE ~job.rundown
    BY <1>1, <1>4, <2>2
  <2> QED
    BY <2>1, <2>2
<1>8. Flying' = Flying
  BY <1>5, <1>7 DEF Flying
<1>9. \A i \in Announcing' : i + 1 \in Announcing /\ work'[i] = work[i + 1] /\ i \in Nat \ {0}
  BY <1>2 DEF Announcing
<1>10. \A r \in Flying' : /\ page'[r].next \in {NONE, dma'} \cup Flying' \cup lost'
                          /\ status' => page'[r].next = NONE \/ page'[r].next # dma'
  BY <1>1, <1>8 DEF NextBehind, Flying
<1>11. ASSUME job.rundown
       PROVE  /\ page[p].next # p /\ page[p].next \notin Range(rundown)
              /\ \A i \in Announcing : i # 1 => page[work[i].page].next # p
  <2>1. 1 \in Announcing /\ work[1].page = p
    BY <1>2, <1>6, <1>11 DEF p
  <2>2. \A i \in Announcing : page[work[i].page].next = p => i < 1
    BY <2>1 DEF NextBehind
  <2>3. \A i \in Announcing : i \in Nat \ {0}
    BY <1>1 DEF Announcing
  <2>4. \A i \in Announcing : page[work[i].page].next # p
    BY <2>2, <2>3
  <2> QED
    BY <2>1, <2>4 DEF NextBehind
<1>12. ASSUME NEW i \in DOMAIN rundown', NEW j \in DOMAIN rundown',
              page[rundown'[i]].next = rundown'[j]
       PROVE  i < j
  <2>1. CASE i \in DOMAIN rundown /\ rundown'[i] = rundown[i]
    <3>1. CASE j \in DOMAIN rundown /\ rundown'[j] = rundown[j]
      BY <1>12, <2>1, <3>1 DEF NextBehind
    <3>2. CASE j = Len(rundown) + 1
      BY <1>7, <2>1, <3>2
    <3> QED
      BY <1>7, <3>1, <3>2
  <2>2. CASE job.rundown /\ rundown'[i] = p
    <3>1. rundown'[j] \in Range(rundown) \cup {p}
      BY <1>7, <1>12, <2>2 DEF Range
    <3> QED
      BY <1>11, <1>12, <2>2, <3>1
  <2> QED
    BY <1>7, <2>1, <2>2
<1>13. ASSUME NEW i \in Announcing'
       PROVE  /\ \A j \in Announcing' : page[work'[i].page].next = work'[j].page => i < j
              /\ page[work'[i].page].next \notin Range(rundown')
  <2>1. /\ \A j \in Announcing : page[work[i + 1].page].next = work[j].page => i + 1 < j
        /\ page[work[i + 1].page].next \notin Range(rundown)
        /\ i + 1 # 1
    BY <1>9 DEF NextBehind
  <2>2. page[work'[i].page].next \notin Range(rundown')
    BY <1>7, <1>9, <1>11, <2>1
  <2>3. ASSUME NEW j \in Announcing', page[work'[i].page].next = work'[j].page
        PROVE  i < j
    <3>1. i + 1 < j + 1
      BY <1>9, <2>1, <2>3
    <3> QED
      BY <1>9, <3>1
  <2> QED
    BY <2>2, <2>3
<1>14. NextBehind'
  BY <1>1, <1>10, <1>12, <1>13 DEF NextBehind, Flying
<1>15. ASSUME NEW i \in DOMAIN work'
       PROVE  work'[i].page \notin held' \cup Range(rundown')
  <2>1. work[i + 1].page \notin held \cup Range(rundown) /\ work'[i] = work[i + 1]
    BY <1>2 DEF JobsBefore
  <2>2. job.rundown => work[i + 1].page # p
    <3> SUFFICES ASSUME job.rundown
                 PROVE  work[i + 1].page # p
      OBVIOUS
    <3>1. 1 \in Announcing /\ work[1].page = p
      BY <1>2, <1>6 DEF p
    <3>2. work[i + 1].page = work[1].page => i + 1 <= 1
      BY <1>2, <3>1 DEF JobsBefore
    <3> QED
      BY <1>2, <3>1, <3>2
  <2> QED
    BY <1>1, <1>7, <2>1, <2>2
<1>16. ASSUME NEW i \in Announcing', NEW j \in DOMAIN work', work'[j].page = work'[i].page
       PROVE  j <= i
  <2>1. j + 1 <= i + 1
    BY <1>2, <1>9, <1>16 DEF JobsBefore
  <2> QED
    BY <1>2, <1>9, <2>1
<1>17. JobsBefore'
  BY <1>15, <1>16 DEF JobsBefore
<1> QED
  BY <1>14, <1>17

LEMMA WaitBehind ==
  ASSUME PageTakesFrame, TypeOK, OnePlace, NextBehind, JobsBefore, BDI_Wait
  PROVE  NextBehind' /\ JobsBefore'
<1> DEFINE p == Head(rundown)
           n == page[p].next
<1>1. /\ rundown # <<>> /\ rundown' = Tail(rundown) /\ rundown \in Seq(Pages)
      /\ held' = held \cup {p} /\ _wait(p)
      /\ UNCHANGED <<dma, status, work, lost>>
  BY DEF BDI_Wait, devVars, TypeOK
<1>2. /\ p = rundown[1] /\ 1 \in DOMAIN rundown /\ p \in Pages
      /\ \A i \in DOMAIN rundown : i \in Nat \ {0}
      /\ \A i \in DOMAIN rundown' : /\ i + 1 \in DOMAIN rundown /\ rundown'[i] = rundown[i + 1]
                                    /\ i \in Nat \ {0}
  BY <1>1, ListTail
<1>3. Range(rundown') = Range(rundown) \ {p} /\ p \in Range(rundown)
  BY <1>1, TakeHead DEF OnePlace
<1> HIDE DEF p
<1>4. \A x \in Pages : page'[x].next = page[x].next
  <2>1. \A x \in Pages : page[x] \in PageFields
    BY DEF TypeOK
  <2>2. page' = [x \in Pages |->
           CASE x = p -> [page[p] EXCEPT !.ovflow = <<>>,
                                         !.size = IF n = NONE THEN @ ELSE PageSize]
             [] x = n -> [page[n] EXCEPT !.ovflow =
                            [i \in 1 .. page[p].size - PageSize |-> Completed(p)[PageSize + i - 1]]]
             [] OTHER -> page[x]]
    BY <1>1 DEF _wait
  <2> DEFINE mine == [page[p] EXCEPT !.ovflow = <<>>, !.size = IF n = NONE THEN @ ELSE PageSize]
             carried == [i \in 1 .. page[p].size - PageSize |-> Completed(p)[PageSize + i - 1]]
             theirs == [page[n] EXCEPT !.ovflow = carried]
  <2>3. \A x \in Pages :
          \/ x = p /\ page'[x] = mine
          \/ x = n /\ page'[x] = theirs
          \/ page'[x] = page[x]
    <3> HIDE DEF mine, carried, theirs
    <3>1. page' = [x \in Pages |-> CASE x = p -> mine [] x = n -> theirs [] OTHER -> page[x]]
      BY <2>2 DEF mine, carried, theirs
    <3> HIDE DEF n
    <3> QED
      BY <3>1
  <2>4. mine.next = page[p].next
    BY <1>2, <2>1 DEF PageFields
  <2> HIDE DEF carried, n
  <2>5. n \in Pages => theirs.next = page[n].next
    BY <2>1 DEF PageFields
  <2> HIDE DEF mine, theirs
  <2> QED
    BY <2>3, <2>4, <2>5
<1>5. \A r \in Flying : r \in Pages
  <2>1. \A i \in DOMAIN work : work[i] \in Jobs
    BY DEF TypeOK
  <2>2. Range(rundown) \subseteq Pages
    BY DEF TypeOK, Range
  <2> QED
    BY <2>1, <2>2 DEF Flying, Announced, Jobs
<1>6. Flying' = Flying \ {p}
  BY <1>1, <1>3 DEF Flying, OnePlace, Apart
<1>7. \A r \in Flying : page[r].next # p
  <2>1. ASSUME NEW i \in DOMAIN rundown
        PROVE  page[rundown[i]].next # p
    <3>1. page[rundown[i]].next = rundown[1] => i < 1
      BY <1>2 DEF NextBehind
    <3> QED
      BY <1>2, <3>1
  <2>2. ASSUME NEW i \in Announcing
        PROVE  page[work[i].page].next # p
    BY <1>3 DEF NextBehind
  <2> QED
    BY <2>1, <2>2 DEF Flying, Range, Announced, Announcing
<1>8. \A r \in Flying' : /\ page'[r].next \in {NONE, dma'} \cup Flying' \cup lost'
                         /\ status' => page'[r].next = NONE \/ page'[r].next # dma'
  BY <1>1, <1>4, <1>5, <1>6, <1>7 DEF NextBehind, Flying
<1>9. \A i \in DOMAIN rundown : rundown[i] \in Pages
  BY <1>1
<1>10. \A i \in DOMAIN work : work[i].page \in Pages
  <2>1. \A i \in DOMAIN work : work[i] \in Jobs
    BY DEF TypeOK
  <2> QED
    BY <2>1 DEF Jobs
<1>11. ASSUME NEW i \in DOMAIN rundown', NEW j \in DOMAIN rundown',
              page'[rundown'[i]].next = rundown'[j]
       PROVE  i < j
  <2>1. page[rundown[i + 1]].next = rundown[j + 1]
    BY <1>2, <1>4, <1>9, <1>11
  <2>2. i + 1 < j + 1
    BY <1>2, <2>1 DEF NextBehind
  <2> QED
    BY <1>2, <2>2
<1>12. ASSUME NEW i \in Announcing'
       PROVE  /\ \A j \in Announcing' : page'[work'[i].page].next = work'[j].page => i < j
              /\ page'[work'[i].page].next \notin Range(rundown')
  <2>1. i \in Announcing /\ Announcing' = Announcing /\ work' = work
    BY <1>1 DEF Announcing
  <2>2. page'[work[i].page].next = page[work[i].page].next
    BY <1>4, <1>10, <2>1 DEF Announcing
  <2> QED
    BY <1>3, <2>1, <2>2 DEF NextBehind
<1>13. NextBehind'
  BY <1>8, <1>11, <1>12 DEF NextBehind, Flying
<1>14. JobsBefore'
  BY <1>1, <1>3 DEF JobsBefore, Announcing
<1> QED
  BY <1>13, <1>14

LEMMA BehindStep ==
  ASSUME PageTakesFrame, TypeOK, OnePlace, NextBehind, JobsBefore, [Next]_vars
  PROVE  NextBehind' /\ JobsBefore'
<1>1. ASSUME NEW f \in Frames, NoPage(f)
      PROVE  NextBehind' /\ JobsBefore'
  <2>1. dma = NONE /\ UNCHANGED <<dma, page, work, rundown, held, lost>>
    BY <1>1 DEF NoPage
  <2>2. JobsBefore'
    BY <2>1 DEF JobsBefore, Announcing
  <2>3. \A r \in Flying' : /\ page'[r].next \in {NONE, dma'} \cup Flying' \cup lost'
                           /\ status' => page'[r].next = NONE \/ page'[r].next # dma'
    BY <2>1 DEF NextBehind, Flying
  <2>4. NextBehind'
    BY <2>1, <2>3 DEF NextBehind, Announcing, Flying
  <2> QED
    BY <2>2, <2>4
<1>2. ASSUME NEW p \in Pages, BDI_Free(p)
      PROVE  NextBehind' /\ JobsBefore'
  <2>1. held' \subseteq held /\ UNCHANGED <<dma, status, page, work, rundown, lost>>
    BY <1>2 DEF BDI_Free, devVars
  <2> QED
    BY <2>1 DEF NextBehind, JobsBefore, Announcing
<1>3. CASE UNCHANGED vars
  BY <1>3 DEF vars, devVars, NextBehind, JobsBefore, Announcing
<1>4. ASSUME NEW f \in Frames, _fork(f)
      PROVE  NextBehind' /\ JobsBefore'
  BY <1>1, <1>4, DiscardBehind, NoNextPageBehind, StoreBehind DEF _fork
<1> QED
  BY <1>2, <1>3, <1>4, EngineBehind, WaitBehind DEF Next

-----------------------------------------------------------------------------
(***************************************************************************)
(* The numbers of the pages, and where the data of each begins.            *)
(***************************************************************************)
LEMMA FlyingPages ==
  ASSUME PageTakesFrame, TypeOK
  PROVE  /\ Flying \subseteq Pages /\ NONE \notin Flying
         /\ \A p \in Pages : page[p] \in PageFields /\ page[p].size \in Nat /\ page[p].upto \in Nat
<1>1. \A i \in DOMAIN work : work[i] \in Jobs
  BY DEF TypeOK
<1>2. \A i \in DOMAIN work : work[i].page \in Pages
  BY <1>1 DEF Jobs
<1>3. Range(rundown) \subseteq Pages
  BY DEF TypeOK, Range
<1>4. Flying \subseteq Pages
  BY <1>2, <1>3 DEF Flying, Announced
<1>5. \A p \in Pages : page[p] \in PageFields
  BY DEF TypeOK
<1>6. \A p \in Pages : page[p].size \in Nat /\ page[p].upto \in Nat
  BY <1>5, Sizes DEF PageFields, Offsets
<1> QED
  BY <1>4, <1>5, <1>6, NoneAssumption

\* What _fork makes of the pages it takes.
LEMMA StoreFills ==
  ASSUME PageTakesFrame, TypeOK, OnePlace, NEW f \in Frames, NEW p \in Pages, NEW q \in Pages \cup {NONE},
         Store(f, p, q)
  PROVE  /\ \A x \in Pages : x # p /\ x # q => page'[x] = page[x]
         /\ page'[p].size = Total(f, p)
         /\ page'[p].first = (Active(p).first \/ f.sof)
         /\ page'[p].last = (Active(p).last \/ f.eof)
         /\ page'[p].next = (IF Total(f, p) > PageSize THEN q ELSE NONE)
         /\ Forked(f, p) => page'[p].seq = (IF f.sof THEN 0 ELSE sequence)
         /\ page'[p].err = (Active(p).err \/ (Forked(f, p) /\ status))
         /\ page'[p].upto = rx + f.size
         /\ page'[p].ovflow = Active(p).ovflow
         /\ Total(f, p) > PageSize =>
              /\ page'[q].size = Total(f, p) - PageSize /\ page'[q].upto = rx + f.size
              /\ ~page'[q].last /\ page'[q].next = NONE /\ page'[q].ovflow = <<>>
<1> DEFINE a == Active(p)
           nx == IF Total(f, p) > PageSize THEN q ELSE NONE
           sq == IF ~Forked(f, p) THEN a.seq ELSE IF f.sof THEN 0 ELSE sequence
           fi == a.first \/ f.sof
           la == a.last \/ f.eof
           er == a.err \/ (Forked(f, p) /\ status)
           up == rx + f.size
           filled == [a EXCEPT !.size = Total(f, p), !.first = fi, !.last = la, !.next = nx,
                               !.seq = sq, !.err = er, !.upto = up]
           rest == [Fresh EXCEPT !.size = Total(f, p) - PageSize, !.upto = up]
<1>1. p # q /\ (Total(f, p) > PageSize => q \in Pages)
  BY NoneAssumption DEF Store, Total, TypeOK
<1>2. page' = [x \in Pages |-> CASE x = p -> filled [] x = q -> rest [] OTHER -> page[x]]
  BY DEF Store, Total, Forked
<1>3. a \in PageFields
  BY StoreDoes
<1>4. /\ rest.size = Total(f, p) - PageSize /\ rest.upto = up
      /\ ~rest.last /\ rest.next = NONE /\ rest.ovflow = <<>>
  BY DEF Fresh
<1> HIDE DEF a, nx, sq, fi, la, er, up
<1>5. /\ filled.size = Total(f, p) /\ filled.first = fi /\ filled.last = la /\ filled.next = nx
      /\ filled.seq = sq /\ filled.err = er /\ filled.upto = up /\ filled.ovflow = a.ovflow
  BY <1>3 DEF PageFields
<1> HIDE DEF filled, rest
<1>6. /\ page'[p] = filled
      /\ Total(f, p) > PageSize => page'[q] = rest
      /\ \A x \in Pages : x # p /\ x # q => page'[x] = page[x]
  BY <1>1, <1>2
<1> QED
  BY <1>4, <1>5, <1>6 DEF a, nx, sq, fi, la, er, up

\* A page taken by _fork is not on its way to the user, and is when it is forked.
LEMMA StoreFlies ==
  ASSUME PageTakesFrame, TypeOK, OnePlace, NEW f \in Frames, NEW p \in Pages, NEW q \in Pages \cup {NONE},
         Store(f, p, q)
  PROVE  /\ p \notin Flying /\ q \notin Flying
         /\ Flying' = Flying \cup (IF Forked(f, p) THEN {p} ELSE {})
<1> DEFINE job == Job(f, p, Active(p).size, Forked(f, p))
<1>1. /\ dma = p \/ (dma = NONE /\ p \in free)
      /\ IF Total(f, p) > PageSize THEN q \in free \ {p} ELSE q = NONE
      /\ work' = IF f.copied /\ ~Forked(f, p) THEN work ELSE Append(work, job)
      /\ UNCHANGED rundown
  BY DEF Store, Target, Total, Forked, _retire
<1>2. p \notin Flying /\ q \notin Flying
  BY <1>1, NoneAssumption, FlyingPages DEF OnePlace, Apart, Flying
<1>3. job \in Jobs /\ job.page = p /\ job.rundown = Forked(f, p)
  <2>1. Forked(f, p) \in BOOLEAN
    BY DEF Forked
  <2> QED
    BY <2>1, JobOf
<1> HIDE DEF job
<1>4. work \in Seq(Jobs) /\ AnnouncedOnce(work) /\ p \notin Announced(work)
  BY <1>2 DEF TypeOK, OnePlace, Flying
<1>5. Announced(work') = Announced(work) \cup (IF Forked(f, p) THEN {p} ELSE {})
  <2>1. CASE f.copied /\ ~Forked(f, p)
    BY <1>1, <2>1
  <2>2. CASE ~(f.copied /\ ~Forked(f, p))
    BY <1>1, <1>3, <1>4, <2>2, AnnounceAppend
  <2> QED
    BY <2>1, <2>2
<1> QED
  BY <1>1, <1>2, <1>5 DEF Flying

LEMMA EngineFlies ==
  ASSUME PageTakesFrame, TypeOK, OnePlace, Engine
  PROVE  Flying' = Flying
<1> DEFINE job == Head(work)
<1>1. /\ work' = Tail(work) /\ work # <<>> /\ work \in Seq(Jobs)
      /\ rundown' = IF job.rundown THEN Append(rundown, job.page) ELSE rundown
  BY DEF Engine, TypeOK
<1>2. job \in Jobs
  BY <1>1, ListTail
<1>3. job.page \in Pages /\ rundown \in Seq(Pages)
  <2> HIDE DEF job
  <2> QED
    BY <1>2 DEF Jobs, TypeOK
<1>4. /\ Announced(work') = Announced(work) \ (IF job.rundown THEN {job.page} ELSE {})
      /\ job.rundown => job.page \in Announced(work)
  BY <1>1, AnnounceTail DEF OnePlace
<1> HIDE DEF job
<1>5. Range(rundown') = Range(rundown) \cup (IF job.rundown THEN {job.page} ELSE {})
  BY <1>1, <1>3, ListElements
<1> QED
  BY <1>4, <1>5 DEF Flying

\* A step leaves the marks of page x as they are.
MarksKept(x) ==
  /\ page'[x].seq = page[x].seq /\ page'[x].last = page[x].last
  /\ page'[x].first = page[x].first /\ page'[x].err = page[x].err
  /\ page'[x].upto = page[x].upto /\ page'[x].next = page[x].next

\* What BDI_Wait does to the pages: it shortens the one it hands over and carries
\* data over to the next one.
LEMMA WaitGives ==
  ASSUME PageTakesFrame, TypeOK, OnePlace, NextBehind, BDI_Wait, NEW p, p = Head(rundown)
  PROVE  /\ p \in Pages /\ p \in Range(rundown) /\ p # dma /\ p \in Flying
         /\ Flying' = Flying \ {p}
         /\ \A r \in Flying : page[r].next # p
         /\ \A x \in Pages : /\ MarksKept(x)
                             /\ x # p => page'[x].size = page[x].size
                             /\ x # p /\ x # page[p].next => page'[x].ovflow = page[x].ovflow
         /\ page'[p].size = IF page[p].next = NONE THEN page[p].size ELSE PageSize
         /\ page[p].next \in Pages =>
              page'[page[p].next].ovflow =
                [i \in 1 .. page[p].size - PageSize |-> Completed(p)[PageSize + i - 1]]
<1> DEFINE n == page[p].next
<1>1. /\ rundown # <<>> /\ rundown' = Tail(rundown) /\ rundown \in Seq(Pages)
      /\ _wait(p) /\ UNCHANGED <<dma, work>>
  BY DEF BDI_Wait, devVars, TypeOK
<1>2. /\ p \in Pages /\ p \in Range(rundown) /\ Range(rundown') = Range(rundown) \ {p}
  BY <1>1, TakeHead DEF OnePlace
<1>3. p \in Flying /\ p # dma /\ Flying' = Flying \ {p}
  BY <1>1, <1>2, NoneAssumption DEF Flying, OnePlace, Apart
<1>4. \A r \in Flying : page[r].next # p
  <2>1. ASSUME NEW i \in DOMAIN rundown
        PROVE  page[rundown[i]].next # p
    <3>1. /\ page[rundown[i]].next = rundown[1] => i < 1
          /\ rundown[1] = p /\ i \in Nat \ {0}
      BY <1>1, ListTail DEF NextBehind
    <3> QED
      BY <3>1
  <2>2. ASSUME NEW i \in Announcing
        PROVE  page[work[i].page].next # p
    BY <1>2 DEF NextBehind
  <2> QED
    BY <2>1, <2>2 DEF Flying, Range, Announced, Announcing
<1>5. n # p
  BY <1>3, <1>4
<1> DEFINE mine == [page[p] EXCEPT !.ovflow = <<>>, !.size = IF n = NONE THEN @ ELSE PageSize]
           carried == [i \in 1 .. page[p].size - PageSize |-> Completed(p)[PageSize + i - 1]]
           theirs == [page[n] EXCEPT !.ovflow = carried]
<1>6. \A x \in Pages : page[x] \in PageFields
  BY DEF TypeOK
<1>7. /\ mine.next = n /\ mine.seq = page[p].seq /\ mine.last = page[p].last
      /\ mine.first = page[p].first /\ mine.err = page[p].err /\ mine.upto = page[p].upto
      /\ mine.size = IF n = NONE THEN page[p].size ELSE PageSize
  BY <1>2, <1>6 DEF PageFields
<1> HIDE DEF carried, n
<1>8. n \in Pages =>
        /\ theirs.next = page[n].next /\ theirs.seq = page[n].seq /\ theirs.last = page[n].last
        /\ theirs.first = page[n].first /\ theirs.err = page[n].err /\ theirs.upto = page[n].upto
        /\ theirs.size = page[n].size /\ theirs.ovflow = carried
  BY <1>6 DEF PageFields
<1>9. page' = [x \in Pages |-> CASE x = p -> mine [] x = n -> theirs [] OTHER -> page[x]]
  BY <1>1 DEF _wait, carried, n
<1> HIDE DEF mine, theirs
<1>10. /\ page'[p] = mine /\ (n \in Pages => page'[n] = theirs)
       /\ \A x \in Pages : x # p /\ x # n => page'[x] = page[x]
  BY <1>2, <1>5, <1>9
<1>11. \A x \in Pages : /\ MarksKept(x)
                        /\ x # p => page'[x].size = page[x].size
                        /\ x # p /\ x # n => page'[x].ovflow = page[x].ovflow
  <2> SUFFICES ASSUME NEW x \in Pages
               PROVE  /\ MarksKept(x)
                      /\ x # p => page'[x].size = page[x].size
                      /\ x # p /\ x # n => page'[x].ovflow = page[x].ovflow
    OBVIOUS
  <2>1. CASE x = p
    BY <1>7, <1>10, <2>1 DEF n, MarksKept
  <2>2. CASE x = n
    BY <1>5, <1>8, <1>10, <2>2 DEF MarksKept
  <2>3. CASE x # p /\ x # n
    BY <1>10, <2>3 DEF MarksKept
  <2> QED
    BY <2>1, <2>2, <2>3
<1> QED
  BY <1>2, <1>3, <1>4, <1>7, <1>8, <1>10, <1>11 DEF carried, n

\* A step that leaves the pages on their way alone keeps the chain when the device
\* is as ready as it was.
LEMMA ChainFrame ==
  ASSUME PageTakesFrame, TypeOK, Chain, Flying' = Flying, seen' = seen,
         \A r \in Flying : page'[r] = page[r],
         \A seq, last, unit : Ready(seq, last, unit) => Ready(seq, last, unit)'
  PROVE  Chain'
<1>1. \A r \in Flying : /\ Earliest(r)' <=> Earliest(r)
                        /\ Latest(r)' <=> Latest(r)
                        /\ \A s \in Flying : Behind(s, r)' <=> Behind(s, r)
  BY DEF Earliest, Latest, Behind
<1>2. \A r \in Flying : /\ Start(r)' = Start(r) /\ End(r)' = End(r)
                        /\ page'[r].seq = page[r].seq /\ page'[r].last = page[r].last
  BY DEF Start, End
<1>3. \A r \in Flying : \A seq, last, unit :
        Follows(seq, last, unit, r)' <=> Follows(seq, last, unit, r)
  BY <1>2 DEF Follows
<1>4. ASSUME NEW r \in Flying', Earliest(r)'
      PROVE  Follows(seen.seq, seen.last, seen.unit, r)'
  BY <1>1, <1>3, <1>4 DEF Chain
<1>5. ASSUME NEW s \in Flying', NEW r \in Flying', Behind(s, r)'
      PROVE  Follows(page[s].seq, page[s].last, End(s), r)'
  <2>1. Follows(page[s].seq, page[s].last, End(s), r)
    BY <1>1, <1>5 DEF Chain
  <2> QED
    BY <1>2, <1>3, <2>1
<1>6. ASSUME NEW r \in Flying', Latest(r)'
      PROVE  Ready(page[r].seq, page[r].last, End(r))'
  <2>1. Ready(page[r].seq, page[r].last, End(r))
    BY <1>1, <1>6 DEF Chain
  <2> QED
    BY <1>2, <2>1
<1>7. ASSUME Flying' = {}
      PROVE  Ready(seen.seq, seen.last, seen.unit)'
  BY <1>7 DEF Chain
<1> QED
  BY <1>4, <1>5, <1>6, <1>7 DEF Chain

LEMMA StoreChain ==
  ASSUME PageTakesFrame, TypeOK, OnePlace, NextBehind, Filling, InOrder, Chain, NEW f \in Frames, NEW p \in Pages,
         NEW q \in Pages \cup {NONE}, Store(f, p, q)
  PROVE  Filling' /\ Chain'
<1> DEFINE forked == Forked(f, p)
           over == Total(f, p) > PageSize
<1>1. /\ dma = p \/ (dma = NONE /\ p \in free)
      /\ IF over THEN q \in Pages /\ q # p ELSE q = NONE
      /\ dma' = IF over THEN q ELSE IF forked THEN NONE ELSE p
      /\ sequence' = IF forked THEN (IF f.eof THEN 0 ELSE (IF f.sof THEN 0 ELSE sequence) + 1)
                     ELSE IF f.sof THEN 0 ELSE sequence
      /\ status' = (status /\ ~forked)
      /\ ~(status /\ ~f.sof)
      /\ rx' = rx + f.size /\ seen' = seen
  BY DEF Store, Target, Total, Forked, Stamp, NextDma, Receive, TypeOK
<1>2. (over => forked) /\ (f.eof => forked)
  BY StoreDoes DEF Forked
<1>3. /\ p \notin Flying /\ q \notin Flying /\ Flying \subseteq Pages
      /\ Flying' = Flying \cup (IF forked THEN {p} ELSE {})
      /\ \A r \in Flying : page'[r] = page[r]
  BY FlyingPages, StoreFlies, StoreFills
<1>4. /\ dma = NONE => ~Active(p).first /\ ~Active(p).last /\ Active(p).size = 0
      /\ dma # NONE => dma = p /\ Active(p) = page[p]
      /\ ~Active(p).last
  BY <1>1 DEF Active, Fresh, Filling
<1>5. /\ rx \in Nat /\ f.size \in Nat /\ f.size > 0 /\ Total(f, p) \in Nat
      /\ Active(p).size \in Nat /\ Total(f, p) = Active(p).size + f.size
      /\ sequence \in Nat /\ PageSize \in Nat
  <2>1. /\ f.size \in 1 .. PageSize /\ rx \in Nat
        /\ Active(p) \in PageFields /\ Total(f, p) \in Offsets
    BY StoreDoes
  <2>2. Active(p).size \in Offsets
    BY <2>1 DEF PageFields
  <2> QED
    BY <2>1, <2>2, Sizes DEF Offsets, Total, TypeOK
<1>6. /\ page'[p].size = Total(f, p) /\ page'[p].upto = rx + f.size
      /\ page'[p].first = (Active(p).first \/ f.sof) /\ page'[p].last = f.eof
      /\ page'[p].next = IF over THEN q ELSE NONE
      /\ forked => page'[p].seq = IF f.sof THEN 0 ELSE sequence
      /\ forked /\ status => page'[p].err
      /\ over => /\ page'[q].size = Total(f, p) - PageSize /\ page'[q].upto = rx + f.size
                 /\ ~page'[q].last
  BY <1>4, StoreFills DEF Frames
<1> HIDE DEF forked, over
<1>7. dma # NONE => page[dma].upto = rx
  BY DEF Filling
<1>8. Start(p)' = IF dma = NONE THEN rx ELSE Start(dma)
  BY <1>4, <1>5, <1>6, <1>7 DEF Start
<1>9. Filling'
  <2>1. CASE over
    BY <1>1, <1>6, <2>1 DEF Filling
  <2>2. CASE ~over /\ forked
    BY <1>1, <2>2 DEF Filling
  <2>3. CASE ~over /\ ~forked
    BY <1>1, <1>2, <1>6, <2>3 DEF Filling
  <2> QED
    BY <2>1, <2>2, <2>3
<1>10. CASE ~forked
  <2>1. dma' = p /\ p # NONE
    BY <1>1, <1>2, <1>10, NoneAssumption
  <2>2. ASSUME NEW seq, NEW last, NEW unit, Ready(seq, last, unit)
        PROVE  Ready(seq, last, unit)'
    <3>1. status' \/ unit = IF dma' = NONE THEN rx' ELSE Start(dma)'
      BY <1>1, <1>8, <1>10, <2>1, <2>2 DEF Ready, Start
    <3>2. \/ sequence' = seq + 1 /\ ~last
          \/ sequence' = 0 /\ (last \/ status' \/ (dma' # NONE /\ page'[dma'].first))
      <4>1. CASE f.sof
        BY <1>1, <1>6, <1>10, <2>1, <4>1
      <4>2. CASE ~f.sof
        BY <1>1, <1>4, <1>6, <1>10, <2>1, <2>2, <4>2 DEF Ready
      <4> QED
        BY <4>1, <4>2
    <3> QED
      BY <3>1, <3>2 DEF Ready
  <2>3. Flying' = Flying
    BY <1>3, <1>10
  <2>4. Chain'
    BY <1>1, <1>3, <2>2, <2>3, ChainFrame
  <2> QED
    BY <1>9, <2>4
<1>11. CASE forked
  <2>1. Flying' = Flying \cup {p}
    BY <1>3, <1>11
  <2>2. \A seq, last, unit : Ready(seq, last, unit) => Follows(seq, last, unit, p)'
    <3> SUFFICES ASSUME NEW seq, NEW last, NEW unit, Ready(seq, last, unit)
                 PROVE  Follows(seq, last, unit, p)'
      OBVIOUS
    <3>1. page'[p].err \/ Start(p)' = unit
      BY <1>6, <1>8, <1>11 DEF Ready
    <3>2. \/ page'[p].seq = seq + 1 /\ ~last
          \/ page'[p].seq = 0 /\ (page'[p].first \/ page'[p].err \/ last)
      <4>1. CASE f.sof
        BY <1>6, <1>11, <4>1
      <4>2. CASE ~f.sof
        BY <1>1, <1>4, <1>6, <1>11, <4>2 DEF Ready
      <4> QED
        BY <4>1, <4>2
    <3> QED
      BY <3>1, <3>2 DEF Follows
  <2>3. Ready(page[p].seq, page[p].last, End(p))'
    <3>1. \/ sequence' = page'[p].seq + 1 /\ ~page'[p].last
          \/ sequence' = 0 /\ page'[p].last
      BY <1>1, <1>6, <1>11
    <3>2. End(p)' = IF dma' = NONE THEN rx' ELSE Start(dma)'
      <4>1. CASE over
        BY <1>1, <1>5, <1>6, <4>1, NoneAssumption DEF End, Start
      <4>2. CASE ~over
        BY <1>1, <1>6, <1>11, <4>2 DEF End
      <4> QED
        BY <4>1, <4>2
    <3> QED
      BY <3>1, <3>2 DEF Ready
  <2>4. \A r \in Flying : /\ page'[r].upto = page[r].upto /\ page'[p].upto > page'[r].upto
                          /\ page[r].upto \in Nat /\ page'[p].upto \in Nat
    BY <1>3, <1>5, <1>6, FlyingPages DEF InOrder
  <2>5. \A r \in Flying : /\ Start(r)' = Start(r) /\ End(r)' = End(r)
                          /\ page'[r].seq = page[r].seq /\ page'[r].last = page[r].last
    BY <1>3 DEF Start, End
  <2>6. \A r \in Flying : \A seq, last, unit :
          Follows(seq, last, unit, r)' <=> Follows(seq, last, unit, r)
    BY <1>3, <2>5 DEF Follows
  <2>7. ASSUME NEW r \in Flying', Earliest(r)'
        PROVE  Follows(seen.seq, seen.last, seen.unit, r)'
    <3>1. CASE r \in Flying
      <4>1. Earliest(r)
        BY <1>3, <2>1, <2>4, <2>7, <3>1 DEF Earliest
      <4>2. Follows(seen.seq, seen.last, seen.unit, r)
        BY <3>1, <4>1 DEF Chain
      <4> QED
        BY <1>1, <2>6, <3>1, <4>2
    <3>2. CASE r \notin Flying
      <4>1. r = p /\ Flying = {}
        BY <2>1, <2>4, <2>7, <3>2 DEF Earliest
      <4>2. Follows(seen.seq, seen.last, seen.unit, p)'
        BY <1>1, <2>2, <4>1 DEF Chain
      <4> QED
        BY <4>1, <4>2
    <3> QED
      BY <3>1, <3>2
  <2>8. ASSUME NEW s \in Flying', NEW r \in Flying', Behind(s, r)'
        PROVE  Follows(page[s].seq, page[s].last, End(s), r)'
    <3>1. s # p
      BY <1>5, <1>6, <2>1, <2>4, <2>8 DEF Behind
    <3>2. s \in Flying
      BY <2>1, <3>1
    <3>3. CASE r \in Flying
      <4>1. Behind(s, r)
        BY <2>1, <2>4, <2>8, <3>2, <3>3 DEF Behind
      <4>2. Follows(page[s].seq, page[s].last, End(s), r)
        BY <3>2, <3>3, <4>1 DEF Chain
      <4> QED
        BY <2>5, <2>6, <3>2, <3>3, <4>2
    <3>4. CASE r \notin Flying
      <4>1. r = p
        BY <2>1, <3>4
      <4>2. Latest(s)
        <5> SUFFICES ASSUME NEW x \in Flying
                     PROVE  page[x].upto <= page[s].upto
          BY DEF Latest
        <5>1. page'[x].upto <= page'[s].upto \/ page'[p].upto <= page'[x].upto
          BY <2>1, <2>8, <4>1 DEF Behind
        <5> QED
          BY <2>4, <3>2, <5>1
      <4>3. Ready(page[s].seq, page[s].last, End(s))
        BY <3>2, <4>2 DEF Chain
      <4>4. Follows(page[s].seq, page[s].last, End(s), p)'
        BY <2>2, <2>5, <3>2, <4>3
      <4> QED
        BY <4>1, <4>4
    <3> QED
      BY <3>3, <3>4
  <2>9. ASSUME NEW r \in Flying', Latest(r)'
        PROVE  Ready(page[r].seq, page[r].last, End(r))'
    <3>1. r = p
      BY <2>1, <2>4, <2>9 DEF Latest
    <3> QED
      BY <2>3, <3>1
  <2>10. Chain'
    BY <2>1, <2>7, <2>8, <2>9 DEF Chain
  <2> QED
    BY <1>9, <2>10
<1> QED
  BY <1>10, <1>11

\* The page the user is given next is the one whose data came first.
LEMMA HeadEarliest ==
  ASSUME PageTakesFrame, TypeOK, OnePlace, InOrder, rundown # <<>>, NEW p, p = Head(rundown)
  PROVE  Earliest(p) /\ \A r \in Flying : r # p => page[p].upto < page[r].upto
<1>1. p = rundown[1] /\ 1 \in DOMAIN rundown /\ \A i \in DOMAIN rundown : i \in Nat \ {0}
  BY ListTail DEF TypeOK
<1>2. ASSUME NEW r \in Flying, r # p
      PROVE  page[p].upto < page[r].upto
  <2>1. CASE r \in Range(rundown)
    <3>1. PICK i \in DOMAIN rundown : r = rundown[i]
      BY <2>1 DEF Range
    <3> QED
      BY <1>1, <1>2, <3>1 DEF InOrder
  <2>2. CASE r \in Announced(work)
    <3>1. PICK j \in Announcing : r = work[j].page
      BY <2>2 DEF Announced, Announcing
    <3> QED
      BY <1>1, <3>1 DEF InOrder
  <2> QED
    BY <1>2, <2>1, <2>2 DEF Flying
<1>3. p \in Flying
  BY <1>1 DEF Flying, Range
<1>4. \A r \in Flying : page[p].upto <= page[r].upto
  BY <1>2, <1>3, FlyingPages
<1> QED
  BY <1>2, <1>4 DEF Earliest

LEMMA WaitChain ==
  ASSUME PageTakesFrame, TypeOK, OnePlace, NextBehind, Filling, InOrder, Chain, BDI_Wait
  PROVE  Filling' /\ Chain'
<1>0. PICK p : p = Head(rundown)
  OBVIOUS
<1> DEFINE n == page[p].next
<1>1. /\ p \in Flying /\ p \in Pages /\ p # dma /\ Flying' = Flying \ {p}
      /\ \A x \in Pages : MarksKept(x) /\ (x # p => page'[x].size = page[x].size)
      /\ page'[p].size = IF n = NONE THEN page[p].size ELSE PageSize
  BY <1>0, WaitGives
<1>2. /\ UNCHANGED <<dma, status, sequence, rx>>
      /\ seen' = [unit |-> page[p].upto - (page[p].size - page'[p].size),
                  seq |-> page[p].seq, last |-> page[p].last]
      /\ rundown # <<>>
  BY <1>0 DEF BDI_Wait, devVars
<1>3. /\ Flying \subseteq Pages /\ PageSize \in Nat
      /\ \A x \in Pages : page[x].size \in Nat /\ page[x].upto \in Nat
  BY FlyingPages, Sizes
<1>4. Earliest(p) /\ \A r \in Flying : r # p => page[p].upto < page[r].upto
  BY <1>0, <1>2, HeadEarliest
<1>5. seen'.seq = page[p].seq /\ seen'.last = page[p].last /\ seen'.unit = End(p)
  <2>1. seen'.seq = page[p].seq /\ seen'.last = page[p].last
    BY <1>2
  <2>2. seen'.unit = page[p].upto - (page[p].size - page'[p].size)
    BY <1>2
  <2>3. /\ page[p].size \in Nat /\ page[p].upto \in Nat
        /\ page'[p].size = IF page[p].next = NONE THEN page[p].size ELSE PageSize
    BY <1>1, <1>3
  <2>4. seen'.unit = End(p)
    BY <1>3, <2>2, <2>3 DEF End, Start
  <2> QED
    BY <2>1, <2>4
<1>6. \A x \in Pages : x # p =>
        /\ Start(x)' = Start(x) /\ End(x)' = End(x)
        /\ \A seq, last, unit : Follows(seq, last, unit, x)' <=> Follows(seq, last, unit, x)
  BY <1>1 DEF Start, End, Follows, MarksKept
<1>7. \A seq, last, unit : Ready(seq, last, unit)' <=> Ready(seq, last, unit)
  <2>1. dma # NONE => Start(dma)' = Start(dma) /\ page'[dma].first = page[dma].first
    BY <1>1, <1>2, <1>6 DEF TypeOK, Start, MarksKept
  <2> QED
    BY <1>2, <2>1 DEF Ready, Start
<1>8. Filling'
  BY <1>1, <1>2 DEF Filling, TypeOK, MarksKept
<1>9. ASSUME NEW r \in Flying', Earliest(r)'
      PROVE  Follows(seen.seq, seen.last, seen.unit, r)'
  <2>1. r \in Flying /\ r # p /\ r \in Pages
    BY <1>1, <1>3
  <2>2. ASSUME NEW x \in Flying
        PROVE  page[x].upto <= page[p].upto \/ page[r].upto <= page[x].upto
    <3>1. CASE x = p
      BY <1>1, <1>3, <3>1
    <3>2. CASE x # p
      BY <1>1, <1>3, <1>9, <2>1, <3>2 DEF Earliest, MarksKept
    <3> QED
      BY <3>1, <3>2
  <2>3. Behind(p, r)
    BY <1>4, <2>1, <2>2 DEF Behind
  <2>4. Follows(page[p].seq, page[p].last, End(p), r)
    BY <1>1, <2>1, <2>3 DEF Chain
  <2> QED
    BY <1>5, <1>6, <2>1, <2>4
<1>10. ASSUME NEW s \in Flying', NEW r \in Flying', Behind(s, r)'
       PROVE  Follows(page[s].seq, page[s].last, End(s), r)'
  <2>1. /\ r \in Flying /\ r # p /\ r \in Pages
        /\ s \in Flying /\ s # p /\ s \in Pages
    BY <1>1, <1>3
  <2>2. ASSUME NEW x \in Flying
        PROVE  page[x].upto <= page[s].upto \/ page[r].upto <= page[x].upto
    <3>1. CASE x = p
      BY <1>3, <1>4, <2>1, <3>1
    <3>2. CASE x # p
      BY <1>1, <1>3, <1>10, <2>1, <3>2 DEF Behind, MarksKept
    <3> QED
      BY <3>1, <3>2
  <2>3. Behind(s, r)
    BY <1>1, <1>10, <2>1, <2>2 DEF Behind, MarksKept
  <2>4. Follows(page[s].seq, page[s].last, End(s), r)
    BY <2>1, <2>3 DEF Chain
  <2> QED
    BY <1>1, <1>6, <2>1, <2>4 DEF MarksKept
<1>11. ASSUME NEW r \in Flying', Latest(r)'
       PROVE  Ready(page[r].seq, page[r].last, End(r))'
  <2>1. r \in Flying /\ r # p /\ r \in Pages
    BY <1>1, <1>3
  <2>2. ASSUME NEW x \in Flying
        PROVE  page[x].upto <= page[r].upto
    <3>1. CASE x = p
      BY <1>3, <1>4, <2>1, <3>1
    <3>2. CASE x # p
      BY <1>1, <1>3, <1>11, <2>1, <3>2 DEF Latest, MarksKept
    <3> QED
      BY <3>1, <3>2
  <2>3. Ready(page[r].seq, page[r].last, End(r))
    BY <2>1, <2>2 DEF Chain, Latest
  <2> QED
    BY <1>1, <1>6, <1>7, <2>1, <2>3 DEF MarksKept
<1>12. ASSUME Flying' = {}
       PROVE  Ready(seen.seq, seen.last, seen.unit)'
  <2>1. Latest(p)
    BY <1>1, <1>3, <1>12 DEF Latest
  <2>2. Ready(page[p].seq, page[p].last, End(p))
    BY <1>1, <2>1 DEF Chain
  <2> QED
    BY <1>5, <1>7, <2>2
<1>13. Chain'
  BY <1>9, <1>10, <1>11, <1>12 DEF Chain
<1> QED
  BY <1>8, <1>13

LEMMA ChainStep ==
  ASSUME PageTakesFrame, TypeOK, OnePlace, NextBehind, Filling, InOrder, Chain, [Next]_vars
  PROVE  Filling' /\ Chain'
<1>1. ASSUME dma' = NONE, UNCHANGED <<page, work, rundown, seen>>,
             status', UNCHANGED sequence \/ sequence' = 0, status \/ sequence' = 0
      PROVE  Filling' /\ Chain'
  <2>1. Flying' = Flying
    BY <1>1 DEF Flying
  <2>2. \A seq, last, unit : Ready(seq, last, unit) => Ready(seq, last, unit)'
    BY <1>1 DEF Ready
  <2>3. Chain'
    BY <1>1, <2>1, <2>2, ChainFrame
  <2> QED
    BY <1>1, <2>3 DEF Filling
<1>2. ASSUME NEW f \in Frames, _discard(f) \/ NoPage(f) \/ \E p \in Pages : NoNextPage(f, p)
      PROVE  Filling' /\ Chain'
  <2>1. /\ dma' = NONE /\ UNCHANGED <<page, work, rundown, seen>>
        /\ status' /\ (UNCHANGED sequence \/ sequence' = 0) /\ (status \/ sequence' = 0)
    BY <1>2 DEF _discard, NoPage, NoNextPage, Fail
  <2> QED
    BY <1>1, <2>1
<1>3. ASSUME UNCHANGED <<devVars, page, rx, seen>>, Flying' = Flying
      PROVE  Filling' /\ Chain'
  <2>1. UNCHANGED <<dma, status, sequence, page, rx, seen>>
    BY <1>3 DEF devVars
  <2>2. \A seq, last, unit : Ready(seq, last, unit) => Ready(seq, last, unit)'
    BY <2>1 DEF Ready, Start
  <2>3. Chain'
    BY <1>3, <2>1, <2>2, ChainFrame
  <2> QED
    BY <2>1, <2>3 DEF Filling
<1>4. CASE Engine
  <2>1. UNCHANGED <<devVars, page, rx, seen>>
    BY <1>4 DEF Engine
  <2> QED
    BY <1>3, <1>4, <2>1, EngineFlies
<1>5. CASE UNCHANGED vars \/ \E p \in Pages : BDI_Free(p)
  <2>1. UNCHANGED <<devVars, page, rx, seen, work, rundown>>
    BY <1>5 DEF vars, BDI_Free
  <2> QED
    BY <1>3, <2>1 DEF Flying
<1> QED
  BY <1>2, <1>4, <1>5, StoreChain, WaitChain DEF Next, _fork

-----------------------------------------------------------------------------
LEMMA StoreOrder ==
  ASSUME PageTakesFrame, TypeOK, OnePlace, InOrder, NEW f \in Frames, NEW p \in Pages,
         NEW q \in Pages \cup {NONE}, Store(f, p, q)
  PROVE  InOrder'
<1> DEFINE job == Job(f, p, Active(p).size, Forked(f, p))
           k == Len(work) + 1
<1>1. /\ p \notin Flying /\ q \notin Flying /\ Flying \subseteq Pages
      /\ Flying' = Flying \cup (IF Forked(f, p) THEN {p} ELSE {})
      /\ \A r \in Flying : page'[r] = page[r] /\ page[r].upto \in Nat
      /\ page'[p].upto = rx + f.size
  BY FlyingPages, StoreFlies, StoreFills
<1>2. rx \in Nat /\ f.size \in Nat /\ f.size > 0 /\ rx' = rx + f.size
  <2>1. f.size \in 1 .. PageSize /\ rx \in Nat /\ rx' = rx + f.size
    BY StoreDoes DEF Store, Receive
  <2> QED
    BY <2>1, Sizes
<1>3. job \in Jobs /\ job.page = p /\ job.rundown = Forked(f, p)
  <2>1. Forked(f, p) \in BOOLEAN
    BY DEF Forked
  <2> QED
    BY <2>1, JobOf
<1>4. /\ work' = work \/ work' = Append(work, job)
      /\ rundown' = rundown /\ work \in Seq(Jobs)
  BY DEF Store, _retire, TypeOK, Total, Forked
<1> HIDE DEF job
<1>5. /\ Append(work, job)[k] = job /\ DOMAIN Append(work, job) = DOMAIN work \cup {k}
      /\ \A i \in DOMAIN work : Append(work, job)[i] = work[i] /\ i < k /\ i \in Nat
      /\ k \in Nat
  BY <1>3, <1>4, ListAppend
<1>6. \A i \in Announcing' :
        \/ i \in Announcing /\ work'[i] = work[i]
        \/ i = k /\ work'[i] = job
  BY <1>4, <1>5 DEF Announcing
<1>7. /\ \A i \in Announcing : work[i].page \in Flying /\ i \in Nat /\ i < k
      /\ \A i \in DOMAIN rundown : rundown[i] \in Flying
  BY <1>5 DEF Flying, Announced, Announcing, Range
<1> HIDE DEF k
<1>8. \A r \in Flying : page'[r].upto = page[r].upto /\ page[r].upto < page'[p].upto
  BY <1>1, <1>2 DEF InOrder
<1>9. \A r \in Flying' : page'[r].upto <= rx'
  BY <1>1, <1>2, <1>8 DEF InOrder
<1>10. \A i, j \in DOMAIN rundown' : i < j => page'[rundown'[i]].upto < page'[rundown'[j]].upto
  BY <1>4, <1>7, <1>8 DEF InOrder
<1>11. ASSUME NEW i \in Announcing', NEW j \in Announcing', i < j
       PROVE  page'[work'[i].page].upto < page'[work'[j].page].upto
  <2>1. i \in Announcing /\ work'[i] = work[i]
    <3>1. CASE i = k
      BY <1>5, <1>6, <1>7, <1>11, <3>1
    <3> QED
      BY <1>6, <3>1
  <2>2. CASE j \in Announcing /\ work'[j] = work[j]
    BY <1>7, <1>8, <1>11, <2>1, <2>2 DEF InOrder
  <2>3. CASE work'[j] = job
    BY <1>3, <1>7, <1>8, <2>1, <2>3
  <2> QED
    BY <1>6, <2>2, <2>3
<1>12. ASSUME NEW i \in DOMAIN rundown', NEW j \in Announcing'
       PROVE  page'[rundown'[i]].upto < page'[work'[j].page].upto
  <2>1. CASE j \in Announcing /\ work'[j] = work[j]
    BY <1>4, <1>7, <1>8, <2>1 DEF InOrder
  <2>2. CASE work'[j] = job
    BY <1>3, <1>4, <1>7, <1>8, <2>2
  <2> QED
    BY <1>6, <2>1, <2>2
<1> QED
  BY <1>9, <1>10, <1>11, <1>12 DEF InOrder

LEMMA EngineOrder ==
  ASSUME PageTakesFrame, TypeOK, OnePlace, InOrder, Engine
  PROVE  InOrder'
<1> DEFINE job == Head(work)
<1>1. /\ work # <<>> /\ work' = Tail(work) /\ work \in Seq(Jobs) /\ rundown \in Seq(Pages)
      /\ rundown' = IF job.rundown THEN Append(rundown, job.page) ELSE rundown
      /\ UNCHANGED <<page, rx>>
  BY DEF Engine, TypeOK
<1>2. /\ job = work[1] /\ 1 \in DOMAIN work /\ job \in Jobs
      /\ \A i \in DOMAIN work' : i + 1 \in DOMAIN work /\ work'[i] = work[i + 1] /\ i \in Nat \ {0}
  BY <1>1, ListTail
<1> HIDE DEF job
<1>3. job.page \in Pages
  BY <1>2 DEF Jobs
<1>4. \A i \in Announcing' : i + 1 \in Announcing /\ work'[i] = work[i + 1] /\ i \in Nat \ {0}
  BY <1>2 DEF Announcing
<1>5. \A i \in DOMAIN rundown' :
        \/ i \in DOMAIN rundown /\ rundown'[i] = rundown[i] /\ i <= Len(rundown)
        \/ i = Len(rundown) + 1 /\ rundown'[i] = job.page /\ job.rundown
  BY <1>1, <1>3, ListAppend
<1>6. job.rundown => 1 \in Announcing /\ work[1].page = job.page
  BY <1>2 DEF Announcing
<1>7. Flying' = Flying /\ Len(rundown) \in Nat
  BY <1>1, EngineFlies
<1>8. ASSUME NEW i \in DOMAIN rundown', NEW j \in DOMAIN rundown', i < j
      PROVE  page'[rundown'[i]].upto < page'[rundown'[j]].upto
  <2>1. CASE i = Len(rundown) + 1
    BY <1>5, <1>7, <1>8, <2>1
  <2>2. CASE i \in DOMAIN rundown /\ rundown'[i] = rundown[i]
    BY <1>1, <1>5, <1>6, <1>8, <2>2 DEF InOrder
  <2> QED
    BY <1>5, <2>1, <2>2
<1>9. ASSUME NEW i \in Announcing', NEW j \in Announcing', i < j
      PROVE  page'[work'[i].page].upto < page'[work'[j].page].upto
  <2>1. i + 1 < j + 1
    BY <1>4, <1>9
  <2> QED
    BY <1>1, <1>4, <2>1 DEF InOrder
<1>10. ASSUME NEW i \in DOMAIN rundown', NEW j \in Announcing'
       PROVE  page'[rundown'[i]].upto < page'[work'[j].page].upto
  <2>1. CASE i \in DOMAIN rundown /\ rundown'[i] = rundown[i]
    BY <1>1, <1>4, <2>1 DEF InOrder
  <2>2. CASE rundown'[i] = job.page /\ job.rundown
    <3>1. 1 < j + 1
      BY <1>4
    <3> QED
      BY <1>1, <1>4, <1>6, <2>2, <3>1 DEF InOrder
  <2> QED
    BY <1>5, <2>1, <2>2
<1> QED
  BY <1>1, <1>7, <1>8, <1>9, <1>10 DEF InOrder

LEMMA WaitOrder ==
  ASSUME PageTakesFrame, TypeOK, OnePlace, NextBehind, InOrder, BDI_Wait
  PROVE  InOrder'
<1>0. PICK p : p = Head(rundown)
  OBVIOUS
<1>1. /\ Flying' \subseteq Flying /\ Flying \subseteq Pages
      /\ \A x \in Pages : page'[x].upto = page[x].upto
  BY <1>0, WaitGives, FlyingPages DEF MarksKept
<1>2. /\ rundown' = Tail(rundown) /\ rundown # <<>> /\ rundown \in Seq(Pages)
      /\ work' = work /\ rx' = rx
  BY DEF BDI_Wait, TypeOK
<1>3. \A i \in DOMAIN rundown' : i + 1 \in DOMAIN rundown /\ rundown'[i] = rundown[i + 1] /\ i \in Nat
  BY <1>2, ListTail
<1>4. /\ \A i \in DOMAIN rundown : rundown[i] \in Pages
      /\ \A i \in Announcing : work[i].page \in Pages
      /\ Announcing' = Announcing
  BY <1>1, <1>2 DEF Flying, Announced, Announcing
<1>5. ASSUME NEW i \in DOMAIN rundown', NEW j \in DOMAIN rundown', i < j
      PROVE  page'[rundown'[i]].upto < page'[rundown'[j]].upto
  <2>1. i + 1 < j + 1
    BY <1>3, <1>5
  <2> QED
    BY <1>1, <1>3, <1>4, <2>1 DEF InOrder
<1>6. ASSUME NEW i \in Announcing', NEW j \in Announcing', i < j
      PROVE  page'[work'[i].page].upto < page'[work'[j].page].upto
  BY <1>1, <1>2, <1>4, <1>6 DEF InOrder
<1>7. ASSUME NEW i \in DOMAIN rundown', NEW j \in Announcing'
      PROVE  page'[rundown'[i]].upto < page'[work'[j].page].upto
  BY <1>1, <1>2, <1>3, <1>4 DEF InOrder
<1>8. \A r \in Flying' : page'[r].upto <= rx'
  BY <1>1, <1>2 DEF InOrder
<1> QED
  BY <1>5, <1>6, <1>7, <1>8 DEF InOrder

LEMMA OrderStep ==
  ASSUME PageTakesFrame, TypeOK, OnePlace, NextBehind, InOrder, [Next]_vars
  PROVE  InOrder'
<1>1. ASSUME UNCHANGED <<page, work, rundown>>, rx' \in Nat, rx' >= rx
      PROVE  InOrder'
  <2>1. Flying' = Flying /\ Announcing' = Announcing
    BY <1>1 DEF Flying, Announcing
  <2>2. \A r \in Flying : page[r].upto \in Nat
    BY FlyingPages
  <2>3. rx \in Nat
    BY MaxUnitsAssumption DEF TypeOK, Units
  <2>4. \A r \in Flying' : page'[r].upto <= rx'
    BY <1>1, <2>1, <2>2, <2>3 DEF InOrder
  <2> QED
    BY <1>1, <2>1, <2>4 DEF InOrder
<1>2. rx \in Nat /\ \A f \in Frames : f.size \in Nat
  <2>1. rx \in Units /\ \A f \in Frames : f.size \in 1 .. MaxFrame
    BY FrameSizesAssumption DEF TypeOK, Frames
  <2> QED
    BY <2>1, MaxUnitsAssumption, Sizes DEF Units
<1>3. ASSUME NEW f \in Frames, _discard(f) \/ NoPage(f) \/ \E p \in Pages : NoNextPage(f, p)
      PROVE  InOrder'
  <2>1. UNCHANGED <<page, work, rundown>> /\ rx' = rx + f.size
    BY <1>3 DEF _discard, NoPage, NoNextPage, Receive
  <2> QED
    BY <1>1, <1>2, <2>1
<1>4. CASE UNCHANGED vars \/ \E p \in Pages : BDI_Free(p)
  <2>1. UNCHANGED <<page, work, rundown, rx>>
    BY <1>4 DEF vars, BDI_Free
  <2> QED
    BY <1>1, <1>2, <2>1
<1> QED
  BY <1>3, <1>4, StoreOrder, EngineOrder, WaitOrder DEF Next, _fork

-----------------------------------------------------------------------------
(***************************************************************************)
(* The data of the pages.                                                  *)
(***************************************************************************)
\* A step that leaves pages, data, jobs and messages alone, and takes no new page.
LEMMA DataFrame ==
  ASSUME PageTakesFrame, TypeOK, OnePlace, DataInv, UNCHANGED <<page, data, work, rundown>>,
         dma' \in {dma, NONE}, tainted \subseteq tainted', lost \subseteq lost',
         \A i \in DOMAIN work : work[i].page = dma =>
           dma' = dma \/ dma \in tainted' \cup lost'
  PROVE  DataInv'
<1>1. Flying' = Flying /\ InUse' \subseteq InUse
  BY DEF Flying, InUse
<1>2. \A x : Start(x)' = Start(x)
  BY DEF Start
<1>3. \A x, o : (Moving(x, o)' <=> Moving(x, o)) /\ (Coming(x, o)' <=> Coming(x, o))
  BY <1>1 DEF Moving, Coming
<1>4. JobsRight'
  <2> SUFFICES ASSUME NEW i \in DOMAIN work
               PROVE  \/ work[i].page \in tainted' /\ work[i].off + work[i].size <= PageSize
                      \/ work[i].page \in lost'
                      \/ /\ work[i].page \in InUse'
                         /\ work[i].unit = Start(work[i].page) + 1 + work[i].off
                         /\ work[i].off + work[i].size <= page[work[i].page].size
    BY <1>2 DEF JobsRight
  <2>1. CASE work[i].page \in InUse' \/ work[i].page \notin InUse
    BY <2>1 DEF JobsRight, DataInv
  <2>2. CASE work[i].page \in InUse /\ work[i].page \notin InUse'
    <3>1. work[i].page = dma /\ dma # NONE /\ dma' = NONE
      BY <1>1, <2>2 DEF InUse
    <3>2. dma \in tainted' \cup lost'
      BY <3>1
    <3>3. work[i].off + work[i].size <= PageSize \/ dma \in lost'
      <4>1. page[dma].size < PageSize /\ dma \in Pages
        BY <3>1 DEF TypeOK
      <4>2. work[i] \in Jobs /\ page[dma].size \in Nat
        BY <4>1, FlyingPages DEF TypeOK
      <4>3. work[i].off + work[i].size \in Nat
        BY <4>2, Sizes, MaxUnitsAssumption DEF Jobs, Offsets, Units
      <4> QED
        BY <3>1, <4>1, <4>2, <4>3, Sizes DEF JobsRight, DataInv
    <3> QED
      BY <3>1, <3>2, <3>3
  <2> QED
    BY <2>1, <2>2
<1>5. DataRight'
  BY <1>1, <1>2, <1>3 DEF DataRight, DataInv
<1>6. CarriedIn'
  BY <1>1, <1>2 DEF CarriedIn, DataInv
<1>7. CarryOver'
  BY <1>1, <1>2 DEF CarryOver, DataInv
<1> QED
  BY <1>4, <1>5, <1>6, <1>7 DEF DataInv

LEMMA EngineData ==
  ASSUME PageTakesFrame, TypeOK, OnePlace, DataInv, Engine
  PROVE  DataInv'
<1> DEFINE job == Head(work)
           y == job.page
           L == Laid(data[y], job.off, job.unit, job.size)
<1>1. /\ work # <<>> /\ work' = Tail(work) /\ work \in Seq(Jobs)
      /\ data' = [data EXCEPT ![y] = L]
      /\ UNCHANGED <<page, dma, tainted, lost>>
  BY DEF Engine, devVars, TypeOK
<1>2. /\ job = work[1] /\ 1 \in DOMAIN work /\ job \in Jobs
      /\ \A i \in DOMAIN work' : i + 1 \in DOMAIN work /\ work'[i] = work[i + 1]
      /\ \A i \in DOMAIN work : i # 1 => i - 1 \in DOMAIN work' /\ work'[i - 1] = work[i]
  BY <1>1, ListTail
<1>3. Flying' = Flying /\ InUse' = InUse /\ InUse \subseteq Pages
  BY <1>1, EngineFlies, FlyingPages DEF InUse, TypeOK
<1>4. \A x : Start(x)' = Start(x)
  BY <1>1 DEF Start
<1> HIDE DEF job
<1>5. /\ y \in Pages /\ job.off \in Nat /\ job.size \in Nat /\ job.unit \in Nat
      /\ \A p \in Pages : data[p] \in [Offsets -> Units]
      /\ data \in [Pages -> [Offsets -> Units]]
  <2>1. y \in Pages /\ job.off \in Offsets /\ job.size \in Units /\ job.unit \in Units
    BY <1>2 DEF Jobs
  <2>2. job.off \in Nat /\ job.size \in Nat /\ job.unit \in Nat
    BY <2>1, Sizes, MaxUnitsAssumption DEF Offsets, Units
  <2>3. data \in [Pages -> [Offsets -> Units]]
    BY DEF TypeOK
  <2> HIDE DEF y
  <2> QED
    BY <2>1, <2>2, <2>3
<1>6. JobsRight'
  BY <1>1, <1>2, <1>3, <1>4 DEF JobsRight, DataInv
<1>7. \A x, o : Coming(x, o)' <=> Coming(x, o)
  BY <1>1, <1>3 DEF Coming
<1> HIDE DEF y
<1>8. ASSUME NEW p \in InUse, NEW o \in 0 .. page[p].size - 1, p \notin tainted \/ o >= PageSize
      PROVE  data'[p][o] = Start(p) + o + 1 \/ Moving(p, o)' \/ Coming(p, o)'
  <2>1. p \in Pages /\ o \in Offsets /\ o \in Nat
    <3>1. p \in Pages
      BY <1>3
    <3>2. page[p] \in PageFields
      BY <3>1 DEF TypeOK
    <3>3. page[p].size \in Offsets
      BY <3>2 DEF PageFields
    <3> QED
      BY <3>1, <3>3, Sizes DEF Offsets
  <2>2. data[p][o] = Start(p) + o + 1 \/ Moving(p, o) \/ Coming(p, o)
    BY <1>8 DEF DataRight, DataInv
  <2>3. CASE p = y /\ o \in job.off .. job.off + job.size - 1
    <3>1. data'[p][o] = job.unit + (o - job.off)
      BY <1>1, <1>5, <2>1, <2>3 DEF Laid
    <3>2. p \notin lost
      BY <1>8, NoneAssumption DEF InUse, Flying, OnePlace, Apart
    <3>3. p \in tainted => ~(job.off + job.size <= PageSize)
      BY <1>5, <1>8, <2>1, <2>3, Sizes
    <3>4. job.unit = Start(p) + 1 + job.off
      BY <1>2, <2>3, <3>2, <3>3 DEF JobsRight, DataInv, y
    <3>5. Start(p) \in Int
      BY <2>1, FlyingPages DEF Start
    <3>6. data'[p][o] = Start(p) + o + 1
      BY <1>5, <2>1, <3>1, <3>4, <3>5
    <3> QED
      BY <3>6
  <2>4. CASE ~(p = y /\ o \in job.off .. job.off + job.size - 1)
    <3>1. data'[p][o] = data[p][o]
      <4>1. CASE p = y
        BY <1>1, <1>5, <2>1, <2>4, <4>1 DEF Laid
      <4>2. CASE p # y
        BY <1>1, <1>5, <2>1, <4>2
      <4> QED
        BY <4>1, <4>2
    <3>2. ASSUME Moving(p, o)
          PROVE  Moving(p, o)'
      <4>1. PICK i \in DOMAIN work : /\ work[i].page = p
                                     /\ o \in work[i].off .. work[i].off + work[i].size - 1
        BY <3>2 DEF Moving
      <4>2. i # 1
        BY <1>2, <2>4, <4>1 DEF y
      <4> QED
        BY <1>2, <4>1, <4>2 DEF Moving
    <3> QED
      BY <1>7, <2>2, <3>1, <3>2
  <2> QED
    BY <2>3, <2>4
<1>9. DataRight'
  BY <1>1, <1>3, <1>4, <1>8 DEF DataRight
<1>10. CarriedIn' /\ CarryOver'
  BY <1>1, <1>3, <1>4 DEF CarriedIn, CarryOver, DataInv
<1> QED
  BY <1>6, <1>9, <1>10 DEF DataInv

\* What the user is given is complete: all of it has been moved, and what was
\* carried over to the page is at its head.
LEMMA WaitReads ==
  ASSUME PageTakesFrame, TypeOK, OnePlace, NextBehind, JobsBefore, DataInv, BDI_Wait,
         NEW p, p = Head(rundown), NEW o \in 0 .. page[p].size - 1
  PROVE  /\ o \in Offsets /\ o \in Nat
         /\ p \notin tainted \/ o >= PageSize => Completed(p)[o] = Start(p) + o + 1
<1>1. p \in Pages /\ p \in Range(rundown) /\ p \in Flying /\ \A r \in Flying : page[r].next # p
  BY WaitGives
<1>2. page[p] \in PageFields
  BY <1>1 DEF TypeOK
<1>3. page[p].size \in Offsets /\ page[p].ovflow \in Seq(Units)
  BY <1>2 DEF PageFields
<1>4. o \in Offsets /\ o \in Nat
  BY <1>3, Sizes DEF Offsets
<1>5. ASSUME p \notin tainted \/ o >= PageSize
      PROVE  Completed(p)[o] = Start(p) + o + 1
  <2>1. data[p][o] = Start(p) + o + 1 \/ Moving(p, o) \/ Coming(p, o)
    BY <1>1, <1>5 DEF DataInv, DataRight, InUse
  <2>2. ~Moving(p, o)
    BY <1>1 DEF Moving, JobsBefore
  <2>3. Completed(p)[o] = IF o < Len(page[p].ovflow) THEN page[p].ovflow[o + 1] ELSE data[p][o]
    BY <1>4 DEF Completed
  <2>4. CASE o < Len(page[p].ovflow)
    <3>1. o + 1 \in DOMAIN page[p].ovflow
      BY <1>3, <1>4, <2>4
    <3>2. page[p].ovflow[o + 1] = Start(p) + (o + 1)
      BY <1>1, <3>1 DEF DataInv, CarriedIn, InUse
    <3>3. Start(p) \in Int
      BY <1>1, FlyingPages DEF Start
    <3> QED
      BY <1>4, <2>3, <2>4, <3>2, <3>3
  <2>5. CASE ~(o < Len(page[p].ovflow))
    BY <1>1, <2>1, <2>2, <2>3, <2>5 DEF Coming
  <2> QED
    BY <2>4, <2>5
<1> QED
  BY <1>4, <1>5

LEMMA WaitData ==
  ASSUME PageTakesFrame, TypeOK, OnePlace, NextBehind, JobsBefore, DataInv, BDI_Wait
  PROVE  DataInv'
<1>0. PICK p, n : p = Head(rundown) /\ n = page[p].next
  OBVIOUS
<1>1. /\ p \in Pages /\ p \in Range(rundown) /\ p # dma /\ p \in Flying /\ n # p
      /\ Flying' = Flying \ {p}
      /\ \A x \in Pages : /\ MarksKept(x)
                          /\ x # p => page'[x].size = page[x].size
                          /\ x # p /\ x # n => page'[x].ovflow = page[x].ovflow
  <2>1. /\ p \in Pages /\ p \in Range(rundown) /\ p # dma /\ p \in Flying
        /\ \A r \in Flying : page[r].next # p
        /\ Flying' = Flying \ {p}
    BY <1>0, WaitGives
  <2>2. \A x \in Pages : /\ MarksKept(x)
                         /\ x # p => page'[x].size = page[x].size
                         /\ x # p /\ x # page[p].next => page'[x].ovflow = page[x].ovflow
    BY <1>0, WaitGives
  <2>3. n # p
    BY <1>0, <2>1
  <2>4. \A x \in Pages : x # p /\ x # n => page'[x].ovflow = page[x].ovflow
    BY <1>0, <2>2
  <2> QED
    BY <2>1, <2>2, <2>3, <2>4
<1>2. n \in Pages => page'[n].ovflow =
                       [i \in 1 .. page[p].size - PageSize |-> Completed(p)[PageSize + i - 1]]
  BY <1>0, WaitGives
<1>3. /\ UNCHANGED <<dma, work, tainted, lost>>
      /\ data' = [data EXCEPT ![p] = Completed(p)]
  BY <1>0 DEF BDI_Wait, devVars, _wait
<1>4. /\ InUse' = InUse \ {p} /\ InUse \subseteq Pages /\ Flying \subseteq Pages
      /\ Flying \subseteq InUse
  BY <1>1, <1>3, FlyingPages DEF InUse, TypeOK
<1>5. \A x \in Pages : x # p => /\ Start(x)' = Start(x) /\ page'[x].size = page[x].size
                                /\ page'[x].next = page[x].next
  BY <1>1 DEF Start, MarksKept
<1>6. JobsRight'
  <2>1. \A i \in DOMAIN work : work[i].page # p
    BY <1>1 DEF JobsBefore
  <2> QED
    BY <1>3, <1>4, <1>5, <2>1 DEF JobsRight, DataInv
<1>7. \A x \in Pages : x # p => data'[x] = data[x]
  BY <1>3 DEF TypeOK
<1>8. \A x, o : Moving(x, o)' <=> Moving(x, o)
  BY <1>3 DEF Moving
<1>9. n \in InUse => /\ page[p].size - PageSize \in Nat /\ page[p].size - PageSize < PageSize
                     /\ n # NONE /\ n \in Pages
                     /\ Start(n) = Start(p) + PageSize
                     /\ page[n].ovflow = <<>>
                     /\ \A s \in Flying : page[s].next = n => s = p
  <2> SUFFICES ASSUME n \in InUse
               PROVE  /\ page[p].size - PageSize \in Nat /\ page[p].size - PageSize < PageSize
                      /\ n # NONE /\ n \in Pages
                      /\ Start(n) = Start(p) + PageSize
                      /\ page[n].ovflow = <<>>
                      /\ \A s \in Flying : page[s].next = n => s = p
    OBVIOUS
  <2>1. n \in Pages /\ n # NONE
    BY <1>4, NoneAssumption
  <2>2. page[p].size > PageSize /\ Start(n) = Start(p) + PageSize
    BY <1>0, <1>1, <2>1 DEF DataInv, CarryOver
  <2>3. page[p] \in PageFields
    BY <1>1 DEF TypeOK
  <2>4. page[p].size \in Offsets
    BY <2>3 DEF PageFields
  <2>5. page[n].ovflow = <<>>
    BY <1>0, <1>1 DEF DataInv, CarriedIn
  <2>6. \A s \in Flying : page[s].next = n => s = p
    BY <1>0, <1>1, <2>1 DEF DataInv, CarryOver
  <2> QED
    BY <2>1, <2>2, <2>4, <2>5, <2>6, Sizes DEF Offsets
<1>10. n \in InUse => /\ Len(page'[n].ovflow) = page[p].size - PageSize
                      /\ DOMAIN page'[n].ovflow = 1 .. page[p].size - PageSize
                      /\ \A i \in 1 .. page[p].size - PageSize : page'[n].ovflow[i] = Start(n) + i
  <2> SUFFICES ASSUME n \in InUse
               PROVE  /\ Len(page'[n].ovflow) = page[p].size - PageSize
                      /\ DOMAIN page'[n].ovflow = 1 .. page[p].size - PageSize
                      /\ \A i \in 1 .. page[p].size - PageSize : page'[n].ovflow[i] = Start(n) + i
    OBVIOUS
  <2> DEFINE k == page[p].size - PageSize
             c == [i \in 1 .. k |-> Completed(p)[PageSize + i - 1]]
  <2>1. k \in Nat /\ page'[n].ovflow = c
    BY <1>0, <1>2, <1>9
  <2>2. ASSUME NEW i \in 1 .. k
        PROVE  c[i] = Start(n) + i
    <3>1. c[i] = Completed(p)[PageSize + i - 1]
      OBVIOUS
    <3>2. PageSize + i - 1 \in 0 .. page[p].size - 1 /\ PageSize + i - 1 >= PageSize
      BY <2>1, <2>2, <1>1, FlyingPages, Sizes
    <3>3. Completed(p)[PageSize + i - 1] = Start(p) + (PageSize + i - 1) + 1
      BY <1>0, <3>2, WaitReads
    <3>4. Start(p) \in Int
      BY <1>1, FlyingPages DEF Start
    <3> QED
      BY <1>9, <2>1, <3>1, <3>3, <3>4, Sizes
  <2>3. DOMAIN c = 1 .. k
    OBVIOUS
  <2>4. Len(c) = k
    <3> HIDE DEF k
    <3> QED
      BY <2>1
  <2> HIDE DEF c
  <2> QED
    BY <2>1, <2>2, <2>3, <2>4
<1>11. ASSUME NEW x \in InUse', NEW o \in 0 .. page'[x].size - 1, x \notin tainted \/ o >= PageSize
       PROVE  data'[x][o] = Start(x)' + o + 1 \/ Moving(x, o)' \/ Coming(x, o)'
  <2>1. x \in InUse /\ x # p /\ x \in Pages
    BY <1>4
  <2>2. data[x][o] = Start(x) + o + 1 \/ Moving(x, o) \/ Coming(x, o)
    BY <1>5, <1>11, <2>1 DEF DataInv, DataRight
  <2>3. ASSUME Coming(x, o)
        PROVE  Coming(x, o)'
    <3>1. CASE x = n
      <4>1. Len(page[n].ovflow) = 0
        BY <1>9, <2>1, <3>1
      <4>2. page[p].size \in Nat /\ o \in Nat
        BY <1>1, FlyingPages
      <4>3. o < page[p].size - PageSize
        BY <1>0, <1>9, <2>1, <2>3, <3>1, <4>1, <4>2 DEF Coming
      <4> QED
        BY <1>10, <2>1, <3>1, <4>3 DEF Coming
    <3>2. CASE x # n
      <4>1. CASE o < Len(page[x].ovflow)
        BY <1>1, <2>1, <3>2, <4>1 DEF Coming
      <4>2. ASSUME NEW s \in Flying, page[s].next = x, o < page[s].size - PageSize
            PROVE  Coming(x, o)'
        <5>1. s # p /\ s \in Flying' /\ s \in Pages
          BY <1>0, <1>1, <1>4, <3>2, <4>2
        <5> QED
          BY <1>5, <4>2, <5>1 DEF Coming
      <4> QED
        BY <2>3, <4>1, <4>2 DEF Coming
    <3> QED
      BY <3>1, <3>2
  <2> QED
    BY <1>5, <1>7, <1>8, <2>1, <2>2, <2>3
<1>12. DataRight'
  BY <1>3, <1>11 DEF DataRight
<1>13. CarriedIn'
  <2> SUFFICES ASSUME NEW x \in InUse'
               PROVE  /\ \A i \in DOMAIN page'[x].ovflow : page'[x].ovflow[i] = Start(x)' + i
                      /\ Len(page'[x].ovflow) < PageSize
                      /\ page'[x].ovflow # <<>> => \A s \in Flying' : page'[s].next # x
    BY DEF CarriedIn
  <2>1. x \in InUse /\ x # p /\ x \in Pages
    BY <1>4
  <2>2. \A s \in Flying' : s \in Flying /\ s # p /\ page'[s].next = page[s].next
    BY <1>1, <1>4, <1>5
  <2>3. CASE x = n
    BY <1>0, <1>5, <1>9, <1>10, <2>1, <2>2, <2>3
  <2>4. CASE x # n
    BY <1>0, <1>1, <1>5, <2>1, <2>2, <2>4 DEF DataInv, CarriedIn
  <2> QED
    BY <2>3, <2>4
<1>14. CarryOver'
  <2>1. \A s \in Flying' : s \in Flying /\ s # p /\ s \in Pages
    BY <1>1, <1>4
  <2> QED
    BY <1>4, <1>5, <2>1 DEF DataInv, CarryOver
<1> QED
  BY <1>6, <1>12, <1>13, <1>14 DEF DataInv

LEMMA StoreData ==
  ASSUME PageTakesFrame, TypeOK, OnePlace, NextBehind, Filling, DataInv, NEW f \in Frames, NEW p \in Pages,
         NEW q \in Pages \cup {NONE}, Store(f, p, q)
  PROVE  DataInv'
<1> DEFINE a == Active(p)
           total == Total(f, p)
           over == total > PageSize
           forked == Forked(f, p)
           job == Job(f, p, a.size, forked)
           L == Laid(data[p], a.size, rx + 1, f.size)
<1>1. /\ dma = p \/ (dma = NONE /\ p \in free)
      /\ IF over THEN q \in free \ {p} ELSE q = NONE
      /\ dma' = IF over THEN q ELSE IF forked THEN NONE ELSE p
      /\ rx' = rx + f.size /\ UNCHANGED <<tainted, lost, rundown>>
      /\ data' = IF f.copied THEN [data EXCEPT ![p] = L] ELSE data
      /\ work' = IF f.copied /\ ~forked THEN work ELSE Append(work, job)
  BY DEF Store, Target, Total, Forked, NextDma, Receive, _retire
<1>2. over => forked
  BY StoreDoes
<1>3. /\ p \notin Flying /\ q \notin Flying /\ Flying \subseteq Pages /\ NONE \notin Flying
      /\ Flying' = Flying \cup (IF forked THEN {p} ELSE {})
      /\ \A r \in Flying : page'[r] = page[r]
  BY FlyingPages, StoreFlies, StoreFills
<1>4. /\ dma = NONE => a.size = 0 /\ a.ovflow = <<>>
      /\ dma # NONE => dma = p /\ a = page[p] /\ page[p].upto = rx
  BY <1>1 DEF Active, Fresh, Filling
<1>5. /\ rx \in Nat /\ f.size \in Nat /\ f.size > 0 /\ total \in Offsets /\ total \in Nat
      /\ a.size \in Nat /\ a.size \in Offsets /\ total = a.size + f.size
      /\ PageSize \in Nat \ {0} /\ f.copied \in BOOLEAN
  <2>1. /\ f.size \in 1 .. PageSize /\ rx \in Nat
        /\ a \in PageFields /\ total \in Offsets /\ f.copied \in BOOLEAN
    BY StoreDoes
  <2>2. a.size \in Offsets
    BY <2>1 DEF PageFields
  <2> QED
    BY <2>1, <2>2, Sizes DEF Offsets, Total
<1>6. /\ page'[p].size = total /\ page'[p].upto = rx + f.size
      /\ page'[p].next = IF over THEN q ELSE NONE
  BY StoreFills
<1>7. page'[p].ovflow = a.ovflow
  BY StoreFills
<1>8. over => /\ page'[q].size = total - PageSize /\ page'[q].upto = rx + f.size
              /\ page'[q].ovflow = <<>> /\ q \in Pages /\ q \in free /\ q # p
  BY <1>1, StoreFills DEF TypeOK
<1>9. job \in Jobs /\ job.page = p /\ job.unit = rx + 1 /\ job.off = a.size
      /\ job.size = IF f.copied THEN 0 ELSE f.size
  <2>1. forked \in BOOLEAN
    BY DEF Forked
  <2> QED
    BY <2>1, JobOf DEF Job
<1> HIDE DEF a, total, over, forked, job
<1>10. InUse' = Flying \cup {p} \cup (IF over THEN {q} ELSE {})
  BY <1>1, <1>2, <1>3, <1>8, NoneAssumption DEF InUse
<1>11. /\ InUse = Flying \cup (IF dma = NONE THEN {} ELSE {p})
       /\ p # NONE
  BY <1>1, NoneAssumption DEF InUse
<1>12. /\ Start(p)' = rx - a.size
       /\ dma # NONE => Start(p)' = Start(p)
       /\ over => Start(q)' = Start(p)' + PageSize
       /\ \A r \in Flying : Start(r)' = Start(r)
  <2>1. \A r : Start(r) = page[r].upto - page[r].size /\ Start(r)' = page'[r].upto - page'[r].size
    BY DEF Start
  <2>2. Start(p)' = rx - a.size
    BY <1>5, <1>6, <2>1
  <2>3. dma # NONE => Start(p)' = Start(p)
    BY <1>4, <2>1, <2>2
  <2>4. over => Start(q)' = Start(p)' + PageSize
    BY <1>5, <1>8, <2>1, <2>2
  <2> QED
    BY <1>3, <2>1, <2>2, <2>3, <2>4
<1>13. \A r \in Flying : /\ page[r].next = p => dma = p
                         /\ over => page[r].next # q
  <2>1. \A r \in Flying : page[r].next \in {NONE, dma} \cup Flying \cup lost
    BY DEF NextBehind, Flying
  <2>2. p \notin lost
    BY <1>1, NoneAssumption DEF OnePlace, Apart
  <2>3. over => q \notin {NONE, dma} \cup Flying \cup lost
    BY <1>3, <1>8, NoneAssumption DEF OnePlace, Apart
  <2> QED
    BY <1>3, <1>11, <2>1, <2>2, <2>3
<1>14. /\ DOMAIN work \subseteq DOMAIN work'
       /\ \A i \in DOMAIN work : work'[i] = work[i]
       /\ \A i \in DOMAIN work' : i \in DOMAIN work \/ work'[i] = job
       /\ work' # work => \E i \in DOMAIN work' : work'[i] = job
       /\ ~f.copied => \E i \in DOMAIN work' : work'[i] = job
  <2>1. work \in Seq(Jobs)
    BY DEF TypeOK
  <2>2. /\ DOMAIN Append(work, job) = DOMAIN work \cup {Len(work) + 1}
        /\ Append(work, job)[Len(work) + 1] = job
        /\ \A i \in DOMAIN work : Append(work, job)[i] = work[i]
    BY <1>9, <2>1, ListAppend
  <2> QED
    BY <1>1, <1>5, <2>2
<1>15. \A x, o : Moving(x, o) => Moving(x, o)'
  BY <1>14 DEF Moving
<1>16. /\ \A r \in Flying : \A o : Coming(r, o) => Coming(r, o)'
       /\ dma # NONE => \A o : Coming(p, o) => Coming(p, o)'
  BY <1>3, <1>4, <1>7 DEF Coming
<1>17. JobsRight'
  <2> SUFFICES ASSUME NEW i \in DOMAIN work', NEW y, y = work'[i].page
               PROVE  \/ y \in tainted /\ work'[i].off + work'[i].size <= PageSize
                      \/ y \in lost
                      \/ /\ y \in InUse'
                         /\ work'[i].unit = Start(y)' + 1 + work'[i].off
                         /\ work'[i].off + work'[i].size <= page'[y].size
    BY <1>1 DEF JobsRight, Start
  <2>1. CASE i \in DOMAIN work
    <3>1. work'[i] = work[i]
      BY <1>14, <2>1
    <3>2. \/ y \in tainted /\ work[i].off + work[i].size <= PageSize
          \/ y \in lost
          \/ /\ y \in InUse
             /\ work[i].unit = Start(y) + 1 + work[i].off
             /\ work[i].off + work[i].size <= page[y].size
      BY <2>1, <3>1 DEF DataInv, JobsRight
    <3>3. CASE y \in Flying
      BY <1>3, <1>10, <1>12, <3>1, <3>2, <3>3
    <3>4. CASE dma # NONE /\ y = p
      <4>1. page[p].size <= page'[p].size /\ page[p].size \in Nat /\ page'[p].size \in Nat
        BY <1>4, <1>5, <1>6, <3>4
      <4>2. work[i] \in Jobs
        BY <2>1 DEF TypeOK
      <4>3. work[i].off + work[i].size \in Nat
        BY <4>2, Sizes, MaxUnitsAssumption DEF Jobs, Offsets, Units
      <4>4. Start(p)' = Start(p) /\ p \in InUse'
        BY <1>10, <1>12, <3>4
      <4> QED
        BY <3>1, <3>2, <3>4, <4>1, <4>3, <4>4
    <3> QED
      BY <1>11, <3>1, <3>2, <3>3, <3>4
  <2>2. CASE work'[i] = job
    <3>1. rx + 1 = (rx - a.size) + 1 + a.size /\ a.size + job.size <= total
      BY <1>5, <1>9
    <3> QED
      BY <1>6, <1>9, <1>10, <1>12, <2>2, <3>1
  <2> QED
    BY <1>14, <2>1, <2>2
<1>18. ASSUME NEW x \in InUse', NEW o \in 0 .. page'[x].size - 1, x \notin tainted \/ o >= PageSize
       PROVE  data'[x][o] = Start(x)' + o + 1 \/ Moving(x, o)' \/ Coming(x, o)'
  <2>1. CASE x \in Flying
    <3>1. data'[x] = data[x]
      BY <1>1, <1>3, <2>1 DEF TypeOK
    <3>2. data[x][o] = Start(x) + o + 1 \/ Moving(x, o) \/ Coming(x, o)
      BY <1>3, <1>11, <1>18, <2>1 DEF DataInv, DataRight
    <3> QED
      BY <1>12, <1>15, <1>16, <2>1, <3>1, <3>2
  <2>2. CASE x = p
    <3>1. o \in Nat /\ o < total /\ o \in Offsets
      <4>1. o \in 0 .. total - 1
        BY <1>6, <1>18, <2>2
      <4> QED
        BY <1>5, <4>1, Sizes DEF Offsets
    <3>2. CASE o < a.size
      <4>1. dma # NONE /\ a = page[p] /\ p \in InUse
        BY <1>4, <1>11, <3>1, <3>2
      <4>2. data[p][o] = Start(p) + o + 1 \/ Moving(p, o) \/ Coming(p, o)
        BY <1>5, <1>18, <2>2, <3>1, <3>2, <4>1 DEF DataInv, DataRight
      <4>3. data'[p][o] = data[p][o]
        <5>1. L[o] = data[p][o]
          BY <1>5, <3>1, <3>2 DEF Laid
        <5> HIDE DEF L
        <5> QED
          BY <1>1, <5>1 DEF TypeOK
      <4> QED
        BY <1>12, <1>15, <1>16, <2>2, <4>1, <4>2, <4>3
    <3>3. CASE ~(o < a.size)
      <4>1. o \in a.size .. a.size + f.size - 1
        BY <1>5, <3>1, <3>3
      <4>2. CASE f.copied
        <5>1. L[o] = rx + 1 + (o - a.size)
          BY <3>1, <4>1 DEF Laid
        <5>2. rx + 1 + (o - a.size) = (rx - a.size) + o + 1
          BY <1>5, <3>1
        <5> HIDE DEF L
        <5> QED
          BY <1>1, <1>12, <2>2, <4>2, <5>1, <5>2 DEF TypeOK
      <4>3. CASE ~f.copied
        BY <1>9, <1>14, <2>2, <4>1, <4>3 DEF Moving
      <4> QED
        BY <4>2, <4>3
    <3> QED
      BY <3>2, <3>3
  <2>3. CASE over /\ x = q
    <3>1. o < total - PageSize
      BY <1>5, <1>8, <2>3
    <3> QED
      BY <1>2, <1>3, <1>6, <2>3, <3>1 DEF Coming
  <2> QED
    BY <1>10, <2>1, <2>2, <2>3
<1>19. DataRight'
  BY <1>1, <1>18 DEF DataRight
<1>20. \A s \in Flying' : \/ s \in Flying /\ page'[s] = page[s]
                          \/ s = p /\ forked
  BY <1>3
<1>21. CarriedIn'
  <2> SUFFICES ASSUME NEW x \in InUse'
               PROVE  /\ \A i \in DOMAIN page'[x].ovflow : page'[x].ovflow[i] = Start(x)' + i
                      /\ Len(page'[x].ovflow) < PageSize
                      /\ page'[x].ovflow # <<>> => \A s \in Flying' : page'[s].next # x
    BY DEF CarriedIn
  <2>1. ASSUME page'[x].ovflow = <<>>
        PROVE  /\ \A i \in DOMAIN page'[x].ovflow : page'[x].ovflow[i] = Start(x)' + i
               /\ Len(page'[x].ovflow) < PageSize
    BY <1>5, <2>1
  <2>2. CASE x \in Flying
    BY <1>3, <1>6, <1>11, <1>12, <1>20, <2>2 DEF DataInv, CarriedIn
  <2>3. CASE x = p
    <3>1. CASE dma = NONE
      BY <1>4, <1>7, <2>1, <2>3, <3>1
    <3>2. CASE dma # NONE
      <4>1. page'[p].next # p
        BY <1>6, <1>8, <1>11
      <4> QED
        BY <1>4, <1>7, <1>11, <1>12, <1>20, <2>3, <3>2, <4>1 DEF DataInv, CarriedIn
    <3> QED
      BY <3>1, <3>2
  <2>4. CASE over /\ x = q
    BY <1>8, <2>1, <2>4
  <2> QED
    BY <1>10, <2>2, <2>3, <2>4
<1>22. ASSUME NEW s \in Flying'
       PROVE  /\ IF page'[s].next = NONE THEN page'[s].size <= PageSize ELSE page'[s].size > PageSize
              /\ \A y : y = page'[s].next /\ y \in InUse' => Start(y)' = Start(s)' + PageSize
              /\ \A t \in Flying' : page'[s].next = page'[t].next /\ page'[s].next # NONE => s = t
  <2>1. CASE s \in Flying /\ page'[s] = page[s]
    <3>1. IF page'[s].next = NONE THEN page'[s].size <= PageSize ELSE page'[s].size > PageSize
      BY <2>1 DEF DataInv, CarryOver
    <3>2. ASSUME NEW y, y = page'[s].next, y \in InUse'
          PROVE  Start(y)' = Start(s)' + PageSize
      <4>1. y \in Flying \/ (y = p /\ dma # NONE)
        BY <1>10, <1>11, <1>13, <2>1, <3>2
      <4>2. Start(y) = Start(s) + PageSize
        BY <1>11, <2>1, <3>2, <4>1 DEF DataInv, CarryOver
      <4> QED
        BY <1>12, <2>1, <4>1, <4>2
    <3>3. ASSUME NEW t \in Flying', page'[s].next = page'[t].next, page'[s].next # NONE
          PROVE  s = t
      <4>1. CASE t \in Flying /\ page'[t] = page[t]
        BY <2>1, <3>3, <4>1 DEF DataInv, CarryOver
      <4>2. CASE t = p
        BY <1>6, <1>13, <2>1, <3>3, <4>2
      <4> QED
        BY <1>20, <4>1, <4>2
    <3> QED
      BY <3>1, <3>2, <3>3
  <2>2. CASE s = p /\ forked
    <3>1. IF page'[s].next = NONE THEN page'[s].size <= PageSize ELSE page'[s].size > PageSize
      BY <1>5, <1>6, <1>8, <2>2, NoneAssumption DEF over
    <3>2. NONE \notin InUse'
      BY <1>3, <1>8, <1>10, <1>11, NoneAssumption
    <3>3. ASSUME NEW y, y = page'[s].next, y \in InUse'
          PROVE  Start(y)' = Start(s)' + PageSize
      <4>1. over /\ y = q
        BY <1>6, <2>2, <3>2, <3>3
      <4>2. Start(q)' = Start(p)' + PageSize
        BY <1>12, <4>1
      <4> QED
        BY <2>2, <4>1, <4>2
    <3>4. ASSUME NEW t \in Flying', page'[s].next = page'[t].next, page'[s].next # NONE
          PROVE  s = t
      <4>1. over /\ page'[t].next = q
        BY <1>6, <2>2, <3>4
      <4> QED
        BY <1>13, <1>20, <2>2, <4>1
    <3> QED
      BY <3>1, <3>3, <3>4
  <2> QED
    BY <1>20, <2>1, <2>2
<1>23. CarryOver'
  BY <1>22 DEF CarryOver, Start
<1> QED
  BY <1>17, <1>19, <1>21, <1>23 DEF DataInv

LEMMA DataStep ==
  ASSUME PageTakesFrame, TypeOK, OnePlace, NextBehind, JobsBefore, Filling, DataInv, [Next]_vars
  PROVE  DataInv'
<1>1. ASSUME NEW f \in Frames, _discard(f)
      PROVE  DataInv'
  <2>1. /\ dma' = NONE /\ UNCHANGED <<page, data, work, rundown>>
        /\ tainted' = IF dma \in Range([i \in DOMAIN work |-> work[i].page])
                      THEN tainted \cup {dma} ELSE tainted
        /\ lost \subseteq lost'
    BY <1>1 DEF _discard, Freed
  <2>2. \A i \in DOMAIN work : work[i].page = dma => dma \in tainted'
    BY <2>1 DEF Range
  <2> QED
    BY <2>1, <2>2, DataFrame
<1>2. ASSUME NEW f \in Frames, NoPage(f)
      PROVE  DataInv'
  <2>1. dma' = dma /\ UNCHANGED <<page, data, work, rundown, tainted, lost>>
    BY <1>2 DEF NoPage
  <2> QED
    BY <2>1, DataFrame
<1>3. ASSUME NEW f \in Frames, NEW p \in Pages, NoNextPage(f, p)
      PROVE  DataInv'
  <2>1. /\ dma' = NONE /\ UNCHANGED <<page, data, work, rundown, tainted>> /\ lost' = lost \cup {p}
        /\ dma \in {p, NONE}
    BY <1>3 DEF NoNextPage, Target
  <2>2. \A i \in DOMAIN work : work[i].page # NONE
    <3>1. \A i \in DOMAIN work : work[i] \in Jobs
      BY DEF TypeOK
    <3> QED
      BY <3>1, NoneAssumption DEF Jobs
  <2> QED
    BY <2>1, <2>2, DataFrame
<1>4. CASE UNCHANGED vars \/ \E p \in Pages : BDI_Free(p)
  <2>1. UNCHANGED <<dma, page, data, work, rundown, tainted, lost>>
    BY <1>4 DEF vars, devVars, BDI_Free
  <2> QED
    BY <2>1, DataFrame
<1> QED
  BY <1>1, <1>2, <1>3, <1>4, StoreData, EngineData, WaitData DEF Next, _fork

-----------------------------------------------------------------------------
\* A step of the engine or of the task writes to pages the user does not have, and
\* BDI_Wait to the page it hands over and the one behind it.
LEMMA HeldStable ==
  ASSUME IInv, Next, NEW p \in held \cap held'
  PROVE  data'[p] = data[p] /\ page'[p] = page[p]
<1> USE DEF IInv
<1>1. p \in Pages /\ data \in [Pages -> [Offsets -> Units]] /\ page \in [Pages -> PageFields]
  BY DEF TypeOK
<1>2. p \notin free \cup Announced(work) \cup Range(rundown) \cup lost /\ p # dma
  BY <1>1, NoneAssumption DEF OnePlace, Apart
<1>3. ASSUME UNCHANGED <<data, page>>
      PROVE  data'[p] = data[p] /\ page'[p] = page[p]
  BY <1>3
<1>4. ASSUME NEW f \in Frames, NEW x \in Pages, NEW q \in Pages \cup {NONE}, Store(f, x, q)
      PROVE  data'[p] = data[p] /\ page'[p] = page[p]
  <2>1. p # x /\ p # q
    BY <1>1, <1>2, <1>4, NoneAssumption DEF Store, Target
  <2>2. page'[p] = page[p]
    BY <1>1, <1>4, <2>1 DEF Store
  <2>3. data' = data \/ \E L : data' = [data EXCEPT ![x] = L]
    BY <1>4 DEF Store, _retire
  <2> QED
    BY <1>1, <2>1, <2>2, <2>3
<1>5. CASE Engine
  <2> DEFINE y == Head(work).page
             L == Laid(data[y], Head(work).off, Head(work).unit, Head(work).size)
  <2>1. y \notin held
    BY <1>5, ListTail DEF Engine, JobsBefore, TypeOK
  <2>2. page' = page /\ data' = [data EXCEPT ![y] = L]
    BY <1>5 DEF Engine
  <2> HIDE DEF y, L
  <2> QED
    BY <1>1, <2>1, <2>2
<1>6. CASE BDI_Wait
  <2> DEFINE y == Head(rundown)
             n == page[y].next
  <2>1. y \in Range(rundown)
    BY <1>6, TakeHead DEF BDI_Wait, TypeOK, OnePlace
  <2>2. p # y
    BY <1>2, <2>1
  <2>3. n \in {NONE, dma} \cup Announced(work) \cup Range(rundown) \cup lost
    BY <2>1 DEF NextBehind
  <2>4. p # n
    BY <1>1, <1>2, <2>3, NoneAssumption
  <2>5. _wait(y)
    BY <1>6 DEF BDI_Wait
  <2> HIDE DEF y
  <2>6. data' = [data EXCEPT ![y] = Completed(y)]
    BY <2>5 DEF _wait
  <2>7. page'[p] = page[p]
    BY <1>1, <2>2, <2>4, <2>5 DEF _wait
  <2> QED
    BY <1>1, <2>2, <2>6, <2>7
<1>7. CASE \/ \E f \in Frames : _discard(f) \/ NoPage(f) \/ \E x \in Pages : NoNextPage(f, x)
           \/ \E x \in Pages : BDI_Free(x)
  BY <1>3, <1>7 DEF _discard, NoPage, NoNextPage, BDI_Free
<1> QED
  BY <1>4, <1>5, <1>6, <1>7 DEF Next, _fork

LEMMA Gives ==
  ASSUME PageTakesFrame, TypeOK, OnePlace, NextBehind, JobsBefore, InOrder, Chain, DataInv, Next,
         NEW p \in held' \ held
  PROVE  /\ \/ page[p].seq = seen.seq + 1 /\ ~seen.last
            \/ page[p].seq = 0 /\ (page[p].first \/ page[p].err \/ seen.last)
         /\ page[p].err \/ p \in tainted \/
              \A o \in 0 .. page'[p].size - 1 : data'[p][o] = seen.unit + o + 1
<1>1. BDI_Wait
  <2>1. held' # held /\ ~(held' \subseteq held)
    OBVIOUS
  <2>2. ASSUME NEW f \in Frames, _fork(f)
        PROVE  held' = held
    <3>1. _discard(f) \/ NoPage(f) \/ (\E x \in Pages : NoNextPage(f, x)) => held' = held
      BY DEF _discard, NoPage, NoNextPage
    <3>2. \A x \in Pages, q \in Pages \cup {NONE} : Store(f, x, q) => held' = held
      BY DEF Store
    <3> QED
      BY <2>2, <3>1, <3>2 DEF _fork
  <2>3. ~Engine /\ ~\E x \in Pages : BDI_Free(x)
    BY <2>1 DEF Engine, BDI_Free
  <2> QED
    BY <2>1, <2>2, <2>3 DEF Next
<1>2. p = Head(rundown) /\ data' = [data EXCEPT ![p] = Completed(p)] /\ rundown # <<>>
  BY <1>1 DEF BDI_Wait, _wait
<1>3. p \in Pages /\ p \in Flying
  BY <1>1, <1>2, WaitGives
<1>4. page'[p].size = IF page[p].next = NONE THEN page[p].size ELSE PageSize
  BY <1>1, <1>2, WaitGives
<1>5. Earliest(p)
  BY <1>2, HeadEarliest
<1>6. Follows(seen.seq, seen.last, seen.unit, p)
  BY <1>3, <1>5 DEF Chain
<1>7. ASSUME ~page[p].err, p \notin tainted, NEW o \in 0 .. page'[p].size - 1
      PROVE  data'[p][o] = seen.unit + o + 1
  <2>1. page[p].size \in Nat /\ page'[p].size <= page[p].size /\ page'[p].size \in Nat
    BY <1>3, <1>4, FlyingPages, Sizes DEF DataInv, CarryOver
  <2>2. o \in 0 .. page[p].size - 1
    BY <2>1
  <2>3. Completed(p)[o] = Start(p) + o + 1
    BY <1>1, <1>2, <1>7, <2>2, WaitReads
  <2>4. Start(p) = seen.unit
    BY <1>6, <1>7 DEF Follows
  <2>5. data'[p] = Completed(p)
    BY <1>2, <1>3 DEF TypeOK
  <2> QED
    BY <2>3, <2>4, <2>5
<1> QED
  BY <1>6, <1>7 DEF Follows

LEMMA InitMore ==
  ASSUME Init
  PROVE  Filling /\ InOrder /\ Chain /\ DataInv
<1>1. /\ dma = NONE /\ rx = 0 /\ sequence = 0 /\ ~status /\ work = <<>> /\ rundown = <<>>
      /\ seen.unit = 0 /\ seen.last
  BY DEF Init
<1>2. DOMAIN work = {} /\ DOMAIN rundown = {} /\ Flying = {} /\ InUse = {} /\ Announcing = {}
  BY <1>1 DEF Flying, InUse, Announced, Announcing, Range
<1>3. Filling /\ InOrder
  BY <1>1, <1>2 DEF Filling, InOrder
<1>4. Ready(seen.seq, seen.last, seen.unit)
  BY <1>1 DEF Ready
<1>5. Chain
  BY <1>2, <1>4 DEF Chain
<1>6. DataInv
  BY <1>2 DEF DataInv, JobsRight, DataRight, CarriedIn, CarryOver
<1> QED
  BY <1>3, <1>5, <1>6

LEMMA InitInv ==
  ASSUME PageTakesFrame, Init
  PROVE  IInv
<1>1. Buffers
  <2>1. Fresh \in PageFields /\ 0 \in Units
    BY Sizes, MaxUnitsAssumption DEF Fresh, PageFields, Offsets, Units
  <2> HIDE DEF Fresh
  <2> QED
    BY <2>1 DEF Init, Buffers
<1>2. Queues /\ Rest
  <2>1. <<>> \in Seq(Jobs) /\ <<>> \in Seq(Pages) /\ DOMAIN <<>> = {}
    OBVIOUS
  <2>2. Queues
    BY <2>1 DEF Init, Queues
  <2>3. Rest
    <3>1. /\ free = Pages /\ status = FALSE /\ sequence = 0 /\ fails = 0 /\ discard = 0
          /\ stamped = {} /\ held = {} /\ rx = 0 /\ tainted = {} /\ lost = {}
      BY DEF Init
    <3>2. 0 \in Units
      BY MaxUnitsAssumption DEF Units
    <3> QED
      BY <3>1, <3>2 DEF Rest
  <2> QED
    BY <2>2, <2>3
<1>7. InBuffers
  <2>1. Fresh.ovflow = <<>> /\ Len(<<>>) = 0 /\ DOMAIN <<>> = {}
    BY DEF Fresh
  <2> QED
    BY <2>1, Sizes DEF Init, InBuffers
<1>3. Announced(work) = {} /\ Range(rundown) = {} /\ AnnouncedOnce(work) /\ IsInjective(rundown)
  BY DEF Init, Announced, AnnouncedOnce, Range, IsInjective
<1>4. OnePlace
  BY <1>3 DEF Init, OnePlace, Apart
<1>5. Announcing = {} /\ DOMAIN work = {} /\ DOMAIN rundown = {}
  BY DEF Init, Announcing
<1>6. NextBehind /\ JobsBefore
  BY <1>3, <1>5 DEF NextBehind, JobsBefore
<1> QED
  BY <1>1, <1>2, <1>4, <1>6, <1>7, TypeOKIs, InitMore DEF IInv

LEMMA Invariance == PageTakesFrame /\ Spec => []IInv
<1>1. PageTakesFrame /\ Init => IInv
  BY InitInv
<1>2. IInv /\ [Next]_vars => IInv'
  <2> SUFFICES ASSUME IInv, [Next]_vars
               PROVE  IInv'
    OBVIOUS
  <2>1. PageTakesFrame /\ PageTakesFrame'
    BY DEF IInv, PageTakesFrame
  <2> QED
    BY <2>1, PlaceStep, TypeStep, BehindStep, ChainStep, OrderStep, DataStep DEF IInv
<1> QED
  BY <1>1, <1>2, PTL DEF Spec

\* If the pages take the largest frame that the firmware sends (BDI_Open accepts
\* smaller ones, and then this is false), the page being filled is never full when a
\* frame comes; the frame, and what the engine moves, stay within the page_size +
\* SIZEOF_PPI_FRAME that BDI_Open allocated, and what _wait carries over to the next
\* page within its ovflow.
THEOREM TypeCorrect == PageTakesFrame /\ Spec => []TypeOK
<1>1. IInv => TypeOK
  BY DEF IInv
<1> QED
  BY <1>1, Invariance, PTL

\* A page is free, being filled, on its way to the user in one job or message, with
\* the user, or lost, and never two of these.
THEOREM PagesApart == PageTakesFrame /\ Spec => []PageInOnePlace
<1>1. IInv => PageInOnePlace
  BY OnePlaceIs DEF IInv
<1> QED
  BY <1>1, Invariance, PTL

\* While the user has a page, neither _fork nor the engine, which may still have
\* data to move into pages that were discarded, nor _wait, which writes into the
\* page behind the one it completes, touches it.
THEOREM HeldPagesStable == PageTakesFrame /\ Spec => UserPageStable
<1>1. IInv /\ [Next]_vars
        => [\A p \in held \cap held' : data'[p] = data[p] /\ page'[p] = page[p]]_vars
  BY HeldStable
<1> QED
  BY Invariance, <1>1, PTL DEF Spec, UserPageStable

\* The number, the flags of the frame and BDI_SEQ together tell the user of every
\* page that does not continue the one before: _fork resets device->sequence when
\* a frame starts, ends or fails, and marks the first page it completes after a
\* failure.
THEOREM NumbersTell == PageTakesFrame /\ Spec => SequenceTells
<1>1. IInv /\ [Next]_vars =>
        [\A p \in Given :
           \/ page[p].seq = seen.seq + 1 /\ ~seen.last
           \/ page[p].seq = 0 /\ (page[p].first \/ page[p].err \/ seen.last)]_vars
  BY Gives DEF IInv, Given
<1> QED
  BY Invariance, <1>1, PTL DEF Spec, SequenceTells

\* A page without BDI_SEQ begins with the unit behind the last one of the page
\* before, and every unit of it is in its place when BDI_Wait returns it: whether
\* _retire copied it, the engine moved it, or _wait carried it over.
THEOREM DataContinues == PageTakesFrame /\ Spec => NoSilentGap
<1>1. IInv /\ [Next]_vars =>
        [\A p \in Given : page[p].err \/ p \in tainted \/
           \A o \in 0 .. page'[p].size - 1 : data'[p][o] = seen.unit + o + 1]_vars
  BY Gives DEF IInv, Given
<1> QED
  BY Invariance, <1>1, PTL DEF Spec, NoSilentGap

=============================================================================
