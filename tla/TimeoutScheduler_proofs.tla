------------------------ MODULE TimeoutScheduler_proofs ------------------------
(* Proofs about TimeoutScheduler.                                           *)
EXTENDS TimeoutScheduler, SequenceTheorems, TLAPS

\* What unlinking index i leaves: one node less, the others in their order.
LEMMA WithoutProps ==
    ASSUME NEW S, NEW s \in Seq(S), NEW i \in 1 .. Len(s)
    PROVE  /\ Without(s, i) \in Seq(S)
           /\ Len(Without(s, i)) = Len(s) - 1
           /\ \A j \in 1 .. Len(s) - 1 :
                 Without(s, i)[j] = IF j < i THEN s[j] ELSE s[j + 1]
<1> DEFINE a == SubSeq(s, 1, i - 1)
           b == SubSeq(s, i + 1, Len(s))
<1>1. /\ a \in Seq(S) /\ Len(a) = i - 1
      /\ \A j \in 1 .. i - 1 : a[j] = s[j]
  OBVIOUS
<1>2. /\ b \in Seq(S) /\ Len(b) = Len(s) - i
      /\ \A j \in 1 .. Len(s) - i : b[j] = s[i + j]
  OBVIOUS
<1>3. Without(s, i) = a \o b
  BY DEF Without
<1> HIDE DEF a, b
<1>4. /\ a \o b \in Seq(S) /\ Len(a \o b) = Len(s) - 1
      /\ \A j \in 1 .. Len(s) - 1 :
            (a \o b)[j] = IF j <= Len(a) THEN a[j] ELSE b[j - Len(a)]
  <2>1. Len(a) + Len(b) = Len(s) - 1
    BY <1>1, <1>2
  <2>2. /\ a \o b \in Seq(S) /\ Len(a \o b) = Len(a) + Len(b)
        /\ \A j \in 1 .. Len(a) + Len(b) :
              (a \o b)[j] = IF j <= Len(a) THEN a[j] ELSE b[j - Len(a)]
    BY <1>1, <1>2, ConcatProperties, Zenon
  <2> QED
    BY <2>1, <2>2
<1>5. ASSUME NEW j \in 1 .. Len(s) - 1
      PROVE  (a \o b)[j] = IF j < i THEN s[j] ELSE s[j + 1]
  <2>1. CASE j < i
    BY <1>1, <1>4, <2>1
  <2>2. CASE ~(j < i)
    <3>1. (a \o b)[j] = b[j - Len(a)] /\ j - Len(a) = j - i + 1
      BY <1>1, <1>4, <2>2
    <3>2. j - i + 1 \in 1 .. Len(s) - i /\ i + (j - i + 1) = j + 1
      BY <2>2
    <3>3. b[j - i + 1] = s[j + 1]
      BY <1>2, <3>2
    <3> QED
      BY <2>2, <3>1, <3>3
  <2> QED
    BY <2>1, <2>2
<1> QED
  BY <1>3, <1>4, <1>5

\* What linking t at index i leaves.
LEMMA InsertedProps ==
    ASSUME NEW S, NEW s \in Seq(S), NEW i \in 1 .. Len(s) + 1, NEW t \in S
    PROVE  /\ Inserted(s, i, t) \in Seq(S)
           /\ Len(Inserted(s, i, t)) = Len(s) + 1
           /\ \A j \in 1 .. Len(s) + 1 :
                 Inserted(s, i, t)[j] =
                     IF j < i THEN s[j] ELSE IF j = i THEN t ELSE s[j - 1]
<1> DEFINE a == SubSeq(s, 1, i - 1)
           b == SubSeq(s, i, Len(s))
           m == a \o <<t>>
<1>1. /\ a \in Seq(S) /\ Len(a) = i - 1
      /\ \A j \in 1 .. i - 1 : a[j] = s[j]
  OBVIOUS
<1>2. /\ b \in Seq(S) /\ Len(b) = Len(s) - i + 1
      /\ \A j \in 1 .. Len(s) - i + 1 : b[j] = s[i + j - 1]
  OBVIOUS
<1> HIDE DEF a, b
<1>3. /\ m \in Seq(S) /\ Len(m) = i
      /\ \A j \in 1 .. i - 1 : m[j] = s[j]
      /\ m[i] = t
  BY <1>1
<1> HIDE DEF m
<1>4. /\ m \o b \in Seq(S) /\ Len(m \o b) = Len(s) + 1
      /\ \A j \in 1 .. Len(s) + 1 :
            (m \o b)[j] = IF j <= Len(m) THEN m[j] ELSE b[j - Len(m)]
  BY <1>2, <1>3, ConcatProperties
<1>5. ASSUME NEW j \in 1 .. Len(s) + 1
      PROVE  (m \o b)[j] = IF j < i THEN s[j] ELSE IF j = i THEN t ELSE s[j - 1]
  BY <1>2, <1>3, <1>4
<1>6. Inserted(s, i, t) = m \o b
  BY DEF Inserted, m, a, b
<1> QED
  BY <1>4, <1>5, <1>6

\* uint32_t addition and subtraction stay in range.
LEMMA TimeRange ==
    ASSUME NEW x \in AbsTime, NEW y \in AbsTime
    PROVE  AddTime(x, y) \in AbsTime /\ SubTime(x, y) \in AbsTime
  BY SchedulerAssumption DEF AbsTime, AddTime, SubTime

\* Rebasing two times leaves their distance alone.
LEMMA RebaseDistance ==
    ASSUME NEW x \in AbsTime, NEW y \in AbsTime, NEW z \in AbsTime
    PROVE  SubTime(SubTime(x, z), SubTime(y, z)) = SubTime(x, y)
  BY SchedulerAssumption DEF AbsTime, SubTime

\* The members of a sequence, by index.
LEMMA LinkedIndex ==
    ASSUME NEW S, NEW s \in Seq(S), NEW x
    PROVE  x \in Linked(s) <=> \E i \in 1 .. Len(s) : s[i] = x
  BY DEF Linked

\* Forgetting the times of the nodes outside l leaves those in l alone.
LEMMA TimesProps ==
    ASSUME NEW l \in Seq(Node), NEW a \in [Node -> AbsTime]
    PROVE  /\ TimesOf(l, a) \in [Node -> AbsTime]
           /\ \A x \in Linked(l) : x \in Node /\ TimesOf(l, a)[x] = a[x]
<1>1. 0 \in AbsTime
  BY SchedulerAssumption DEF AbsTime
<1>2. \A x \in Linked(l) : x \in Node
  BY LinkedIndex
<1> QED
  BY <1>1, <1>2 DEF TimesOf

\* What scheduler_start_timer_at_head guarantees when the dummy, if it is at the
\* head, is near: one dummy at most, and a running interrupt for what is linked.
LEMMA StartProps ==
    ASSUME NEW l \in Seq(Node), Distinct(l),
           \A i \in 2 .. Len(l) : l[i] # Dummy,
           NEW a \in [Node -> AbsTime], NEW b \in AbsTime, NEW ld \in 0 .. RtcMax,
           cnt \in 0 .. RtcMax,
           DummyNear(l, a, b),
           StartTimerAtHead(l, a, b, ld)
    PROVE  /\ list' \in Seq(Node) /\ Distinct(list')
           /\ \A i \in 2 .. Len(list') : list'[i] # Dummy
           /\ abs' \in [Node -> AbsTime] /\ last' \in AbsTime
           /\ load' \in 0 .. RtcMax /\ cnt' \in 0 .. RtcMax
           /\ ovf' \in BOOLEAN /\ running' \in BOOLEAN
           /\ \A x \in Node : x # Dummy =>
                 (x \in Linked(list') <=> x \in Linked(l))
           /\ list' # <<>> <=> l # <<>>
           /\ list' # <<>> => running' /\ ovf'
           /\ DummyNear(list', abs', last')
<1> DEFINE aa == TimesOf(l, a)
<1>0. aa \in [Node -> AbsTime] /\ (l # <<>> => aa[Head(l)] = a[Head(l)])
  <2>1. l # <<>> => Head(l) = l[1] /\ 1 \in 1 .. Len(l)
    OBVIOUS
  <2>2. l # <<>> => Head(l) \in Linked(l)
    BY <2>1, LinkedIndex
  <2> QED
    BY <2>2, TimesProps
<1>1. CASE l = <<>>
  <2>1. /\ list' = <<>> /\ abs' = aa /\ last' = 0 /\ load' = ld /\ cnt' = cnt
        /\ running' = FALSE /\ ovf' = FALSE
    BY <1>1 DEF StartTimerAtHead
  <2>2. 0 \in AbsTime
    BY SchedulerAssumption DEF AbsTime
  <2> QED
    BY <1>0, <1>1, <2>1, <2>2 DEF DummyNear
<1>2. CASE l # <<>>
  <2> DEFINE period == SubTime(a[Head(l)], b)
  <2>1. Head(l) = l[1] /\ l[1] \in Node /\ Len(l) \in Nat \ {0}
    BY <1>2
  <2>2. period \in AbsTime
    BY <2>1, TimeRange
  <2>3. CASE period > RtcMax
    <3>1. l[1] # Dummy
      BY <2>1, <2>2, <2>3, <1>2, SchedulerAssumption DEF DummyNear, AbsTime
    <3>2. /\ list' = <<Dummy>> \o l
          /\ abs' = [aa EXCEPT ![Dummy] = AddTime(b, RtcMax)]
          /\ last' = b /\ running' = TRUE /\ ovf' = TRUE
          /\ load' = 0 /\ cnt' = 0
      BY <1>2, <2>3, SchedulerAssumption DEF StartTimerAtHead
    <3>3. /\ list' \in Seq(Node) /\ Len(list') = Len(l) + 1
          /\ list'[1] = Dummy
          /\ \A i \in 2 .. Len(l) + 1 : list'[i] = l[i - 1]
      BY <3>2 DEF Node
    <3>4. \A i \in 1 .. Len(l) : l[i] # Dummy
      BY <3>1
    <3>5. Distinct(list') /\ \A i \in 2 .. Len(list') : list'[i] # Dummy
      <4>1. ASSUME NEW i \in 2 .. Len(list') PROVE list'[i] # Dummy
        BY <3>3, <3>4
      <4>2. ASSUME NEW i \in 1 .. Len(list'), NEW j \in 1 .. Len(list'),
                   list'[i] = list'[j], i <= j
            PROVE  i = j
        <5>1. CASE i = 1
          BY <3>3, <4>1, <4>2, <5>1
        <5>2. CASE i # 1
          <6>1. i - 1 \in 1 .. Len(l) /\ j - 1 \in 1 .. Len(l)
                /\ l[i - 1] = l[j - 1]
            BY <3>3, <4>2, <5>2
          <6> QED
            BY <6>1 DEF Distinct
        <5> QED
          BY <5>1, <5>2
      <4>3. \A i, j \in 1 .. Len(list') : list'[i] = list'[j] => i = j
        BY <3>3, <4>2
      <4> QED
        BY <4>1, <4>3 DEF Distinct
    <3>6. RtcMax \in AbsTime /\ AddTime(b, RtcMax) \in AbsTime
          /\ SubTime(AddTime(b, RtcMax), b) <= RtcMax
      BY SchedulerAssumption DEF AbsTime, AddTime, SubTime
    <3>7. DummyNear(list', abs', last') /\ abs' \in [Node -> AbsTime]
      BY <1>0, <3>2, <3>3, <3>6 DEF DummyNear, Node
    <3>8. \A x \in Node : x # Dummy => (x \in Linked(list') <=> x \in Linked(l))
      <4> SUFFICES ASSUME NEW x \in Node, x # Dummy
                   PROVE  x \in Linked(list') <=> x \in Linked(l)
        OBVIOUS
      <4>1. x \in Linked(list') <=> \E i \in 1 .. Len(list') : list'[i] = x
        BY <3>3, LinkedIndex
      <4>2. x \in Linked(l) <=> \E i \in 1 .. Len(l) : l[i] = x
        BY LinkedIndex
      <4>3. ASSUME NEW i \in 1 .. Len(l), l[i] = x
            PROVE  \E j \in 1 .. Len(list') : list'[j] = x
        <5>1. i + 1 \in 2 .. Len(l) + 1 /\ list'[i + 1] = x
          BY <3>3, <4>3, SMTT(30)
        <5> QED
          BY <3>3, <5>1, SMTT(30)
      <4>4. ASSUME NEW i \in 1 .. Len(list'), list'[i] = x
            PROVE  \E j \in 1 .. Len(l) : l[j] = x
        BY <3>3, <4>4, SMTT(30)
      <4> QED
        BY <4>1, <4>2, <4>3, <4>4
    <3>9. list' # <<>>
      BY <3>3
    <3> QED
      BY <1>2, <3>2, <3>3, <3>5, <3>7, <3>8, <3>9, SchedulerAssumption
  <2>4. CASE ~(period > RtcMax)
    <3>1. /\ list' = l /\ abs' = aa /\ last' = b
          /\ running' = TRUE /\ ovf' = TRUE
          /\ load' = RtcMax - period /\ cnt' = RtcMax - period
      BY <1>2, <2>4 DEF StartTimerAtHead
    <3>2. RtcMax - period \in 0 .. RtcMax
      BY <2>2, <2>4, SchedulerAssumption DEF AbsTime
    <3>3. DummyNear(list', abs', last')
      BY <1>0, <1>2, <3>1 DEF DummyNear
    <3> QED
      BY <1>0, <1>2, <3>1, <3>2, <3>3
  <2> QED
    BY <2>3, <2>4
<1> QED
  BY <1>1, <1>2

-----------------------------------------------------------------------------
(* The steps that leave both lists alone.                                  *)

\* If neither the lists nor what the timing invariants read of them change, the
\* parts of IndInv about the lists carry over.
LEMMA ListsUnchanged ==
    ASSUME IndInv, UNCHANGED <<list, queue, abs, last, running>>
    PROVE  LinkedOnce' /\ (running' => DummyNear(list', abs', last'))
  BY DEF IndInv, LinkedOnce, Distinct, DummyNear

LEMMA InitInv == Init => IndInv
<1> SUFFICES ASSUME Init PROVE IndInv
  OBVIOUS
<1>1. TypeOK
  <2>1. 0 \in AbsTime /\ 0 \in 0 .. RtcMax
        /\ 0 \in 0 .. AbsMod
    BY SchedulerAssumption DEF AbsTime
  <2>2. NoOp \in Op
    BY DEF NoOp, Op
  <2>3. <<>> \in Seq(Node) /\ <<>> \in Seq(Timer)
    OBVIOUS
  <2>4. abs \in [Node -> AbsTime] /\ due \in [Timer -> 0 .. AbsMod]
    BY <2>1 DEF Init
  <2> QED
    BY <2>1, <2>2, <2>3, <2>4 DEF Init, TypeOK
<1>2. LinkedOnce
  BY DEF Init, LinkedOnce, Distinct
<1> QED
  BY <1>1, <1>2 DEF Init, IndInv, OpOK, Unlinked, Enabled, Stopped, DummyNear, NoOp

LEMMA TickInv == IndInv /\ Tick => IndInv'
<1> SUFFICES ASSUME IndInv, Tick PROVE IndInv'
  OBVIOUS
<1>1. TypeOK'
  BY SchedulerAssumption DEF Tick, IndInv, TypeOK, schedVars, mainVars
<1> QED
  BY <1>1, ListsUnchanged
     DEF Tick, IndInv, OpOK, Unlinked, Enabled, Stopped, schedVars, mainVars

LEMMA IsrQuietInv == IndInv /\ (IsrClear \/ IsrNull) => IndInv'
<1> SUFFICES ASSUME IndInv, IsrClear \/ IsrNull PROVE IndInv'
  OBVIOUS
<1>1. TypeOK'
  BY DEF IsrClear, IsrNull, IndInv, TypeOK, schedVars, rtcVars, mainVars
<1> QED
  BY <1>1, ListsUnchanged DEF IsrClear, IsrNull, IndInv, OpOK, Unlinked, Enabled,
                              Stopped, schedVars, rtcVars, mainVars

\* create and a callback's reschedule enter the delete.
LEMMA CallInv ==
    ASSUME IndInv, NEW t \in Timer, NEW d \in Timeout,
           Create(t, d) \/ CallbackAgain(d)
    PROVE  IndInv'
<1>1. /\ UNCHANGED <<schedVars, rtcVars, isr, fault, tempIE, due>>
      /\ pc = "idle" /\ slow' = slow
      /\ pc' \in {"queueCheck", "listOff"}
      /\ pc' = "queueCheck" => list = <<>>
      /\ op'.kind \in {"create", "delete"} /\ op'.t \in Timer /\ op' \in Op
      /\ cb' \in Timer \cup {None}
  BY DEF Create, CallbackAgain, Call, EnterDelete, Op, Node, IndInv, TypeOK
<1>2. TypeOK'
  BY <1>1, SchedulerAssumption, SMTT(30) DEF IndInv, TypeOK, schedVars, rtcVars
<1>3. op.kind = "none"
  BY <1>1 DEF IndInv, OpOK
<1> QED
  BY <1>1, <1>2, <1>3, ListsUnchanged
     DEF IndInv, OpOK, Unlinked, Enabled, Stopped, schedVars, rtcVars, Linked

LEMMA DeleteInv ==
    ASSUME IndInv, NEW t \in Timer,
           Delete(t)
    PROVE  IndInv'
<1>1. /\ UNCHANGED <<schedVars, rtcVars, isr, fault, tempIE, due>>
      /\ pc = "idle" /\ slow' = slow
      /\ pc' \in {"queueCheck", "listOff"}
      /\ pc' = "queueCheck" => list = <<>>
      /\ op'.kind \in {"create", "delete"} /\ op'.t \in Timer /\ op' \in Op
      /\ cb' \in Timer \cup {None}
  BY DEF Delete, Call, EnterDelete, Op, Node, IndInv, TypeOK
<1>2. TypeOK'
  BY <1>1, SchedulerAssumption, SMTT(30) DEF IndInv, TypeOK, schedVars, rtcVars
<1>3. op.kind = "none"
  BY <1>1 DEF IndInv, OpOK
<1> QED
  BY <1>1, <1>2, <1>3, ListsUnchanged
     DEF IndInv, OpOK, Unlinked, Enabled, Stopped, schedVars, rtcVars, Linked

LEMMA MainQuietInv ==
    ASSUME IndInv,
           MaskForDelete \/ QueueCheck \/ FlushNext \/ CallNext \/ CallbackEnds
    PROVE  IndInv'
<1>1. CASE MaskForDelete
  <2>1. TypeOK'
    BY <1>1 DEF MaskForDelete, IndInv, TypeOK, schedVars
  <2> QED
    BY <1>1, <2>1, ListsUnchanged
       DEF MaskForDelete, IndInv, OpOK, Unlinked, Enabled, Stopped, schedVars
<1>2. CASE QueueCheck
  <2>1. TypeOK'
    BY <1>2 DEF QueueCheck, IndInv, TypeOK, schedVars, rtcVars
  <2> QED
    BY <1>2, <2>1, ListsUnchanged
       DEF QueueCheck, IndInv, OpOK, Unlinked, Enabled, Stopped, schedVars,
           rtcVars, Linked
<1>3. CASE FlushNext
  <2>1. op.kind = "flush"
    BY <1>3 DEF FlushNext, IndInv, OpOK
  <2>2. list # <<>> => Head(list) \in Node
    BY DEF IndInv, TypeOK
  <2>3. queue # <<>> => Head(queue) \in Node
    BY DEF IndInv, TypeOK, Node
  <2>4. TypeOK'
    <3>1. op' \in Op /\ pc' \in {"listOff", "queueCheck", "idle"}
      BY <1>3, <2>2, <2>3 DEF FlushNext, IndInv, TypeOK, NoOp, Op
    <3> QED
      BY <1>3, <3>1 DEF FlushNext, IndInv, TypeOK, schedVars, rtcVars
  <2>5. LinkedOnce' /\ (running' => DummyNear(list', abs', last'))
    BY <1>3, ListsUnchanged DEF FlushNext, schedVars
  <2>6. \/ /\ list # <<>> /\ pc' = "listOff"
           /\ op'.kind = "flush" /\ op'.t = Head(list)
        \/ /\ list = <<>> /\ queue # <<>> /\ pc' = "queueCheck"
           /\ op'.kind = "flush"
        \/ /\ list = <<>> /\ queue = <<>> /\ pc' = "idle"
           /\ op'.kind = "none"
    BY <1>3, <2>1 DEF FlushNext, IndInv, TypeOK, NoOp, Op
  <2>7. UNCHANGED <<list, queue, running, ovf, tempIE>> /\ pc = "flush"
    BY <1>3 DEF FlushNext, schedVars, rtcVars
  <2>8. OpOK' /\ Unlinked' /\ Enabled'
    BY <2>6, <2>7 DEF OpOK, Unlinked, Enabled, Linked
  <2>9. Stopped'
    BY <2>1, <2>6, <2>7 DEF IndInv, Stopped
  <2> QED
    BY <2>4, <2>5, <2>8, <2>9 DEF IndInv
<1>4. CASE CallNext
  <2>1. TypeOK'
    BY <1>4 DEF CallNext, IndInv, TypeOK, schedVars, rtcVars
  <2> QED
    BY <1>4, <2>1, ListsUnchanged
       DEF CallNext, IndInv, OpOK, Unlinked, Enabled, Stopped, schedVars, rtcVars
<1>5. CASE CallbackEnds
  <2>1. TypeOK'
    BY <1>5 DEF CallbackEnds, IndInv, TypeOK, schedVars, rtcVars
  <2> QED
    BY <1>5, <2>1, ListsUnchanged
       DEF CallbackEnds, IndInv, OpOK, Unlinked, Enabled, Stopped, schedVars, rtcVars
<1> QED
  BY <1>1, <1>2, <1>3, <1>4, <1>5

LEMMA FlushInv == IndInv /\ Flush => IndInv'
<1> SUFFICES ASSUME IndInv, Flush PROVE IndInv'
  OBVIOUS
<1>1. TypeOK'
  <2>1. op' \in Op
    BY DEF Flush, Op
  <2>2. last' \in AbsTime
    BY SchedulerAssumption DEF Flush, AbsTime
  <2> QED
    BY <2>1, <2>2 DEF Flush, IndInv, TypeOK
<1>2. LinkedOnce'
  BY DEF Flush, IndInv, LinkedOnce, Distinct
<1> QED
  BY <1>1, <1>2 DEF Flush, IndInv, OpOK, Unlinked, Enabled, Stopped

-----------------------------------------------------------------------------
(* The steps that change a list.                                           *)

\* Popping the head of a list without repetition.
LEMMA TailProps ==
    ASSUME NEW S, NEW s \in Seq(S), s # <<>>, Distinct(s)
    PROVE  /\ Head(s) \in S /\ Tail(s) \in Seq(S)
           /\ Len(Tail(s)) = Len(s) - 1
           /\ \A i \in 1 .. Len(s) - 1 : Tail(s)[i] = s[i + 1]
           /\ Distinct(Tail(s))
           /\ \A x : x \in Linked(Tail(s)) <=> x \in Linked(s) /\ x # Head(s)
           /\ Head(s) \in Linked(s)
<1>1. /\ Head(s) = s[1] /\ Head(s) \in S /\ Tail(s) \in Seq(S)
      /\ Len(s) \in Nat \ {0} /\ Len(Tail(s)) = Len(s) - 1
      /\ \A i \in 1 .. Len(s) - 1 : Tail(s)[i] = s[i + 1]
  OBVIOUS
<1>2. Distinct(Tail(s))
  BY <1>1 DEF Distinct
<1>3. ASSUME NEW x
      PROVE  x \in Linked(Tail(s)) <=> x \in Linked(s) /\ x # Head(s)
  <2>1. x \in Linked(Tail(s)) <=> \E i \in 1 .. Len(s) - 1 : s[i + 1] = x
    <3>1. x \in Linked(Tail(s)) <=> \E i \in 1 .. Len(Tail(s)) : Tail(s)[i] = x
      <4>1. Tail(s) \in Seq(S)
        BY <1>1
      <4> QED
        BY ONLY <4>1, LinkedIndex, Zenon
    <3> QED
      BY <1>1, <3>1
  <2>2. x \in Linked(s) <=> \E i \in 1 .. Len(s) : s[i] = x
    BY LinkedIndex
  <2>3. ASSUME NEW i \in 1 .. Len(s) - 1, s[i + 1] = x
        PROVE  x \in Linked(s) /\ x # Head(s)
    <3>1. i + 1 \in 1 .. Len(s) /\ i + 1 # 1 /\ 1 \in 1 .. Len(s)
      BY <1>1
    <3> QED
      BY <1>1, <2>2, <2>3, <3>1 DEF Distinct
  <2>4. ASSUME NEW i \in 1 .. Len(s), s[i] = x, x # Head(s)
        PROVE  x \in Linked(Tail(s))
    <3>1. i - 1 \in 1 .. Len(s) - 1 /\ (i - 1) + 1 = i
      BY <1>1, <2>4
    <3> QED
      BY <2>1, <2>4, <3>1
  <2> QED
    BY <2>1, <2>2, <2>3, <2>4
<1>4. Head(s) \in Linked(s)
  BY <1>1, LinkedIndex
<1> QED
  BY <1>1, <1>2, <1>3, <1>4

\* Unlinking from the middle of a list without repetition.
LEMMA WithoutLinked ==
    ASSUME NEW S, NEW s \in Seq(S), NEW k \in 1 .. Len(s), Distinct(s)
    PROVE  /\ Distinct(Without(s, k))
           /\ \A x : x \in Linked(Without(s, k)) <=> x \in Linked(s) /\ x # s[k]
<1> DEFINE w == Without(s, k)
<1>1. /\ w \in Seq(S) /\ Len(s) \in Nat /\ Len(w) = Len(s) - 1
      /\ \A j \in 1 .. Len(s) - 1 : w[j] = IF j < k THEN s[j] ELSE s[j + 1]
  <2>1. Len(s) \in Nat
    OBVIOUS
  <2> QED
    BY <2>1, WithoutProps, Zenon
<1> HIDE DEF w
<1>2. ASSUME NEW i \in 1 .. Len(w), NEW j \in 1 .. Len(w), w[i] = w[j]
      PROVE  i = j
  BY <1>1, <1>2 DEF Distinct
<1>3. ASSUME NEW x
      PROVE  x \in Linked(w) <=> x \in Linked(s) /\ x # s[k]
  <2>1. x \in Linked(w) <=> \E i \in 1 .. Len(s) - 1 : w[i] = x
    BY <1>1, LinkedIndex
  <2>2. x \in Linked(s) <=> \E i \in 1 .. Len(s) : s[i] = x
    BY LinkedIndex
  <2>3. ASSUME NEW i \in 1 .. Len(s) - 1, w[i] = x
        PROVE  x \in Linked(s) /\ x # s[k]
    <3>1. CASE i < k
      BY <1>1, <2>2, <2>3, <3>1 DEF Distinct
    <3>2. CASE i >= k
      <4>1. i + 1 \in 1 .. Len(s) /\ i + 1 # k /\ w[i] = s[i + 1]
        BY <1>1, <3>2
      <4> QED
        BY <2>2, <2>3, <4>1 DEF Distinct
    <3> QED
      BY <3>1, <3>2
  <2>4. ASSUME NEW i \in 1 .. Len(s), s[i] = x, x # s[k]
        PROVE  x \in Linked(w)
    <3>1. CASE i < k
      BY <1>1, <2>1, <2>4, <3>1
    <3>2. CASE i > k
      <4>1. i - 1 \in 1 .. Len(s) - 1 /\ w[i - 1] = s[i]
        BY <1>1, <3>2
      <4> QED
        BY <2>1, <2>4, <4>1
    <3> QED
      BY <2>4, <3>1, <3>2
  <2> QED
    BY <2>1, <2>2, <2>3, <2>4
<1> QED
  BY <1>2, <1>3 DEF Distinct, w

\* LinkedOnce, with the third conjunct by members.
Lists(l, q) ==
    /\ l \in Seq(Node) /\ q \in Seq(Timer)
    /\ Distinct(l) /\ Distinct(q)
    /\ \A x \in Linked(l) : x \notin Linked(q)
    /\ \A i \in 2 .. Len(l) : l[i] # Dummy

LEMMA ListsForm ==
    ASSUME NEW l \in Seq(Node), NEW q \in Seq(Timer)
    PROVE  (\A i \in 1 .. Len(l), j \in 1 .. Len(q) : l[i] # q[j])
           <=> \A x \in Linked(l) : x \notin Linked(q)
<1>1. \A x : x \in Linked(l) <=> \E i \in 1 .. Len(l) : l[i] = x
  BY LinkedIndex
<1>2. \A x : x \in Linked(q) <=> \E i \in 1 .. Len(q) : q[i] = x
  BY LinkedIndex
<1> QED
  BY <1>1, <1>2

LEMMA ListsOf == IndInv => Lists(list, queue)
  BY ListsForm DEF IndInv, TypeOK, LinkedOnce, Lists

LEMMA LinkedOnceOf == Lists(list', queue') => LinkedOnce'
<1> SUFFICES ASSUME Lists(list', queue') PROVE LinkedOnce'
  OBVIOUS
<1>1. \A i \in 1 .. Len(list'), j \in 1 .. Len(queue') : list'[i] # queue'[j]
  BY ListsForm DEF Lists
<1> QED
  BY <1>1 DEF Lists, LinkedOnce

LEMMA DueType ==
    ASSUME TypeOK, NEW s
    PROVE  DueOf(s) \in [Timer -> 0 .. AbsMod]
<1>1. 0 \in 0 .. AbsMod
  BY SchedulerAssumption
<1> QED
  BY <1>1 DEF DueOf, TypeOK

LEMMA IsrExpireInv == IndInv /\ IsrExpire => IndInv'
<1> SUFFICES ASSUME IndInv, IsrExpire PROVE IndInv'
  OBVIOUS
<1> DEFINE h == Head(list)
           t == Tail(list)
<1>1. Lists(list, queue) /\ TypeOK /\ list # <<>>
  BY ListsOf DEF IndInv, IsrExpire
<1>2. /\ h \in Node /\ t \in Seq(Node) /\ Distinct(t)
      /\ Len(t) = Len(list) - 1 /\ Len(list) \in Nat
      /\ \A i \in 1 .. Len(list) - 1 : t[i] = list[i + 1]
      /\ \A x : x \in Linked(t) <=> x \in Linked(list) /\ x # h
      /\ h \in Linked(list)
  BY <1>1, TailProps DEF Lists
<1>3. \A i \in 1 .. Len(t) : t[i] # Dummy
  BY <1>1, <1>2 DEF Lists
<1>4. DummyNear(t, abs, abs[h])
  <2>1. ASSUME t # <<>> PROVE Head(t) = t[1] /\ 1 \in 1 .. Len(t)
    <3> HIDE DEF t
    <3> QED
      BY <1>2, <2>1
  <2> QED
    BY <1>3, <2>1 DEF DummyNear
<1>5. StartTimerAtHead(t, abs, abs[h], 0)
  BY DEF IsrExpire
<1>6. abs \in [Node -> AbsTime] /\ abs[h] \in AbsTime /\ 0 \in 0 .. RtcMax
      /\ cnt \in 0 .. RtcMax
  BY <1>1, <1>2, SchedulerAssumption DEF TypeOK
<1> HIDE DEF h, t
<1>7. /\ list' \in Seq(Node) /\ Distinct(list')
      /\ \A i \in 2 .. Len(list') : list'[i] # Dummy
      /\ abs' \in [Node -> AbsTime] /\ last' \in AbsTime
      /\ load' \in 0 .. RtcMax /\ cnt' \in 0 .. RtcMax
      /\ ovf' \in BOOLEAN /\ running' \in BOOLEAN
      /\ \A x \in Node : x # Dummy => (x \in Linked(list') <=> x \in Linked(t))
      /\ list' # <<>> <=> t # <<>>
      /\ list' # <<>> => running' /\ ovf'
      /\ DummyNear(list', abs', last')
  BY <1>2, <1>3, <1>4, <1>5, <1>6, StartProps
<1>8. /\ queue' = IF h = Dummy THEN queue ELSE Append(queue, h)
      /\ due' = DueOf(t) /\ isr' = "clear"
      /\ UNCHANGED <<flag, fault, pc, op, tempIE, cb, slow>>
  BY DEF IsrExpire, EnqueueCallback, h, t, mainVars
<1>9. /\ queue' \in Seq(Timer) /\ Distinct(queue')
      /\ \A x : x \in Linked(queue') => x \in Linked(queue) \/ x = h
      /\ queue # <<>> => queue' # <<>>
  <2>1. CASE h = Dummy
    BY <1>1, <1>8, <2>1 DEF Lists
  <2>2. CASE h # Dummy
    <3>1. /\ queue \in Seq(Timer) /\ h \in Timer /\ Distinct(queue)
          /\ h \notin Linked(queue) /\ queue' = Append(queue, h)
      BY <1>1, <1>2, <1>8, <2>2 DEF Lists, Node
    <3>2. /\ queue' \in Seq(Timer) /\ Len(queue') = Len(queue) + 1
          /\ \A i \in 1 .. Len(queue) : queue'[i] = queue[i]
          /\ queue'[Len(queue) + 1] = h
          /\ Len(queue) \in Nat
      BY <3>1
    <3>3. \A i \in 1 .. Len(queue) : queue[i] # h
      BY <3>1, LinkedIndex
    <3>4. Distinct(queue')
      BY <3>1, <3>2, <3>3 DEF Distinct
    <3>5. \A x : x \in Linked(queue') <=> \E i \in 1 .. Len(queue') : queue'[i] = x
      BY <3>2, LinkedIndex
    <3>6. \A x : x \in Linked(queue) <=> \E i \in 1 .. Len(queue) : queue[i] = x
      BY <3>1, LinkedIndex
    <3>7. ASSUME NEW x, x \in Linked(queue')
          PROVE  x \in Linked(queue) \/ x = h
      <4>1. PICK i \in 1 .. Len(queue') : queue'[i] = x
        BY <3>5, <3>7
      <4> QED
        BY <3>2, <3>6, <4>1
    <3>8. queue' # <<>>
      BY <3>1
    <3> QED
      BY <3>2, <3>4, <3>7, <3>8
  <2> QED
    BY <2>1, <2>2
<1>10. \A x \in Timer : x \in Linked(list') => x \in Linked(list) /\ x # h
  BY <1>2, <1>7, SchedulerAssumption DEF Node
<1>11. Lists(list', queue')
  <2>1. ASSUME NEW x, x \in Linked(list'), x \in Linked(queue')
        PROVE  FALSE
    <3>1. x \in Timer
      <4>1. PICK i \in 1 .. Len(queue') : queue'[i] = x
        BY <1>9, <2>1, LinkedIndex
      <4> QED
        BY <1>9, <4>1
    <3> QED
      BY <1>1, <1>9, <1>10, <2>1, <3>1 DEF Lists
  <2> QED
    BY <1>7, <1>9, <2>1 DEF Lists
<1>12. TypeOK'
  BY <1>1, <1>7, <1>8, <1>9, DueType DEF TypeOK
<1>13. Unlinked'
  <2>1. op.t \in Timer /\ pc \in {"queueCheck", "queueOff", "queueFind", "unlinked", "insert"}
        => op.t \notin Linked(list')
    BY <1>10 DEF IndInv, Unlinked
  <2>2. pc \in {"unlinked", "insert"} => op.t \notin Linked(queue')
    <3>1. ASSUME pc \in {"unlinked", "insert"}, op.t \in Linked(queue')
          PROVE  FALSE
      <4>1. op.t = h
        BY <1>9, <3>1 DEF IndInv, Unlinked
      <4>2. op.t \in Timer
        <5>1. PICK i \in 1 .. Len(queue') : queue'[i] = op.t
          BY <1>9, <3>1, LinkedIndex
        <5> QED
          BY <1>9, <5>1
      <4> QED
        BY <1>2, <3>1, <4>1, <4>2 DEF IndInv, Unlinked
    <3> QED
      BY <3>1
  <2> QED
    BY <1>8, <2>1, <2>2 DEF Unlinked
<1>14. OpOK'
  BY <1>8, <1>9 DEF IndInv, OpOK
<1>15. Enabled' /\ Stopped'
  BY <1>1, <1>7, <1>8 DEF IndInv, Enabled, Stopped
<1> QED
  BY <1>7, <1>11, <1>12, <1>13, <1>14, <1>15, LinkedOnceOf DEF IndInv

LEMMA FindInListInv == IndInv /\ FindInList => IndInv'
<1> SUFFICES ASSUME IndInv, FindInList PROVE IndInv'
  OBVIOUS
<1>1. Lists(list, queue) /\ TypeOK /\ pc = "listFind" /\ op.kind # "none"
      /\ UNCHANGED <<queue, flag, isr, fault, op, tempIE, cb, slow>>
  BY ListsOf DEF IndInv, FindInList, OpOK
<1>2. CASE /\ list # <<>> /\ Head(list) = op.t
           /\ StartTimerAtHead(Tail(list), abs, last, load)
           /\ due' = DueOf(Tail(list)) /\ pc' = "unlinked"
  <2> DEFINE t == Tail(list)
  <2>1. /\ op.t \in Node /\ t \in Seq(Node) /\ Distinct(t)
        /\ Len(t) = Len(list) - 1 /\ Len(list) \in Nat
        /\ \A i \in 1 .. Len(list) - 1 : t[i] = list[i + 1]
        /\ \A x : x \in Linked(t) <=> x \in Linked(list) /\ x # op.t
        /\ op.t \in Linked(list)
    BY <1>1, <1>2, TailProps DEF Lists
  <2> HIDE DEF t
  <2>2. \A i \in 1 .. Len(t) : t[i] # Dummy
    BY <1>1, <2>1 DEF Lists
  <2>3. DummyNear(t, abs, last)
    <3>1. ASSUME t # <<>> PROVE Head(t) = t[1] /\ 1 \in 1 .. Len(t)
      BY <2>1, <3>1
    <3> QED
      BY <2>2, <3>1 DEF DummyNear
  <2>4. /\ list' \in Seq(Node) /\ Distinct(list')
        /\ \A i \in 2 .. Len(list') : list'[i] # Dummy
        /\ abs' \in [Node -> AbsTime] /\ last' \in AbsTime
        /\ load' \in 0 .. RtcMax /\ cnt' \in 0 .. RtcMax
        /\ ovf' \in BOOLEAN /\ running' \in BOOLEAN
        /\ \A x \in Node : x # Dummy => (x \in Linked(list') <=> x \in Linked(t))
        /\ list' # <<>> => running' /\ ovf'
        /\ DummyNear(list', abs', last')
    <3>1. StartTimerAtHead(t, abs, last, load)
      BY <1>2 DEF t
    <3>2. /\ abs \in [Node -> AbsTime] /\ last \in AbsTime
          /\ load \in 0 .. RtcMax /\ cnt \in 0 .. RtcMax
      BY <1>1 DEF TypeOK
    <3> QED
      BY <2>1, <2>2, <2>3, <3>1, <3>2, StartProps
  <2>5. \A x \in Timer : x \in Linked(list') => x \in Linked(list) /\ x # op.t
    BY <2>1, <2>4, SchedulerAssumption DEF Node
  <2>6. Lists(list', queue')
    <3>1. ASSUME NEW x, x \in Linked(list'), x \in Linked(queue)
          PROVE  FALSE
      <4>1. x \in Timer
        <5>1. PICK i \in 1 .. Len(queue) : queue[i] = x
          BY <1>1, <3>1, LinkedIndex DEF Lists
        <5> QED
          BY <1>1, <5>1 DEF Lists
      <4> QED
        BY <1>1, <2>5, <3>1, <4>1 DEF Lists
    <3> QED
      BY <1>1, <2>4, <3>1 DEF Lists
  <2>7. TypeOK'
    BY <1>1, <1>2, <2>4, DueType DEF TypeOK
  <2>8. Unlinked'
    BY <1>1, <1>2, <2>1, <2>5 DEF Unlinked, Lists
  <2>9. OpOK'
    BY <1>1, <1>2 DEF IndInv, OpOK
  <2>10. Enabled' /\ Stopped'
    BY <1>1, <1>2, <2>4 DEF Enabled, Stopped
  <2> QED
    BY <2>4, <2>6, <2>7, <2>8, <2>9, <2>10, LinkedOnceOf DEF IndInv
<1>3. ASSUME NEW k \in 2 .. Len(list), list[k] = op.t,
             list' = Without(list, k), abs' = TimesOf(list', abs), ovf' = TRUE,
             due' = DueOf(list'), pc' = "unlinked",
             UNCHANGED <<last, load, running, cnt>>
      PROVE  IndInv'
  <2>1. /\ k \in 1 .. Len(list) /\ Len(list) \in Nat /\ list # <<>>
        /\ op.t \in Node /\ op.t # Dummy /\ op.t \in Linked(list)
    BY <1>1, <1>3, LinkedIndex DEF Lists
  <2>2. /\ list' \in Seq(Node) /\ Len(list') = Len(list) - 1
        /\ \A j \in 1 .. Len(list) - 1 :
              list'[j] = IF j < k THEN list[j] ELSE list[j + 1]
        /\ Distinct(list')
        /\ \A x : x \in Linked(list') <=> x \in Linked(list) /\ x # op.t
    <3>1. list \in Seq(Node) /\ Distinct(list)
      BY <1>1 DEF Lists
    <3>2. Distinct(list')
          /\ \A x : x \in Linked(list') <=> x \in Linked(list) /\ x # op.t
      BY <1>3, <2>1, <3>1, WithoutLinked
    <3> QED
      BY <1>3, <2>1, <3>1, <3>2, WithoutProps
  <2>3. Lists(list', queue')
    <3>1. \A i \in 2 .. Len(list') : list'[i] # Dummy
      BY <1>1, <1>3, <2>1, <2>2 DEF Lists
    <3> QED
      BY <1>1, <2>2, <3>1 DEF Lists
  <2>4. list' # <<>> /\ Head(list') = Head(list)
    BY <1>3, <2>1, <2>2
  <2>5. TypeOK' /\ abs'[Head(list)] = abs[Head(list)]
    <3>1. abs \in [Node -> AbsTime]
      BY <1>1 DEF TypeOK
    <3>2. Head(list) \in Linked(list')
      BY <2>2, <2>4, TailProps
    <3>3. abs' \in [Node -> AbsTime] /\ abs'[Head(list)] = abs[Head(list)]
      BY <1>3, <2>2, <3>1, <3>2, TimesProps
    <3>4. due' \in [Timer -> 0 .. AbsMod]
      BY <1>1, <1>3, DueType
    <3> QED
      BY <1>1, <1>3, <2>2, <3>3, <3>4 DEF TypeOK
  <2>6. Unlinked'
    BY <1>1, <1>3, <2>1, <2>2 DEF Unlinked, Lists
  <2>7. OpOK'
    BY <1>1, <1>3 DEF IndInv, OpOK
  <2>8. Enabled'
    BY <1>1, <1>3, <2>1 DEF IndInv, Enabled
  <2>9. running
    <3>1. CASE op.kind = "flush"
      <4>1. op.t # Head(list)
        BY <1>1, <1>3, <2>1 DEF Lists, Distinct
      <4> QED
        BY <1>1, <2>1, <3>1, <4>1 DEF IndInv, Stopped, TypeOK
    <3>2. CASE op.kind # "flush"
      BY <2>1, <3>2 DEF IndInv, Enabled
    <3> QED
      BY <3>1, <3>2
  <2>10. Stopped' /\ DummyNear(list', abs', last')
    BY <1>3, <2>1, <2>4, <2>5, <2>9 DEF IndInv, Stopped, DummyNear
  <2> QED
    BY <2>3, <2>5, <2>6, <2>7, <2>8, <2>10, LinkedOnceOf DEF IndInv
<1>4. CASE /\ op.t \notin Linked(list)
           /\ ovf' = TRUE /\ pc' = "queueCheck"
           /\ UNCHANGED <<list, abs, last, load, running, cnt, due>>
  <2>1. TypeOK'
    BY <1>1, <1>4 DEF TypeOK
  <2>2. list # <<>> => Head(list) \in Linked(list)
    BY <1>1, TailProps DEF Lists
  <2> QED
    BY <1>1, <1>4, <2>1, <2>2, ListsUnchanged
       DEF IndInv, OpOK, Unlinked, Enabled, Stopped
<1> QED
  BY <1>2, <1>3, <1>4 DEF FindInList

LEMMA FindInQueueInv == IndInv /\ FindInQueue => IndInv'
<1> SUFFICES ASSUME IndInv, FindInQueue PROVE IndInv'
  OBVIOUS
<1>1. /\ Lists(list, queue) /\ TypeOK /\ queue # <<>>
      /\ pc = "queueFind" /\ pc' = "unlinked"
      /\ op.kind # "none"
      /\ UNCHANGED <<flag, isr, fault, op, tempIE, cb, slow, due>>
  BY ListsOf DEF IndInv, FindInQueue, OpOK
<1>2. list # <<>> => running
  BY <1>1 DEF IndInv, Enabled, Stopped
\* Whatever was removed, op.t is in the queue no more and nothing is added.
<1>3. /\ queue' \in Seq(Timer) /\ Distinct(queue')
      /\ \A x : x \in Linked(queue') => x \in Linked(queue)
      /\ op.t \notin Linked(queue')
  <2>1. queue \in Seq(Timer) /\ Distinct(queue)
    BY <1>1 DEF Lists
  <2>2. CASE Head(queue) = op.t /\ queue' = Tail(queue)
    BY <1>1, <2>1, <2>2, TailProps
  <2>3. ASSUME NEW k \in 2 .. Len(queue), queue[k] = op.t,
               queue' = Without(queue, k)
        PROVE  /\ queue' \in Seq(Timer) /\ Distinct(queue')
               /\ \A x : x \in Linked(queue') => x \in Linked(queue)
               /\ op.t \notin Linked(queue')
    <3>1. k \in 1 .. Len(queue)
      BY <2>1
    <3>2. Distinct(queue')
          /\ \A x : x \in Linked(queue') <=> x \in Linked(queue) /\ x # op.t
      BY <2>1, <2>3, <3>1, WithoutLinked
    <3>3. queue' \in Seq(Timer)
      BY <2>1, <2>3, <3>1, WithoutProps
    <3> QED
      BY <3>2, <3>3
  <2>4. CASE op.t \notin Linked(queue) /\ queue' = queue
    BY <2>1, <2>4
  <2> QED
    BY <2>2, <2>3, <2>4 DEF FindInQueue, schedVars
\* The running list is the one it was, but for a dummy put before it.
<1>4. /\ list' \in Seq(Node) /\ Distinct(list')
      /\ \A i \in 2 .. Len(list') : list'[i] # Dummy
      /\ abs' \in [Node -> AbsTime] /\ last' \in AbsTime
      /\ load' \in 0 .. RtcMax /\ cnt' \in 0 .. RtcMax
      /\ ovf' \in BOOLEAN /\ running' \in BOOLEAN
      /\ \A x \in Node : x # Dummy => (x \in Linked(list') <=> x \in Linked(list))
      /\ list' # <<>> => running' /\ ovf'
      /\ running' => DummyNear(list', abs', last')
  <2>1. CASE StartTimerAtHead(list, abs, last, load)
    <3>1. /\ list \in Seq(Node) /\ Distinct(list)
          /\ \A i \in 2 .. Len(list) : list[i] # Dummy
          /\ abs \in [Node -> AbsTime] /\ last \in AbsTime
          /\ load \in 0 .. RtcMax /\ cnt \in 0 .. RtcMax
      BY <1>1 DEF Lists, TypeOK
    <3>2. DummyNear(list, abs, last)
      BY <1>2 DEF IndInv, DummyNear
    <3> QED
      BY <2>1, <3>1, <3>2, StartProps
  <2>2. CASE UNCHANGED <<list, abs, last, load, running, cnt>> /\ ovf' = TRUE
    BY <1>1, <1>2, <2>2 DEF IndInv, Lists, TypeOK, DummyNear
  <2> QED
    BY <2>1, <2>2 DEF FindInQueue, schedVars
<1>5. Lists(list', queue')
  <2>1. ASSUME NEW x, x \in Linked(list'), x \in Linked(queue')
        PROVE  FALSE
    <3>1. PICK i \in 1 .. Len(queue') : queue'[i] = x
      BY <1>3, <2>1, LinkedIndex
    <3>2. x \in Timer
      BY <1>3, <3>1
    <3> QED
      BY <1>1, <1>3, <1>4, <2>1, <3>2, SchedulerAssumption DEF Lists, Node
  <2> QED
    BY <1>3, <1>4, <2>1 DEF Lists
<1>6. TypeOK'
  BY <1>1, <1>3, <1>4 DEF TypeOK
<1>7. Unlinked'
  BY <1>1, <1>3, <1>4, SchedulerAssumption DEF IndInv, Unlinked, Node
<1>8. OpOK' /\ Enabled' /\ Stopped'
  BY <1>1, <1>4 DEF IndInv, OpOK, Enabled, Stopped
<1> QED
  BY <1>4, <1>5, <1>6, <1>7, <1>8, LinkedOnceOf DEF IndInv

LEMMA UnlinkInv == IndInv /\ Unlink => IndInv'
<1> SUFFICES ASSUME IndInv, Unlink PROVE IndInv'
  OBVIOUS
<1>1. /\ Lists(list, queue) /\ TypeOK /\ pc = "unlinked"
      /\ op.kind # "none" /\ (op.kind \in {"create", "delete"} => op.t \in Timer)
      /\ UNCHANGED <<queue, abs, last, running, load, cnt, flag, isr, fault,
                     tempIE, cb, slow>>
      /\ list' = CutBehind(op.t, list) /\ due' = DueOf(list')
  BY ListsOf DEF IndInv, Unlink, OpOK
<1>2. \/ op.kind = "create" /\ ovf' = FALSE /\ pc' = "insert" /\ op' = op
      \/ op.kind = "flush" /\ ovf' = ovf /\ pc' = "flush" /\ op' = op
      \/ op.kind = "delete" /\ ovf' = ovf /\ pc' = "idle" /\ op' = NoOp
  BY DEF Unlink
<1>3. op.kind # "flush" => list' = list
  <2>1. op.kind # "flush" => op.t \in Timer
    BY <1>1, <1>2
  <2> QED
    BY <1>1, <2>1, SchedulerAssumption DEF CutBehind
<1>4. \/ list' = list
      \/ list # <<>> /\ Head(list) = Dummy /\ list' = <<Dummy>>
  BY <1>1 DEF CutBehind
<1>5. /\ Lists(list', queue') /\ (list' # <<>> => list # <<>>)
      /\ (running' => DummyNear(list', abs', last'))
  <2>1. CASE list' = list
    BY <1>1, <2>1 DEF IndInv, Lists, DummyNear
  <2>2. CASE list # <<>> /\ Head(list) = Dummy /\ list' = <<Dummy>>
    <3>1. /\ list' \in Seq(Node) /\ Len(list') = 1 /\ Distinct(list')
          /\ list' # <<>> /\ Head(list') = Dummy
      BY <2>2 DEF Node, Distinct
    <3>2. Dummy \in Linked(list) /\ \A x \in Linked(list') : x = Dummy
      <4>1. Dummy \in Linked(list)
        BY <1>1, <2>2, TailProps DEF Lists
      <4>2. ASSUME NEW x \in Linked(list') PROVE x = Dummy
        <5>1. PICK i \in 1 .. Len(list') : list'[i] = x
          BY <3>1, <4>2, LinkedIndex
        <5> QED
          BY <2>2, <3>1, <5>1
      <4> QED
        BY <4>1, <4>2
    <3>3. Lists(list', queue')
      BY <1>1, <3>1, <3>2 DEF Lists
    <3>4. running' => DummyNear(list', abs', last')
      BY <1>1, <2>2, <3>1 DEF IndInv, DummyNear
    <3> QED
      BY <2>2, <3>3, <3>4
  <2> QED
    BY <1>4, <2>1, <2>2
<1>6. TypeOK'
  <2>1. op' \in Op /\ ovf' \in BOOLEAN
    <3>1. NoOp \in Op
      BY DEF NoOp, Op
    <3> QED
      BY <1>1, <1>2, <3>1 DEF TypeOK
  <2>2. DueOf(list') \in [Timer -> 0 .. AbsMod]
    BY <1>1, DueType
  <2> QED
    BY <1>1, <1>2, <1>5, <2>1, <2>2 DEF TypeOK, Lists
<1>7. OpOK'
  BY <1>1, <1>2 DEF OpOK, NoOp
<1>8. Unlinked'
  BY <1>1, <1>2, <1>3 DEF IndInv, Unlinked
<1>9. Enabled'
  BY <1>1, <1>2, <1>3 DEF IndInv, Enabled, NoOp
<1>10. Stopped'
  BY <1>1, <1>2, <1>5 DEF IndInv, Stopped, NoOp
<1> QED
  BY <1>5, <1>6, <1>7, <1>8, <1>9, <1>10, LinkedOnceOf DEF IndInv

LEMMA TakeExpiredInv == IndInv /\ TakeExpired => IndInv'
<1> SUFFICES ASSUME IndInv, TakeExpired PROVE IndInv'
  OBVIOUS
<1>1. /\ Lists(list, queue) /\ TypeOK /\ queue # <<>> /\ op.kind = "none"
      /\ pc = "take" /\ pc' = "idle" /\ op' = op
  BY ListsOf DEF IndInv, TakeExpired, OpOK
<1>2. /\ queue' \in Seq(Timer) /\ Distinct(queue') /\ cb' \in Timer
      /\ \A x : x \in Linked(queue') => x \in Linked(queue)
  <2>1. queue \in Seq(Timer) /\ Distinct(queue)
    BY <1>1 DEF Lists
  <2> QED
    BY <1>1, <2>1, TailProps DEF TakeExpired
<1>3. Lists(list', queue')
  BY <1>1, <1>2 DEF TakeExpired, Lists
<1>4. TypeOK'
  BY <1>1, <1>2 DEF TakeExpired, TypeOK
<1> QED
  BY <1>1, <1>3, <1>4, LinkedOnceOf
     DEF TakeExpired, IndInv, OpOK, Unlinked, Enabled, Stopped, DummyNear

LEMMA MakeAbsoluteType ==
    ASSUME TypeOK, NEW d \in AbsTime
    PROVE  MakeAbsolute(d) \in AbsTime
<1> DEFINE e == IF running THEN SubTime(IF flag THEN RtcMax ELSE cnt, load) ELSE 0
<1>1. /\ last \in AbsTime /\ load \in AbsTime /\ cnt \in AbsTime
      /\ RtcMax \in AbsTime /\ 0 \in AbsTime
  BY SchedulerAssumption DEF TypeOK, AbsTime
<1>2. e \in AbsTime
  BY <1>1, TimeRange
<1>3. AddTime(d, last) \in AbsTime
  BY <1>1, TimeRange
<1> HIDE DEF e
<1>4. AddTime(AddTime(d, last), e) \in AbsTime
  BY <1>2, <1>3, TimeRange
<1> QED
  BY <1>4 DEF MakeAbsolute, e

\* sorted_insert on (possibly rebased) times a and base b.
LEMMA PlaceAtProps ==
    ASSUME IndInv, pc = "insert",
           NEW v \in AbsTime, NEW a \in [Node -> AbsTime], NEW b \in AbsTime,
           running => DummyNear(list, a, b),
           PlaceAt(v, a, b)
    PROVE  /\ list' \in Seq(Node) /\ Distinct(list')
           /\ \A i \in 2 .. Len(list') : list'[i] # Dummy
           /\ \A x \in Timer : x \in Linked(list') => x \in Linked(list) \/ x = op.t
           /\ abs' \in [Node -> AbsTime] /\ last' \in AbsTime
           /\ load' \in 0 .. RtcMax /\ cnt' \in 0 .. RtcMax
           /\ ovf' \in BOOLEAN /\ running' \in BOOLEAN /\ flag' \in BOOLEAN
           /\ running' /\ ovf'
           /\ DummyNear(list', abs', last')
<1>1. /\ Lists(list, queue) /\ TypeOK /\ op.kind = "create"
      /\ op.t \in Timer /\ op.t \in Node /\ op.t # Dummy
      /\ op.t \notin Linked(list)
      /\ (list # <<>> => running)
  BY ListsOf, SchedulerAssumption DEF IndInv, OpOK, Unlinked, Enabled, Node
<1>2. /\ list \in Seq(Node) /\ Len(list) \in Nat /\ Distinct(list)
      /\ \A i \in 2 .. Len(list) : list[i] # Dummy
      /\ \A i \in 1 .. Len(list) : list[i] # op.t
  BY <1>1, LinkedIndex DEF Lists
<1>3. [a EXCEPT ![op.t] = v] \in [Node -> AbsTime]
  BY <1>1
<1>4. PICK i \in 1 .. Len(list) + 1 :
        \/ /\ i = 1
           /\ flag' = FlagAtHead
           /\ StartTimerAtHead(PushHead(op.t, list), [a EXCEPT ![op.t] = v], b, 0)
        \/ /\ i > 1
           /\ list' = Inserted(list, i, op.t)
           /\ abs' = [a EXCEPT ![op.t] = v]
           /\ last' = b
           /\ ovf' = EnabledBehind
           /\ UNCHANGED <<flag, load, running, cnt>>
  BY DEF PlaceAt
<1>5. CASE /\ flag' = FlagAtHead
           /\ StartTimerAtHead(PushHead(op.t, list), [a EXCEPT ![op.t] = v], b, 0)
  <2> DEFINE r == IF list # <<>> /\ Head(list) = Dummy THEN Tail(list) ELSE list
             p == PushHead(op.t, list)
  <2>1. /\ r \in Seq(Node) /\ Distinct(r)
        /\ \A j \in 1 .. Len(r) : r[j] # Dummy /\ r[j] # op.t
        /\ \A x : x \in Linked(r) => x \in Linked(list)
    <3>1. CASE list # <<>> /\ Head(list) = Dummy
      <4>1. /\ Tail(list) \in Seq(Node) /\ Distinct(Tail(list))
            /\ Len(Tail(list)) = Len(list) - 1
            /\ \A j \in 1 .. Len(list) - 1 : Tail(list)[j] = list[j + 1]
            /\ \A x : x \in Linked(Tail(list)) => x \in Linked(list)
        BY <1>2, <3>1, TailProps
      <4> QED
        BY <1>2, <3>1, <4>1
    <3>2. CASE list = <<>>
      BY <1>2, <3>2
    <3>3. CASE list # <<>> /\ Head(list) # Dummy
      <4>1. Head(list) = list[1]
        BY <1>2, <3>3
      <4>2. \A j \in 1 .. Len(list) : list[j] # Dummy
        BY <1>2, <3>3, <4>1
      <4> QED
        BY <1>2, <3>3, <4>2
    <3> QED
      BY <3>1, <3>2, <3>3
  <2>2. p = <<op.t>> \o r
    BY DEF PushHead
  <2> HIDE DEF r, p
  <2>3. /\ p \in Seq(Node) /\ Len(p) = Len(r) + 1 /\ Len(r) \in Nat
        /\ p[1] = op.t
        /\ \A j \in 2 .. Len(r) + 1 : p[j] = r[j - 1]
    BY <1>1, <2>1, <2>2
  <2>4. /\ \A j \in 1 .. Len(p) : p[j] # Dummy
        /\ p # <<>> /\ Head(p) = op.t
    BY <1>1, <2>1, <2>3
  <2>5. Distinct(p)
    <3>1. ASSUME NEW j \in 1 .. Len(p), NEW k \in 1 .. Len(p), p[j] = p[k], j <= k
          PROVE  j = k
      <4>1. CASE j = 1 /\ k # 1
        <5>1. k - 1 \in 1 .. Len(r) /\ p[k] = r[k - 1]
          BY <2>3, <4>1
        <5> QED
          BY <2>1, <2>3, <3>1, <4>1, <5>1
      <4>2. CASE j # 1
        <5>1. j - 1 \in 1 .. Len(r) /\ k - 1 \in 1 .. Len(r) /\ r[j - 1] = r[k - 1]
          BY <2>3, <3>1, <4>2
        <5> QED
          BY <2>1, <5>1 DEF Distinct
      <4> QED
        BY <4>1, <4>2
    <3>2. \A j, k \in 1 .. Len(p) : p[j] = p[k] => j = k
      BY <2>3, <3>1
    <3> QED
      BY <3>2 DEF Distinct
  <2>6. \A x : x \in Linked(p) => x \in Linked(list) \/ x = op.t
    <3>1. ASSUME NEW x, x \in Linked(p), x # op.t
          PROVE  x \in Linked(list)
      <4>1. PICK j \in 1 .. Len(p) : p[j] = x
        BY <2>3, <3>1, LinkedIndex
      <4>2. j - 1 \in 1 .. Len(r) /\ r[j - 1] = x
        BY <2>3, <3>1, <4>1
      <4>3. x \in Linked(r)
        BY <2>1, <4>2, LinkedIndex
      <4> QED
        BY <2>1, <4>3
    <3> QED
      BY <3>1
  <2>7. DummyNear(p, [a EXCEPT ![op.t] = v], b)
    BY <1>1, <2>4 DEF DummyNear
  <2>8. StartTimerAtHead(p, [a EXCEPT ![op.t] = v], b, 0)
    BY <1>5 DEF p
  <2>9. cnt \in 0 .. RtcMax /\ 0 \in 0 .. RtcMax
    BY <1>1, SchedulerAssumption DEF TypeOK
  <2>10. /\ list' \in Seq(Node) /\ Distinct(list')
         /\ \A j \in 2 .. Len(list') : list'[j] # Dummy
         /\ abs' \in [Node -> AbsTime] /\ last' \in AbsTime
         /\ load' \in 0 .. RtcMax /\ cnt' \in 0 .. RtcMax
         /\ ovf' \in BOOLEAN /\ running' \in BOOLEAN
         /\ \A x \in Node : x # Dummy => (x \in Linked(list') <=> x \in Linked(p))
         /\ list' # <<>>
         /\ running' /\ ovf'
         /\ DummyNear(list', abs', last')
    <3>1. \A j \in 2 .. Len(p) : p[j] # Dummy
      BY <2>3, <2>4
    <3> QED
      BY <1>3, <2>3, <2>4, <2>5, <2>7, <2>8, <2>9, <3>1, StartProps
  <2>11. \A x \in Timer : x \in Linked(list') => x \in Linked(list) \/ x = op.t
    BY <2>6, <2>10, SchedulerAssumption DEF Node
  <2> QED
    BY <1>5, <2>10, <2>11 DEF FlagAtHead
<1>6. CASE /\ i > 1
           /\ list' = Inserted(list, i, op.t)
           /\ abs' = [a EXCEPT ![op.t] = v]
           /\ last' = b
           /\ ovf' = EnabledBehind
           /\ UNCHANGED <<flag, load, running, cnt>>
  <2>i. i \in 2 .. Len(list) + 1 /\ i \in 1 .. Len(list) + 1
    BY <1>2, <1>4, <1>6
  <2>1. /\ list' \in Seq(Node) /\ Len(list') = Len(list) + 1
        /\ \A j \in 1 .. Len(list) + 1 :
              list'[j] = IF j < i THEN list[j] ELSE IF j = i THEN op.t ELSE list[j - 1]
    <3>1. list \in Seq(Node) /\ op.t \in Node /\ i \in 1 .. Len(list) + 1
      BY <1>1, <1>2, <2>i
    <3>2. list' = Inserted(list, i, op.t)
      BY <1>6
    <3>3. /\ Inserted(list, i, op.t) \in Seq(Node)
          /\ Len(Inserted(list, i, op.t)) = Len(list) + 1
          /\ \A j \in 1 .. Len(list) + 1 :
                Inserted(list, i, op.t)[j] =
                    IF j < i THEN list[j] ELSE IF j = i THEN op.t ELSE list[j - 1]
      BY <3>1, InsertedProps
    <3> QED
      BY <3>2, <3>3
  <2>2. \A j \in 2 .. Len(list') : list'[j] # Dummy
    <3>1. ASSUME NEW j \in 2 .. Len(list') PROVE list'[j] # Dummy
      <4>1. CASE j < i
        BY <1>2, <2>i, <2>1, <3>1, <4>1
      <4>2. CASE j = i
        BY <1>1, <2>i, <2>1, <3>1, <4>2
      <4>3. CASE j > i
        <5>1. j - 1 \in 2 .. Len(list) /\ list'[j] = list[j - 1]
          BY <1>2, <2>i, <2>1, <3>1, <4>3
        <5> QED
          BY <1>2, <5>1
      <4> QED
        BY <1>2, <2>i, <2>1, <4>1, <4>2, <4>3
    <3> QED
      BY <3>1
  <2>3. Distinct(list')
    <3>1. ASSUME NEW j \in 1 .. Len(list'), NEW k \in 1 .. Len(list'), j < k,
                 list'[j] = list'[k]
          PROVE  FALSE
      <4> DEFINE old(n) == IF n < i THEN n ELSE n - 1
      <4>1. ASSUME NEW n \in 1 .. Len(list'), n # i
            PROVE  old(n) \in 1 .. Len(list) /\ list'[n] = list[old(n)]
        BY <1>2, <2>i, <2>1, <4>1
      <4>2. CASE j # i /\ k # i
        <5>1. /\ old(j) \in 1 .. Len(list) /\ old(k) \in 1 .. Len(list)
              /\ list[old(j)] = list[old(k)] /\ old(j) # old(k)
          BY <2>i, <3>1, <4>1, <4>2
        <5> QED
          BY <1>2, <5>1 DEF Distinct
      <4>3. CASE j = i
        <5>1. list'[j] = op.t /\ list'[k] = list[old(k)] /\ old(k) \in 1 .. Len(list)
          BY <2>i, <2>1, <3>1, <4>1, <4>3
        <5> QED
          BY <1>2, <3>1, <5>1
      <4>4. CASE k = i
        <5>1. list'[k] = op.t /\ list'[j] = list[old(j)] /\ old(j) \in 1 .. Len(list)
          BY <2>i, <2>1, <3>1, <4>1, <4>4
        <5> QED
          BY <1>2, <3>1, <5>1
      <4> QED
        BY <4>2, <4>3, <4>4
    <3>2. \A j, k \in 1 .. Len(list') : list'[j] = list'[k] => j = k
      BY <2>1, <3>1
    <3> QED
      BY <3>2 DEF Distinct
  <2>4. ASSUME NEW x \in Timer, x \in Linked(list'), x # op.t
        PROVE  x \in Linked(list)
    <3>1. PICK j \in 1 .. Len(list') : list'[j] = x
      BY <2>1, <2>4, LinkedIndex
    <3>2. \E k \in 1 .. Len(list) : list[k] = x
      <4>1. CASE j < i
        BY <1>2, <2>i, <2>1, <3>1, <4>1
      <4>2. CASE j > i
        <5>1. j - 1 \in 1 .. Len(list) /\ list[j - 1] = x
          BY <1>2, <2>i, <2>1, <3>1, <4>2
        <5> QED
          BY <5>1
      <4>3. CASE j = i
        BY <1>2, <2>i, <2>1, <2>4, <3>1, <4>3
      <4> QED
        BY <1>2, <2>i, <2>1, <4>1, <4>2, <4>3
    <3> QED
      BY <1>2, <3>2, LinkedIndex
  <2>5. list # <<>> /\ running
    BY <1>1, <1>2, <2>i
  <2>6. list' # <<>> /\ Head(list') = Head(list)
    <3>1. list' # <<>> /\ Head(list') = list'[1] /\ Head(list) = list[1]
      BY <1>2, <2>1, <2>5
    <3> QED
      BY <1>2, <2>i, <2>1, <3>1
  <2>7. DummyNear(list', abs', last')
    BY <1>1, <1>6, <2>5, <2>6 DEF DummyNear, Node
  <2> QED
    BY <1>1, <1>3, <1>6, <2>1, <2>2, <2>3, <2>4, <2>5, <2>7 DEF EnabledBehind, TypeOK
<1> QED
  BY <1>4, <1>5, <1>6

LEMMA InsertInv == IndInv /\ Insert => IndInv'
<1> SUFFICES ASSUME IndInv, Insert PROVE IndInv'
  OBVIOUS
<1> DEFINE now == MakeAbsolute(0)
           v   == MakeAbsolute(op.d)
           w   == AddTime(v, AddTime(SubTime(RtcMax, now), 1))
<1>1. /\ Lists(list, queue) /\ TypeOK /\ pc = "insert" /\ pc' = "idle"
      /\ op.kind = "create" /\ op.t \in Timer /\ op.t \notin Linked(queue)
      /\ op' = NoOp /\ op.d \in AbsTime /\ op.d \in 0 .. AbsMod
      /\ due' = [due EXCEPT ![op.t] = IF slow THEN 0 ELSE op.d]
      /\ UNCHANGED <<queue, isr, fault, tempIE, cb, slow>>
  <2>1. op.d \in AbsTime /\ op.d \in 0 .. AbsMod
    <3>1. op.d \in Timeout \cup {0}
      BY DEF IndInv, TypeOK, Op
    <3>2. 0 \in AbsTime /\ Timeout \subseteq AbsTime
      BY SchedulerAssumption DEF AbsTime
    <3>3. op.d \in AbsTime
      BY <3>1, <3>2
    <3> QED
      BY <3>3, SchedulerAssumption DEF AbsTime
  <2> QED
    BY <2>1, ListsOf DEF IndInv, Insert, OpOK, Unlinked
<1>2. /\ now \in AbsTime /\ v \in AbsTime /\ w \in AbsTime
      /\ SubTime(last, now) \in AbsTime /\ Rebased(now) \in [Node -> AbsTime]
  <2>1. 0 \in AbsTime /\ 1 \in AbsTime /\ RtcMax \in AbsTime
    BY SchedulerAssumption DEF AbsTime
  <2>2. now \in AbsTime /\ v \in AbsTime
    BY <1>1, <2>1, MakeAbsoluteType
  <2> HIDE DEF now, v
  <2>3. SubTime(RtcMax, now) \in AbsTime
    BY <2>1, <2>2, TimeRange
  <2>4. AddTime(SubTime(RtcMax, now), 1) \in AbsTime
    BY <2>1, <2>3, TimeRange
  <2>5. w \in AbsTime
    BY <2>2, <2>4, TimeRange
  <2>6. SubTime(last, now) \in AbsTime
    BY <1>1, <2>2, TimeRange DEF TypeOK
  <2>7. Rebased(now) \in [Node -> AbsTime]
    BY <1>1, <2>2, TimeRange DEF Rebased, TypeOK
  <2> QED
    BY <2>2, <2>5, <2>6, <2>7
\* Rebasing moves the dummy and the base together.
<1>3. running => DummyNear(list, abs, last) /\ DummyNear(list, Rebased(now), SubTime(last, now))
  <2>1. running => DummyNear(list, abs, last)
    BY DEF IndInv
  <2> HIDE DEF now
  <2>2. ASSUME running, list # <<>>, Head(list) = Dummy
        PROVE  SubTime(Rebased(now)[Dummy], SubTime(last, now)) <= RtcMax
    <3>1. Dummy \in Linked(list) /\ Dummy \in Node
      BY <1>1, <2>2, TailProps DEF Lists, Node
    <3>2. Rebased(now)[Dummy] = SubTime(abs[Dummy], now)
      BY <3>1 DEF Rebased
    <3>3. abs[Dummy] \in AbsTime /\ last \in AbsTime
      BY <1>1, <3>1 DEF TypeOK
    <3>4. SubTime(Rebased(now)[Dummy], SubTime(last, now)) = SubTime(abs[Dummy], last)
      BY <1>2, <3>2, <3>3, RebaseDistance
    <3> QED
      BY <2>1, <2>2, <3>4 DEF DummyNear
  <2> QED
    BY <2>1, <2>2 DEF DummyNear
<1>4. PlaceAt(v, abs, last) \/ PlaceAt(w, Rebased(now), SubTime(last, now))
  BY DEF Insert
<1>5. abs \in [Node -> AbsTime] /\ last \in AbsTime
  BY <1>1 DEF TypeOK
<1> HIDE DEF now, v, w
<1>6. /\ list' \in Seq(Node) /\ Distinct(list')
      /\ \A i \in 2 .. Len(list') : list'[i] # Dummy
      /\ \A x \in Timer : x \in Linked(list') => x \in Linked(list) \/ x = op.t
      /\ abs' \in [Node -> AbsTime] /\ last' \in AbsTime
      /\ load' \in 0 .. RtcMax /\ cnt' \in 0 .. RtcMax
      /\ ovf' \in BOOLEAN /\ running' \in BOOLEAN /\ flag' \in BOOLEAN
      /\ running' /\ ovf'
      /\ DummyNear(list', abs', last')
  <2>1. CASE PlaceAt(v, abs, last)
    BY <1>1, <1>2, <1>3, <1>5, <2>1, PlaceAtProps
  <2>2. CASE PlaceAt(w, Rebased(now), SubTime(last, now))
    BY <1>1, <1>2, <1>3, <2>2, PlaceAtProps
  <2> QED
    BY <1>4, <2>1, <2>2
<1>7. Lists(list', queue')
  <2>1. ASSUME NEW x, x \in Linked(list'), x \in Linked(queue)
        PROVE  FALSE
    <3>1. x \in Timer
      <4>1. PICK i \in 1 .. Len(queue) : queue[i] = x
        BY <1>1, <2>1, LinkedIndex DEF Lists
      <4> QED
        BY <1>1, <4>1 DEF Lists
    <3> QED
      BY <1>1, <1>6, <2>1, <3>1 DEF Lists
  <2> QED
    BY <1>1, <1>6, <2>1 DEF Lists
<1>8. TypeOK'
  <2>1. op' \in Op
    BY <1>1 DEF NoOp, Op
  <2>2. due' \in [Timer -> 0 .. AbsMod]
    <3>1. (IF slow THEN 0 ELSE op.d) \in 0 .. AbsMod
      BY <1>1, SchedulerAssumption
    <3> QED
      BY <1>1, <3>1 DEF TypeOK
  <2> QED
    BY <1>1, <1>6, <2>1, <2>2 DEF TypeOK
<1>9. OpOK' /\ Unlinked' /\ Enabled' /\ Stopped'
  BY <1>1, <1>6 DEF IndInv, OpOK, Unlinked, Enabled, Stopped, NoOp
<1> QED
  BY <1>6, <1>7, <1>8, <1>9, LinkedOnceOf DEF IndInv

-----------------------------------------------------------------------------
(* The results.                                                            *)

LEMMA NextInv == IndInv /\ [Next]_vars => IndInv'
<1> SUFFICES ASSUME IndInv, [Next]_vars PROVE IndInv'
  OBVIOUS
<1>1. CASE Tick
  BY <1>1, TickInv
<1>2. CASE IsrExpire \/ IsrClear \/ IsrNull
  BY <1>2, IsrExpireInv, IsrQuietInv
<1>3. ASSUME NEW t \in Timer, Delete(t) \/ \E d \in Timeout : Create(t, d)
      PROVE  IndInv'
  <2>1. CASE \E d \in Timeout : Create(t, d)
    BY <2>1, CallInv
  <2>2. CASE Delete(t)
    BY <2>2, DeleteInv
  <2> QED
    BY <1>3, <2>1, <2>2
<1>4. CASE Flush
  BY <1>4, FlushInv
<1>5. CASE CallNext \/ CallbackEnds
  BY <1>5, MainQuietInv
<1>6. ASSUME NEW d \in Timeout, CallbackAgain(d)
      PROVE  IndInv'
  <2>1. cb \in Timer
    BY <1>6 DEF CallbackAgain, IndInv, TypeOK
  <2> QED
    BY <1>6, <2>1, CallInv
<1>7. CASE MainStep
  BY <1>7, MainQuietInv, FindInListInv, FindInQueueInv, UnlinkInv, InsertInv,
     TakeExpiredInv DEF MainStep
<1>8. CASE UNCHANGED vars
  <2>1. TypeOK'
    BY <1>8 DEF vars, schedVars, rtcVars, mainVars, IndInv, TypeOK
  <2> QED
    BY <1>8, <2>1, ListsUnchanged
       DEF vars, schedVars, rtcVars, mainVars, IndInv, OpOK, Unlinked, Enabled, Stopped
<1> QED
  BY <1>1, <1>2, <1>3, <1>4, <1>5, <1>6, <1>7, <1>8 DEF Next

THEOREM Inductive == Spec => []IndInv
<1> QED
  BY InitInv, NextInv, PTL DEF Spec

\* For every set of timers, counter width, range of absolute times and sequence of
\* calls: the variables keep their types (rtc.c's statics and the RTC registers).
THEOREM TypeCorrect == Spec => []TypeOK
<1>1. IndInv => TypeOK
  BY DEF IndInv
<1> QED
  BY <1>1, Inductive, PTL

\* No node of rtc.c's lists is ever linked twice, whatever the interrupt does
\* between two accesses of create, delete, flush_all or call_next_callback.
THEOREM EveryNodeLinkedOnce == Spec => []LinkedOnce
<1>1. IndInv => LinkedOnce
  BY DEF IndInv
<1> QED
  BY <1>1, Inductive, PTL

\* rtc.c never forgets to enable the overflow interrupt: outside the masked
\* sections a non-empty list is being timed.
THEOREM NeverUnarmed == Spec => []Armed
<1>1. IndInv => Armed
  BY DEF IndInv, Armed, Masked, Enabled
<1> QED
  BY <1>1, Inductive, PTL

-----------------------------------------------------------------------------
(* Timing: the list in order of expiry, and no timer early.                *)

\* The members of a list of nodes have a time.
LEMMA MemberTime ==
    ASSUME NEW l \in Seq(Node), NEW a \in [Node -> AbsTime], NEW n \in Linked(l)
    PROVE  n \in Node /\ a[n] \in AbsTime /\ a[n] \in Int
<1>1. PICK i \in 1 .. Len(l) : l[i] = n
  BY LinkedIndex
<1> QED
  BY <1>1, SchedulerAssumption DEF AbsTime

\* Where nothing wraps the distance is the difference.
LEMMA Distance ==
    ASSUME NEW x \in AbsTime, NEW y \in AbsTime, y <= x
    PROVE  SubTime(x, y) = x - y /\ x - y \in Nat
  BY SchedulerAssumption DEF AbsTime, SubTime

\* scheduler_start_timer_at_head on a list in order: the order stays, the times
\* but the dummy's stay, and the counter runs over at the time of the head.
LEMMA StartTiming ==
    ASSUME NEW l \in Seq(Node), l # <<>>, \A i \in 2 .. Len(l) : l[i] # Dummy,
           NEW a \in [Node -> AbsTime], NEW b \in AbsTime, NEW ld,
           DummyNear(l, a, b), SortedFrom(l, a, b),
           StartTimerAtHead(l, a, b, ld)
    PROVE  /\ SortedFrom(list', abs', last')
           /\ last' = b /\ running' = TRUE /\ ovf' = TRUE
           /\ list' # <<>> /\ abs'[Head(list')] - b = RtcMax - load'
           /\ cnt' = load' /\ load' \in 0 .. RtcMax
           /\ \A n \in Linked(list') :
                 \/ n \in Linked(l) /\ abs'[n] = a[n]
                 \/ n = Dummy /\ abs'[n] - b = RtcMax
<1> DEFINE period == SubTime(a[Head(l)], b)
<1>1. Head(l) = l[1] /\ l[1] \in Node /\ Len(l) \in Nat \ {0}
  OBVIOUS
<1>2. l[1] \in Linked(l)
  BY <1>1, LinkedIndex
<1>3. /\ a[l[1]] \in AbsTime /\ b <= a[l[1]]
      /\ period = a[l[1]] - b /\ period \in Nat
  BY <1>1, <1>2, Distance DEF SortedFrom
<1>4. RtcMax \in Nat /\ b \in Int /\ a[l[1]] \in Int
  BY <1>3, SchedulerAssumption DEF AbsTime
<1> DEFINE aa == TimesOf(l, a)
<1>7. aa \in [Node -> AbsTime] /\ \A n \in Linked(l) : n \in Node /\ aa[n] = a[n]
  BY TimesProps
<1>5. CASE period > RtcMax
  <2>1. l[1] # Dummy
    BY <1>1, <1>3, <1>4, <1>5 DEF DummyNear
  <2>2. /\ list' = <<Dummy>> \o l
        /\ abs' = [aa EXCEPT ![Dummy] = AddTime(b, RtcMax)]
        /\ last' = b /\ running' = TRUE /\ ovf' = TRUE
        /\ load' = 0 /\ cnt' = 0
    BY <1>4, <1>5 DEF StartTimerAtHead
  <2>3. AddTime(b, RtcMax) = b + RtcMax
    BY <1>3, <1>4, <1>5, SchedulerAssumption DEF AddTime, AbsTime
  <2>4. /\ list' \in Seq(Node) /\ Len(list') = Len(l) + 1
        /\ list'[1] = Dummy
        /\ \A i \in 2 .. Len(l) + 1 : list'[i] = l[i - 1]
    BY <2>2 DEF Node
  <2>5. abs'[Dummy] = b + RtcMax /\ \A n \in Linked(l) : n # Dummy => abs'[n] = a[n]
    <3> HIDE DEF aa
    <3> QED
      BY <1>7, <2>2, <2>3 DEF Node
  <2>6. \A i \in 1 .. Len(l) : l[i] # Dummy
    BY <1>1, <2>1
  <2>7. \A n \in Linked(l) : abs'[n] = a[n] /\ b + RtcMax <= a[n] /\ a[n] \in Int
    <3>1. ASSUME NEW n \in Linked(l)
          PROVE  abs'[n] = a[n] /\ b + RtcMax <= a[n] /\ a[n] \in Int
      <4>1. PICK i \in 1 .. Len(l) : l[i] = n
        BY LinkedIndex
      <4>2. n \in Node /\ n # Dummy /\ a[n] \in Int
        BY <2>6, <4>1, MemberTime
      <4>3. a[l[1]] <= a[n]
        <5>1. CASE i = 1
          BY <1>4, <4>1, <5>1
        <5>2. CASE i # 1
          BY <1>1, <4>1, <5>2 DEF SortedFrom
        <5> QED
          BY <5>1, <5>2
      <4> QED
        BY <1>3, <1>4, <1>5, <2>5, <4>2, <4>3
    <3> QED
      BY <3>1
  <2>8. \A n \in Linked(list') : n = Dummy \/ n \in Linked(l)
    <3>1. ASSUME NEW n \in Linked(list') PROVE n = Dummy \/ n \in Linked(l)
      <4>1. PICK i \in 1 .. Len(list') : list'[i] = n
        BY <2>4, LinkedIndex
      <4>2. CASE i = 1
        BY <2>4, <4>1, <4>2
      <4>3. CASE i # 1
        <5>1. i - 1 \in 1 .. Len(l) /\ l[i - 1] = n
          BY <1>1, <2>4, <4>1, <4>3
        <5> QED
          BY <5>1, LinkedIndex
      <4> QED
        BY <4>2, <4>3
    <3> QED
      BY <3>1
  <2>9. ASSUME NEW i \in 1 .. Len(list'), NEW j \in 1 .. Len(list'), i < j
        PROVE  abs'[list'[i]] <= abs'[list'[j]]
    <3>1. j - 1 \in 1 .. Len(l) /\ list'[j] = l[j - 1]
      BY <1>1, <2>4, <2>9
    <3>2. l[j - 1] \in Linked(l)
      BY <3>1, LinkedIndex
    <3>3. CASE i = 1
      BY <2>4, <2>5, <2>7, <3>1, <3>2, <3>3
    <3>4. CASE i # 1
      <4>1. i - 1 \in 1 .. Len(l) /\ list'[i] = l[i - 1] /\ i - 1 < j - 1
        BY <1>1, <2>4, <2>9, <3>4
      <4>2. l[i - 1] \in Linked(l)
        BY <4>1, LinkedIndex
      <4>3. a[l[i - 1]] <= a[l[j - 1]]
        BY <3>1, <4>1 DEF SortedFrom
      <4> QED
        BY <2>7, <3>1, <3>2, <4>1, <4>2, <4>3
    <3> QED
      BY <3>3, <3>4
  <2>10. \A n \in Linked(list') : b <= abs'[n]
    BY <1>4, <2>5, <2>7, <2>8
  <2>11. SortedFrom(list', abs', last')
    BY <2>2, <2>9, <2>10 DEF SortedFrom
  <2>12. list' # <<>> /\ Head(list') = Dummy
    BY <2>4
  <2> QED
    BY <1>4, <2>2, <2>5, <2>7, <2>8, <2>11, <2>12
<1>6. CASE ~(period > RtcMax)
  <2>1. /\ list' = l /\ abs' = aa /\ last' = b /\ running' = TRUE /\ ovf' = TRUE
        /\ load' = RtcMax - period /\ cnt' = RtcMax - period
    BY <1>6 DEF StartTimerAtHead
  <2> HIDE DEF aa
  <2>2. abs'[Head(list')] - b = RtcMax - load' /\ load' \in 0 .. RtcMax
    BY <1>1, <1>2, <1>3, <1>4, <1>6, <1>7, <2>1
  <2>3. SortedFrom(list', abs', last')
    <3>1. \A n \in Linked(l) : b <= aa[n]
      BY <1>7 DEF SortedFrom
    <3>2. ASSUME NEW i \in 1 .. Len(l), NEW j \in 1 .. Len(l), i < j
          PROVE  aa[l[i]] <= aa[l[j]]
      <4>1. l[i] \in Linked(l) /\ l[j] \in Linked(l)
        BY LinkedIndex
      <4> QED
        BY <1>7, <3>2, <4>1 DEF SortedFrom
    <3> QED
      BY <2>1, <3>1, <3>2 DEF SortedFrom
  <2>4. \A n \in Linked(list') : n \in Linked(l) /\ abs'[n] = a[n]
    BY <1>7, <2>1
  <2> QED
    BY <2>1, <2>2, <2>3, <2>4
<1> QED
  BY <1>5, <1>6

\* The largest timeout a caller may pass, where there is one.
LEMMA LargestTimeout ==
    ASSUME NEW d \in {x \in Timeout : \A y \in Timeout : y <= x}
    PROVE  d \in Nat /\ \A y \in Timeout \cup {0} : y <= d
  BY SchedulerAssumption DEF AbsTime

\* A restart of the timers for a list l in order from base b keeps the timing
\* invariant: nothing has elapsed, and every timer has no more to go than l says.
LEMMA RestartTime ==
    ASSUME NEW l \in Seq(Node), \A i \in 2 .. Len(l) : l[i] # Dummy,
           NEW a \in [Node -> AbsTime], NEW b \in AbsTime, NEW ld,
           DummyNear(l, a, b), SortedFrom(l, a, b),
           StartTimerAtHead(l, a, b, ld),
           isr' = "clear" \/ ~flag',
           op'.kind # "flush" =>
               \A n \in Linked(l), d \in {x \in Timeout : \A y \in Timeout : y <= x} :
                   a[n] - b <= RtcMax + d,
           \A t \in Timer : t \in Linked(l) => due'[t] <= a[t] - b + 1,
           due' \in [Timer -> 0 .. AbsMod]
    PROVE  TimeInv'
<1>1. CASE l = <<>>
  <2>1. list' = <<>> /\ running' = FALSE
    BY <1>1 DEF StartTimerAtHead
  <2>2. \A n : n \notin Linked(list')
    BY <2>1 DEF Linked
  <2>3. SortedFrom(list', abs', last') /\ Near' /\ Timely'
    <3>1. Len(list') = 0
      BY <2>1
    <3> QED
      BY <2>2, <3>1 DEF SortedFrom, Near, Timely
  <2>4. Counting'
    BY <2>1 DEF Counting
  <2> QED
    BY <2>3, <2>4 DEF TimeInv
<1>2. CASE l # <<>>
  <2>1. /\ SortedFrom(list', abs', last')
        /\ last' = b /\ running' = TRUE /\ ovf' = TRUE
        /\ list' # <<>> /\ abs'[Head(list')] - b = RtcMax - load'
        /\ cnt' = load' /\ load' \in 0 .. RtcMax
        /\ \A n \in Linked(list') :
              \/ n \in Linked(l) /\ abs'[n] = a[n]
              \/ n = Dummy /\ abs'[n] - b = RtcMax
    BY <1>2, StartTiming
  <2>2. RtcMax \in Nat
    BY SchedulerAssumption
  <2>3. Near'
    <3>1. ASSUME op'.kind # "flush", NEW n \in Linked(list'),
                 NEW d \in {x \in Timeout : \A y \in Timeout : y <= x}
          PROVE  abs'[n] - last' <= RtcMax + d
      <4>1. d \in Nat
        BY LargestTimeout
      <4>2. CASE n \in Linked(l) /\ abs'[n] = a[n]
        BY <2>1, <3>1, <4>2
      <4>3. CASE n = Dummy /\ abs'[n] - b = RtcMax
        BY <2>1, <2>2, <4>1, <4>3
      <4> QED
        BY <2>1, <4>2, <4>3
    <3> QED
      BY <3>1 DEF Near
  <2>4. Counting'
    BY <2>1, <2>2 DEF Counting
  <2>5. Elapsed' = 0
    <3>1. cnt' - load' = 0
      <4>1. load' \in Int /\ cnt' = load'
        BY <2>1, <2>2
      <4>2. \A x \in Int : x - x = 0
        OBVIOUS
      <4> QED
        BY <4>1, <4>2, Zenon
    <3>2. ~(flag' /\ isr' = "off")
      OBVIOUS
    <3> QED
      BY <2>1, <3>1, <3>2, Zenon DEF Elapsed, Reached
  <2>6. Timely'
    <3>1. ASSUME NEW t \in Timer, t \in Linked(list')
          PROVE  due'[t] + Elapsed' <= abs'[t] - last' + 1
      <4>1. t # Dummy
        BY SchedulerAssumption
      <4>2. t \in Linked(l) /\ abs'[t] = a[t]
        BY <2>1, <3>1, <4>1
      <4>3. due'[t] \in Int
        BY SchedulerAssumption
      <4> QED
        BY <2>1, <2>5, <4>2, <4>3
    <3> QED
      BY <3>1 DEF Timely
  <2> QED
    BY <2>1, <2>3, <2>4, <2>6 DEF TimeInv
<1> QED
  BY <1>1, <1>2

\* With nothing to time the timing invariant holds.
LEMMA EmptyTime ==
    ASSUME list' = <<>>, running' = FALSE
    PROVE  TimeInv'
<1>1. \A n : n \notin Linked(list')
  BY DEF Linked
<1>2. Len(list') = 0
  OBVIOUS
<1>3. SortedFrom(list', abs', last') /\ Near' /\ Timely'
  BY <1>1, <1>2 DEF SortedFrom, Near, Timely
<1>4. Counting'
  BY DEF Counting
<1> QED
  BY <1>3, <1>4 DEF TimeInv

LEMMA OrderKept ==
    ASSUME TimeInv, UNCHANGED <<list, abs, last>>,
           op'.kind # "flush" => op.kind # "flush" \/ list = <<>>
    PROVE  SortedFrom(list', abs', last') /\ Near'
<1>1. SortedFrom(list', abs', last')
  BY DEF TimeInv, SortedFrom
<1>2. list = <<>> => \A n : n \notin Linked(list)
  BY DEF Linked
<1>3. Near'
  BY <1>2 DEF TimeInv, Near
<1> QED
  BY <1>1, <1>3

\* Steps that touch neither the list nor the counter.
LEMMA QuietTime ==
    ASSUME TimeInv, UNCHANGED <<list, abs, last, running, load, cnt, due>>,
           op'.kind # "flush" => op.kind # "flush" \/ list = <<>>,
           flag' /\ isr' = "off" <=> flag /\ isr = "off",
           Counting'
    PROVE  TimeInv'
<1>1. Elapsed' = Elapsed
  BY Zenon DEF Elapsed, Reached
<1>2. Timely'
  BY <1>1 DEF TimeInv, Timely
<1> QED
  BY <1>2, OrderKept DEF TimeInv

\* Elapsed, case by case.
LEMMA ElapsedCases ==
    ASSUME running
    PROVE  /\ Elapsed = Reached - load
           /\ flag /\ isr = "off" => Reached = RtcMax + 1
           /\ ~(flag /\ isr = "off") => Reached = cnt
<1>1. flag /\ isr = "off" => Reached = RtcMax + 1
  BY Zenon DEF Reached
<1>2. ~(flag /\ isr = "off") => Reached = cnt
  BY Zenon DEF Reached
<1>3. Elapsed = Reached - load
  BY Zenon DEF Elapsed
<1> QED
  BY <1>1, <1>2, <1>3, Zenon

LEMMA InitTime == Init => TimeInv
<1> SUFFICES ASSUME Init PROVE TimeInv
  OBVIOUS
<1>1. list = <<>> /\ running = FALSE /\ \A n : n \notin Linked(list)
  BY DEF Init, Linked
<1>2. Len(list) = 0
  BY <1>1
<1>3. SortedFrom(list, abs, last) /\ Near /\ Timely
  BY <1>1, <1>2 DEF SortedFrom, Near, Timely
<1>4. Counting
  BY <1>1 DEF Counting
<1> QED
  BY <1>3, <1>4 DEF TimeInv

\* A list that is being timed: what the invariants say of the counter, and of the
\* timers' distance from the head.
LEMMA TimedList ==
    ASSUME IndInv, TimeInv, list # <<>>
    PROVE  /\ list \in Seq(Node) /\ Head(list) = list[1] /\ 1 \in 1 .. Len(list)
           /\ abs \in [Node -> AbsTime] /\ last \in Int
           /\ Head(list) \in Linked(list)
           /\ \A n \in Linked(list) : abs[n] \in Int /\ last <= abs[n]
                                      /\ abs[Head(list)] <= abs[n]
<1>1. list \in Seq(Node) /\ abs \in [Node -> AbsTime] /\ last \in Int
      /\ SortedFrom(list, abs, last)
  BY DEF IndInv, TypeOK, TimeInv, AbsTime
<1>2. Head(list) = list[1] /\ 1 \in 1 .. Len(list) /\ Len(list) \in Nat
  BY <1>1
<1>3. Head(list) \in Linked(list)
  BY <1>1, <1>2, LinkedIndex
<1>4. ASSUME NEW n \in Linked(list)
      PROVE  abs[n] \in Int /\ last <= abs[n] /\ abs[Head(list)] <= abs[n]
  <2>1. PICK i \in 1 .. Len(list) : list[i] = n
    BY <1>1, LinkedIndex
  <2>2. abs[n] \in Int /\ last <= abs[n]
    BY <1>1, MemberTime DEF SortedFrom
  <2>3. CASE i = 1
    BY <1>2, <2>1, <2>2, <2>3
  <2>4. CASE i # 1
    BY <1>1, <1>2, <2>1, <2>2, <2>4 DEF SortedFrom
  <2> QED
    BY <2>2, <2>3, <2>4
<1> QED
  BY <1>1, <1>2, <1>3, <1>4

LEMMA TickTime == IndInv /\ TimeInv /\ Tick /\ ~slow' => TimeInv'
<1> SUFFICES ASSUME IndInv, TimeInv, Tick, ~slow' PROVE TimeInv'
  OBVIOUS
<1>1. /\ isr = "off" /\ ~Pending /\ ~Masked
      /\ cnt' = IF cnt = RtcMax THEN 0 ELSE cnt + 1
      /\ flag' = (flag \/ cnt = RtcMax)
      /\ due' = [t \in Timer |-> IF due[t] > 0 THEN due[t] - 1 ELSE 0]
      /\ UNCHANGED <<list, queue, abs, last, load, running, ovf, isr, pc, op>>
  BY DEF Tick, schedVars, mainVars
<1>2. list # <<>> => running
  BY <1>1 DEF IndInv, Enabled, Masked
<1>3. cnt \in 0 .. RtcMax /\ load \in 0 .. RtcMax /\ RtcMax \in Nat
      /\ running \in BOOLEAN /\ flag \in BOOLEAN /\ due \in [Timer -> 0 .. AbsMod]
  BY SchedulerAssumption DEF IndInv, TypeOK
<1>4. CASE ~running
  BY <1>1, <1>2, <1>3, <1>4, EmptyTime
<1>5. CASE running
  <2>1. pc \notin {"listFind", "queueFind", "insert"}
    BY <1>1 DEF Masked
  <2>2. list # <<>> /\ abs[Head(list)] - last = RtcMax - load /\ ovf /\ ~flag
    BY <1>1, <1>5, <2>1 DEF TimeInv, Counting, Pending
  <2>3. load <= cnt
    BY <1>5, <2>2 DEF TimeInv, Counting
  <2>4. Elapsed = cnt - load
    BY <1>5, <2>2, ElapsedCases
  <2>5. Elapsed' = cnt - load + 1 /\ (~flag' => load <= cnt')
    <3>1. CASE cnt = RtcMax
      <4>1. flag' = TRUE
        BY <1>1, <3>1
      <4>2. Elapsed' = cnt - load + 1
        <5>1. flag' /\ isr' = "off" /\ running'
          BY <1>1, <1>5, <4>1
        <5>2. Reached' = RtcMax + 1
          BY <5>1, Zenon DEF Reached
        <5>3. Elapsed' = Reached' - load'
          BY <5>1, Zenon DEF Elapsed
        <5>4. load' = load /\ load \in Int /\ RtcMax \in Int /\ cnt = RtcMax
          BY <1>1, <1>3, <3>1
        <5> QED
          BY ONLY <5>2, <5>3, <5>4
      <4> QED
        BY <4>1, <4>2
    <3>2. CASE cnt # RtcMax
      <4>1. flag' = FALSE /\ cnt' = cnt + 1
        BY <1>1, <2>2, <3>2
      <4>2. Elapsed' = cnt - load + 1
        <5>1. ~(flag' /\ isr' = "off") /\ running'
          BY <1>1, <1>5, <4>1
        <5>2. Reached' = cnt'
          BY <5>1, Zenon DEF Reached
        <5>3. Elapsed' = Reached' - load'
          BY <5>1, Zenon DEF Elapsed
        <5>4. load' = load /\ cnt' = cnt + 1 /\ load \in Int /\ cnt \in Int
          BY <1>1, <1>3, <4>1
        <5> QED
          BY ONLY <5>2, <5>3, <5>4
      <4>3. load <= cnt + 1
        BY <1>3, <2>3
      <4> QED
        BY <4>1, <4>2, <4>3
    <3> QED
      BY <3>1, <3>2
  <2>6. Timely'
    <3>1. ASSUME NEW t \in Timer, t \in Linked(list)
          PROVE  due'[t] + Elapsed' <= abs[t] - last + 1
      <4>1. due[t] + (cnt - load) <= abs[t] - last + 1
        BY <2>4, <3>1 DEF TimeInv, Timely
      <4>2. /\ abs[t] \in Int /\ last \in Int /\ abs[Head(list)] <= abs[t]
            /\ abs[Head(list)] \in Int
        BY <2>2, <3>1, TimedList
      <4>3. cnt - load <= abs[t] - last
        BY <1>3, <2>2, <4>2
      <4>4. due[t] \in Nat /\ due'[t] = IF due[t] > 0 THEN due[t] - 1 ELSE 0
        BY <1>1, <1>3, <3>1, SchedulerAssumption
      <4> QED
        BY <1>3, <2>5, <4>1, <4>2, <4>3, <4>4
    <3> QED
      BY <1>1, <3>1 DEF Timely
  <2>7. Counting'
    BY <1>1, <1>5, <2>2, <2>5 DEF Counting
  <2> QED
    BY <1>1, <2>6, <2>7, OrderKept DEF TimeInv
<1> QED
  BY <1>3, <1>4, <1>5

\* The interrupt routine up to the write that clears the flag.
LEMMA IsrExpireTime == IndInv /\ TimeInv /\ IsrExpire => TimeInv'
<1> SUFFICES ASSUME IndInv, TimeInv, IsrExpire PROVE TimeInv'
  OBVIOUS
<1> DEFINE h == Head(list)
           t == Tail(list)
<1>1. /\ Lists(list, queue) /\ TypeOK /\ list # <<>> /\ ovf /\ flag /\ isr = "off"
      /\ StartTimerAtHead(t, abs, abs[h], 0) /\ isr' = "clear"
      /\ due' = DueOf(t) /\ op' = op
  BY ListsOf DEF IndInv, IsrExpire, Pending, mainVars
<1>2. running
  BY <1>1 DEF IndInv, Enabled, Stopped
<1>3. /\ h \in Node /\ t \in Seq(Node) /\ Len(list) \in Nat
      /\ Len(t) = Len(list) - 1 /\ h = list[1]
      /\ \A i \in 1 .. Len(list) - 1 : t[i] = list[i + 1]
      /\ \A x : x \in Linked(t) <=> x \in Linked(list) /\ x # h
  BY <1>1, TailProps DEF Lists
<1>4. abs \in [Node -> AbsTime] /\ abs[h] \in AbsTime /\ abs[h] \in Int /\ last \in Int
      /\ RtcMax \in Nat /\ load \in 0 .. RtcMax /\ due \in [Timer -> 0 .. AbsMod]
  BY <1>1, <1>3, SchedulerAssumption DEF TypeOK, AbsTime
<1>5. /\ last <= abs[h] /\ abs[h] - last = RtcMax - load
      /\ \A n \in Linked(t) : abs[n] \in Int /\ abs[h] <= abs[n]
  BY <1>1, <1>2, <1>3, TimedList DEF TimeInv, Counting
<1>6. Elapsed = RtcMax + 1 - load
  <2>1. Elapsed = Reached - load /\ Reached = RtcMax + 1
    BY <1>1, <1>2, ElapsedCases
  <2> QED
    BY <1>4, <2>1
<1>7. due' \in [Timer -> 0 .. AbsMod]
  BY <1>1, DueType
<1> HIDE DEF h, t
<1>8. \A i \in 1 .. Len(t) : t[i] # Dummy
  BY <1>1, <1>3 DEF Lists
<1>9. DummyNear(t, abs, abs[h]) /\ \A i \in 2 .. Len(t) : t[i] # Dummy
  BY <1>3, <1>8 DEF DummyNear
<1>10. SortedFrom(t, abs, abs[h])
  <2>1. ASSUME NEW i \in 1 .. Len(t), NEW j \in 1 .. Len(t), i < j
        PROVE  abs[t[i]] <= abs[t[j]]
    <3>1. i + 1 \in 1 .. Len(list) /\ j + 1 \in 1 .. Len(list) /\ i + 1 < j + 1
          /\ t[i] = list[i + 1] /\ t[j] = list[j + 1]
      BY <1>3, <2>1
    <3> QED
      BY <3>1 DEF TimeInv, SortedFrom
  <2> QED
    BY <1>5, <2>1 DEF SortedFrom
<1>11. ASSUME op'.kind # "flush", NEW n \in Linked(t),
              NEW d \in {x \in Timeout : \A y \in Timeout : y <= x}
       PROVE  abs[n] - abs[h] <= RtcMax + d
  <2>1. abs[n] - last <= RtcMax + d
    BY <1>1, <1>3, <1>11 DEF TimeInv, Near
  <2>2. d \in Nat
    BY LargestTimeout
  <2> QED
    BY <1>4, <1>5, <2>1, <2>2
<1>12. ASSUME NEW x \in Timer, x \in Linked(t)
       PROVE  due'[x] <= abs[x] - abs[h] + 1
  <2>1. due'[x] = due[x] /\ x \in Linked(list)
    BY <1>1, <1>3, <1>12 DEF DueOf
  <2>2. due[x] + (RtcMax + 1 - load) <= abs[x] - last + 1
    BY <1>6, <2>1 DEF TimeInv, Timely
  <2>3. due[x] \in Int
    BY <1>4, SchedulerAssumption
  <2> QED
    BY <1>4, <1>5, <1>12, <2>1, <2>2, <2>3
<1> QED
  BY <1>1, <1>3, <1>4, <1>7, <1>9, <1>10, <1>11, <1>12, RestartTime

\* When main runs, no overflow is pending for a list.
LEMMA MainSees ==
    ASSUME IndInv, TimeInv, MainTurn, list # <<>>
    PROVE  /\ ~flag /\ isr = "off" /\ Elapsed \in 0 .. RtcMax
           /\ running => Elapsed = cnt - load
           /\ ~running => Elapsed = 0
<1>1. isr = "off" /\ ~(ovf /\ flag)
  BY DEF MainTurn, Pending
<1>2. cnt \in 0 .. RtcMax /\ load \in 0 .. RtcMax /\ RtcMax \in Nat
      /\ running \in BOOLEAN /\ flag \in BOOLEAN
  BY SchedulerAssumption DEF IndInv, TypeOK
<1>3. ~flag /\ (running => load <= cnt)
  BY <1>1, <1>2 DEF TimeInv, Counting
<1>4. CASE running
  <2>1. Elapsed = Reached - load /\ Reached = cnt
    BY <1>3, <1>4, ElapsedCases
  <2> QED
    BY <1>1, <1>2, <1>3, <1>4, <2>1
<1>5. CASE ~running
  <2>1. Elapsed = 0
    BY <1>5, Zenon DEF Elapsed
  <2> QED
    BY <1>1, <1>2, <1>3, <1>5, <2>1
<1> QED
  BY <1>2, <1>4, <1>5

LEMMA IsrQuietTime == IndInv /\ TimeInv /\ (IsrClear \/ IsrNull) => TimeInv'
<1> SUFFICES ASSUME IndInv, TimeInv, IsrClear \/ IsrNull PROVE TimeInv'
  OBVIOUS
<1>1. /\ UNCHANGED <<list, abs, last, running, load, cnt, due, ovf, pc, op>>
      /\ flag' /\ isr' = "off" <=> flag /\ isr = "off"
      /\ flag' => flag
  BY DEF IsrClear, IsrNull, schedVars, rtcVars, mainVars
<1>2. Counting'
  BY <1>1 DEF TimeInv, Counting
<1> QED
  BY <1>1, <1>2, QuietTime

\* The calls of main that change neither lists nor the interrupt's registers.
LEMMA CallsTime ==
    ASSUME IndInv, TimeInv,
           \/ \E t \in Timer : Delete(t) \/ \E d \in Timeout : Create(t, d)
           \/ \E d \in Timeout : CallbackAgain(d)
           \/ CallNext \/ CallbackEnds \/ QueueCheck \/ FlushNext
    PROVE  TimeInv'
<1>1. /\ UNCHANGED <<list, abs, last, running, load, cnt, due, ovf, flag, isr>>
      /\ pc \notin {"listFind", "queueFind", "insert"}
      /\ op'.kind # "flush" => op.kind # "flush" \/ list = <<>>
  BY DEF Delete, Create, CallbackAgain, Call, EnterDelete, CallNext, CallbackEnds,
         QueueCheck, FlushNext, NoOp, schedVars, rtcVars, IndInv, OpOK, TypeOK, Op
<1>2. Counting'
  BY <1>1 DEF TimeInv, Counting
<1> QED
  BY <1>1, <1>2, QuietTime

\* flush_all stops the timers: times stay in order from base 0, and no overflow
\* is pending.
LEMMA FlushTime == IndInv /\ TimeInv /\ Flush => TimeInv'
<1> SUFFICES ASSUME IndInv, TimeInv, Flush PROVE TimeInv'
  OBVIOUS
<1>1. /\ MainTurn /\ last' = 0 /\ running' = FALSE /\ op'.kind = "flush"
      /\ UNCHANGED <<list, abs, load, cnt, flag, isr, due>>
  BY DEF Flush, Call
<1>2. CASE list = <<>>
  BY <1>1, <1>2, EmptyTime
<1>3. CASE list # <<>>
  <2>1. ~flag /\ Elapsed \in 0 .. RtcMax
    BY <1>1, <1>3, MainSees
  <2>2. SortedFrom(list', abs', last')
    <3>1. ASSUME NEW n \in Linked(list) PROVE 0 <= abs[n]
      BY <3>1, MemberTime DEF IndInv, TypeOK, AbsTime
    <3> QED
      BY <1>1, <3>1 DEF TimeInv, SortedFrom
  <2>3. Timely'
    <3>1. ASSUME NEW t \in Timer, t \in Linked(list)
          PROVE  due[t] + 0 <= abs[t] - 0 + 1
      <4>1. due[t] + Elapsed <= abs[t] - last + 1
        BY <3>1 DEF TimeInv, Timely
      <4>2. due[t] \in Int /\ last \in Nat /\ abs[t] \in Int
        <5>1. due[t] \in Int
          BY <3>1 DEF IndInv, TypeOK
        <5>2. last \in Nat
          BY <3>1, SchedulerAssumption DEF IndInv, TypeOK, AbsTime
        <5>3. abs[t] \in Int
          BY <3>1, MemberTime DEF IndInv, TypeOK
        <5> QED
          BY <5>1, <5>2, <5>3
      <4>3. Elapsed \in Nat
        BY <2>1, SchedulerAssumption
      <4> QED
        BY <4>1, <4>2, <4>3
    <3>2. Elapsed' = 0
      BY <1>1, Zenon DEF Elapsed
    <3> QED
      BY <1>1, <3>1, <3>2 DEF Timely
  <2>4. Counting' /\ Near'
    BY <1>1, <2>1 DEF Counting, Near
  <2> QED
    BY <2>2, <2>3, <2>4 DEF TimeInv
<1> QED
  BY <1>2, <1>3

LEMMA MaskTime == IndInv /\ TimeInv /\ MaskForDelete => TimeInv'
<1> SUFFICES ASSUME IndInv, TimeInv, MaskForDelete PROVE TimeInv'
  OBVIOUS
<1>1. /\ UNCHANGED <<list, abs, last, running, load, cnt, due, flag, isr, op>>
      /\ MainTurn /\ pc' \in {"listFind", "queueFind"}
  BY DEF MaskForDelete, schedVars
<1>2. list # <<>> => ~flag
  BY <1>1, MainSees
<1>3. Counting'
  BY <1>1, <1>2 DEF TimeInv, Counting
<1> QED
  BY <1>1, <1>3, QuietTime

LEMMA TakeTime == IndInv /\ TimeInv /\ TakeExpired => TimeInv'
<1> SUFFICES ASSUME IndInv, TimeInv, TakeExpired PROVE TimeInv'
  OBVIOUS
<1>1. /\ UNCHANGED <<list, abs, last, running, load, cnt, due, flag, isr, op>>
      /\ MainTurn /\ ovf' = tempIE /\ pc = "take"
  BY DEF TakeExpired
<1>2. list # <<>> => ~flag /\ tempIE
  BY <1>1, MainSees DEF IndInv, OpOK, Enabled
<1>3. Counting'
  BY <1>1, <1>2 DEF TimeInv, Counting
<1> QED
  BY <1>1, <1>3, QuietTime

\* Nodes leave the list from behind its head.
LEMMA ShorterTime ==
    ASSUME IndInv, TimeInv, list # <<>>, list' # <<>>, Head(list') = Head(list),
           list' \in Seq(Node),
           \A n \in Linked(list') : n \in Linked(list) /\ abs'[n] = abs[n],
           \A i, j \in 1 .. Len(list') : i < j => abs[list'[i]] <= abs[list'[j]],
           UNCHANGED <<last, running, load, cnt, flag, isr>>,
           op'.kind = op.kind \/ op.kind # "flush",
           due' = DueOf(list'),
           running => (pc' \notin {"listFind", "queueFind", "insert"} => ovf')
                      /\ (flag /\ isr = "off" => ovf')
    PROVE  TimeInv'
<1>0. \A i \in 1 .. Len(list') : abs'[list'[i]] = abs[list'[i]]
  BY LinkedIndex
<1>1. SortedFrom(list', abs', last') /\ Near'
  <2>1. \A i, j \in 1 .. Len(list') : i < j => abs'[list'[i]] <= abs'[list'[j]]
    BY <1>0
  <2>2. \A n \in Linked(list') : last' <= abs'[n]
    BY DEF TimeInv, SortedFrom
  <2>3. Near'
    BY DEF TimeInv, Near
  <2> QED
    BY <2>1, <2>2, <2>3 DEF SortedFrom
<1>2. Counting'
  <2>1. abs'[Head(list')] = abs[Head(list)]
    <3>1. Head(list') = list'[1] /\ 1 \in 1 .. Len(list')
      OBVIOUS
    <3> QED
      BY <1>0, <3>1
  <2> QED
    BY <2>1 DEF TimeInv, Counting
<1>3. Timely'
  <2>1. Elapsed' = Elapsed
    BY Zenon DEF Elapsed, Reached
  <2>2. ASSUME NEW t \in Timer, t \in Linked(list')
        PROVE  due'[t] + Elapsed' <= abs'[t] - last' + 1
    <3>1. due'[t] = due[t] /\ t \in Linked(list) /\ abs'[t] = abs[t]
      BY <2>2 DEF DueOf
    <3>2. due[t] + Elapsed <= abs[t] - last + 1
      BY <3>1 DEF TimeInv, Timely
    <3> QED
      BY <2>1, <3>1, <3>2
  <2> QED
    BY <2>2 DEF Timely
<1> QED
  BY <1>1, <1>2, <1>3 DEF TimeInv

\* A timer has no more ticks to go than the list says from the base on.
LEMMA TimelyFromBase ==
    ASSUME IndInv, TimeInv, MainTurn, list # <<>>, NEW t \in Timer, t \in Linked(list)
    PROVE  due[t] <= abs[t] - last + 1 /\ due[t] \in Nat
<1>1. due[t] + Elapsed <= abs[t] - last + 1
  BY DEF TimeInv, Timely
<1>2. Elapsed \in Nat
  BY MainSees, SchedulerAssumption
<1>3. due[t] \in Nat
  <2>1. due[t] \in 0 .. AbsMod
    BY DEF IndInv, TypeOK
  <2> QED
    BY <2>1
<1>4. abs[t] \in Int /\ last \in Int
  BY MemberTime, SchedulerAssumption, SMTT(30) DEF IndInv, TypeOK, AbsTime
<1> QED
  BY <1>1, <1>2, <1>3, <1>4

LEMMA FindInListTime == IndInv /\ TimeInv /\ FindInList => TimeInv'
<1> SUFFICES ASSUME IndInv, TimeInv, FindInList PROVE TimeInv'
  OBVIOUS
<1>1. /\ Lists(list, queue) /\ TypeOK /\ pc = "listFind" /\ MainTurn
      /\ UNCHANGED <<flag, isr, op>>
  BY ListsOf DEF IndInv, FindInList
<1>2. CASE /\ list # <<>> /\ Head(list) = op.t
           /\ StartTimerAtHead(Tail(list), abs, last, load)
           /\ due' = DueOf(Tail(list)) /\ pc' = "unlinked"
  <2> DEFINE t == Tail(list)
  <2>1. /\ t \in Seq(Node) /\ Len(list) \in Nat /\ Len(t) = Len(list) - 1
        /\ \A i \in 1 .. Len(list) - 1 : t[i] = list[i + 1]
        /\ \A x : x \in Linked(t) => x \in Linked(list)
    BY <1>1, <1>2, TailProps DEF Lists
  <2>2. StartTimerAtHead(t, abs, last, load) /\ due' = DueOf(t)
    BY <1>2
  <2>3. due' \in [Timer -> 0 .. AbsMod]
    BY <1>1, <2>2, DueType
  <2> HIDE DEF t
  <2>4. \A i \in 1 .. Len(t) : t[i] # Dummy
    BY <1>1, <2>1 DEF Lists
  <2>5. DummyNear(t, abs, last)
    BY <2>1, <2>4 DEF DummyNear
  <2>6. SortedFrom(t, abs, last)
    <3>1. ASSUME NEW i \in 1 .. Len(t), NEW j \in 1 .. Len(t), i < j
          PROVE  abs[t[i]] <= abs[t[j]]
      <4>1. i + 1 \in 1 .. Len(list) /\ j + 1 \in 1 .. Len(list) /\ i + 1 < j + 1
            /\ t[i] = list[i + 1] /\ t[j] = list[j + 1]
        BY <2>1, <3>1
      <4> QED
        BY <4>1 DEF TimeInv, SortedFrom
    <3>2. \A n \in Linked(t) : last <= abs[n]
      BY <2>1 DEF TimeInv, SortedFrom
    <3> QED
      BY <3>1, <3>2 DEF SortedFrom
  <2>7. ASSUME NEW x \in Timer, x \in Linked(t)
        PROVE  due'[x] <= abs[x] - last + 1
    <3>1. due'[x] = due[x] /\ x \in Linked(list)
      BY <2>1, <2>2, <2>7 DEF DueOf
    <3> QED
      BY <1>1, <1>2, <3>1, TimelyFromBase
  <2>8. op'.kind # "flush" =>
            \A n \in Linked(t), d \in {x \in Timeout : \A y \in Timeout : y <= x} :
                abs[n] - last <= RtcMax + d
    BY <1>1, <2>1 DEF TimeInv, Near
  <2>9. ~flag'
    BY <1>1, <1>2, MainSees
  <2>10. abs \in [Node -> AbsTime] /\ last \in AbsTime
    BY <1>1 DEF TypeOK
  <2>11. \A i \in 2 .. Len(t) : t[i] # Dummy
    BY <2>1, <2>4
  <2> QED
    BY <2>1, <2>2, <2>3, <2>5, <2>6, <2>7, <2>8, <2>9, <2>10, <2>11, RestartTime
<1>3. ASSUME NEW k \in 2 .. Len(list), list[k] = op.t,
             list' = Without(list, k), abs' = TimesOf(list', abs), ovf' = TRUE,
             due' = DueOf(list'), pc' = "unlinked",
             UNCHANGED <<last, load, running, cnt>>
      PROVE  TimeInv'
  <2>1. k \in 1 .. Len(list) /\ Len(list) \in Nat /\ list # <<>>
    BY <1>1, <1>3 DEF Lists
  <2>2. /\ list' \in Seq(Node) /\ Len(list') = Len(list) - 1
        /\ \A j \in 1 .. Len(list) - 1 :
              list'[j] = IF j < k THEN list[j] ELSE list[j + 1]
        /\ \A x : x \in Linked(list') => x \in Linked(list)
    <3>1. list \in Seq(Node) /\ Distinct(list)
      BY <1>1 DEF Lists
    <3>2. \A x : x \in Linked(list') <=> x \in Linked(list) /\ x # list[k]
      BY <1>3, <2>1, <3>1, WithoutLinked
    <3> QED
      BY <1>3, <2>1, <3>1, <3>2, WithoutProps
  <2>3. list' # <<>> /\ Head(list') = Head(list)
    BY <1>3, <2>1, <2>2
  <2>4. ASSUME NEW i \in 1 .. Len(list'), NEW j \in 1 .. Len(list'), i < j
        PROVE  abs[list'[i]] <= abs[list'[j]]
    <3>1. CASE j < k
      <4>1. list'[i] = list[i] /\ list'[j] = list[j]
            /\ i \in 1 .. Len(list) /\ j \in 1 .. Len(list)
        BY <2>1, <2>2, <2>4, <3>1
      <4> QED
        BY <2>4, <4>1 DEF TimeInv, SortedFrom
    <3>2. CASE i < k /\ j >= k
      <4>1. list'[i] = list[i] /\ list'[j] = list[j + 1] /\ i < j + 1
            /\ i \in 1 .. Len(list) /\ j + 1 \in 1 .. Len(list)
        BY <2>1, <2>2, <2>4, <3>2
      <4> QED
        BY <4>1 DEF TimeInv, SortedFrom
    <3>3. CASE i >= k
      <4>1. list'[i] = list[i + 1] /\ list'[j] = list[j + 1] /\ i + 1 < j + 1
            /\ i + 1 \in 1 .. Len(list) /\ j + 1 \in 1 .. Len(list)
        BY <2>1, <2>2, <2>4, <3>3
      <4> QED
        BY <4>1 DEF TimeInv, SortedFrom
    <3> QED
      BY <2>1, <2>2, <2>4, <3>1, <3>2, <3>3
  <2>5. \A n \in Linked(list') : n \in Linked(list) /\ abs'[n] = abs[n]
    <3>1. abs \in [Node -> AbsTime]
      BY <1>1 DEF TypeOK
    <3> QED
      BY <1>3, <2>2, <3>1, TimesProps
  <2> QED
    BY <1>1, <1>3, <2>1, <2>2, <2>3, <2>4, <2>5, ShorterTime
<1>4. CASE /\ op.t \notin Linked(list)
           /\ ovf' = TRUE /\ pc' = "queueCheck"
           /\ UNCHANGED <<list, abs, last, load, running, cnt, due>>
  <2>1. Counting'
    BY <1>1, <1>4 DEF TimeInv, Counting
  <2> QED
    BY <1>1, <1>4, <2>1, QuietTime
<1> QED
  BY <1>2, <1>3, <1>4 DEF FindInList

LEMMA FindInQueueTime == IndInv /\ TimeInv /\ FindInQueue => TimeInv'
<1> SUFFICES ASSUME IndInv, TimeInv, FindInQueue PROVE TimeInv'
  OBVIOUS
<1>1. /\ Lists(list, queue) /\ TypeOK /\ pc = "queueFind" /\ pc' = "unlinked" /\ MainTurn
      /\ UNCHANGED <<flag, isr, op, due>>
  BY ListsOf DEF IndInv, FindInQueue
<1>2. CASE StartTimerAtHead(list, abs, last, load)
  <2>1. CASE list = <<>>
    BY <1>2, <2>1, EmptyTime DEF StartTimerAtHead
  <2>2. CASE list # <<>>
    <3>1. running
      BY <1>1, <2>2 DEF IndInv, Enabled, Stopped
    <3>2. ~flag'
      BY <1>1, <2>2, MainSees
    <3>3. /\ list \in Seq(Node) /\ \A i \in 2 .. Len(list) : list[i] # Dummy
          /\ abs \in [Node -> AbsTime] /\ last \in AbsTime
          /\ due' \in [Timer -> 0 .. AbsMod]
          /\ DummyNear(list, abs, last) /\ SortedFrom(list, abs, last)
      BY <1>1, <3>1 DEF IndInv, Lists, TypeOK, TimeInv
    <3>4. \A t \in Timer : t \in Linked(list) => due'[t] <= abs[t] - last + 1
      BY <1>1, <2>2, TimelyFromBase
    <3>5. op'.kind # "flush" =>
              \A n \in Linked(list), d \in {x \in Timeout : \A y \in Timeout : y <= x} :
                  abs[n] - last <= RtcMax + d
      BY <1>1 DEF TimeInv, Near
    <3> QED
      BY <1>2, <3>2, <3>3, <3>4, <3>5, RestartTime
  <2> QED
    BY <2>1, <2>2
<1>3. CASE UNCHANGED <<list, abs, last, load, running, cnt>> /\ ovf' = TRUE
  <2>1. Counting'
    BY <1>1, <1>3 DEF TimeInv, Counting
  <2> QED
    BY <1>1, <1>3, <2>1, QuietTime
<1> QED
  BY <1>2, <1>3 DEF FindInQueue, schedVars

LEMMA UnlinkTime == IndInv /\ TimeInv /\ Unlink => TimeInv'
<1> SUFFICES ASSUME IndInv, TimeInv, Unlink PROVE TimeInv'
  OBVIOUS
<1>1. /\ Lists(list, queue) /\ pc = "unlinked" /\ MainTurn
      /\ UNCHANGED <<abs, last, running, load, cnt, flag, isr>>
      /\ list' = CutBehind(op.t, list) /\ due' = DueOf(list')
  BY ListsOf DEF IndInv, Unlink
<1>2. \/ op.kind = "create" /\ ovf' = FALSE /\ pc' = "insert" /\ op' = op
      \/ op.kind = "flush" /\ ovf' = ovf /\ pc' = "flush" /\ op' = op
      \/ op.kind = "delete" /\ ovf' = ovf /\ pc' = "idle" /\ op' = NoOp
  BY DEF Unlink
<1>3. CASE list = <<>>
  <2>1. list' = <<>>
    BY <1>1, <1>3 DEF CutBehind
  <2>2. running = FALSE
    BY <1>3 DEF TimeInv, Counting, IndInv, TypeOK
  <2> QED
    BY <1>1, <2>1, <2>2, EmptyTime
<1>4. CASE list # <<>>
  <2>1. \/ list' = list
        \/ Head(list) = Dummy /\ list' = <<Dummy>>
    BY <1>1 DEF CutBehind
  <2>2. Head(list) \in Linked(list)
    BY <1>4, TimedList
  <2>3. /\ list' # <<>> /\ Head(list') = Head(list)
        /\ \A n \in Linked(list') : n \in Linked(list) /\ abs'[n] = abs[n]
        /\ \A i, j \in 1 .. Len(list') : i < j => abs[list'[i]] <= abs[list'[j]]
    <3>1. CASE list' = list
      BY <1>1, <1>4, <3>1 DEF TimeInv, SortedFrom
    <3>2. CASE Head(list) = Dummy /\ list' = <<Dummy>>
      BY <1>1, <2>2, <3>2 DEF Linked
    <3> QED
      BY <2>1, <3>1, <3>2
  <2>4. ~flag
    BY <1>1, <1>4, MainSees
  <2>5. op'.kind = op.kind \/ op.kind # "flush"
    BY <1>2
  <2>6. running => (pc' \notin {"listFind", "queueFind", "insert"} => ovf')
    BY <1>1, <1>2 DEF TimeInv, Counting
  <2>7. list' \in Seq(Node)
    <3>1. list \in Seq(Node) /\ <<Dummy>> \in Seq(Node)
      BY <1>1 DEF Lists, Node
    <3> QED
      BY <2>1, <3>1
  <2> QED
    BY <1>1, <1>4, <2>3, <2>4, <2>5, <2>6, <2>7, ShorterTime
<1> QED
  BY <1>3, <1>4

\* uint32_t sums of a timeout, a base and the ticks since then: they fit, or come
\* out below the base.
LEMMA SumFits ==
    ASSUME NEW d \in Nat, NEW b \in AbsTime, NEW e \in 0 .. RtcMax,
           d + RtcMax < AbsMod,
           AddTime(AddTime(d, b), e) >= b
    PROVE  AddTime(AddTime(d, b), e) = d + b + e
  BY SchedulerAssumption DEF AbsTime, AddTime

\* make_absolute in create, unless the sum wraps: the timeout from now on.
LEMMA Expiry ==
    ASSUME IndInv, TimeInv, MainTurn, pc = "insert", ~Wraps,
           \A d \in Timeout : d + RtcMax < AbsMod
    PROVE  /\ op.d \in Nat /\ Elapsed \in 0 .. RtcMax
           /\ MakeAbsolute(op.d) = op.d + last + Elapsed
           /\ \A d \in {x \in Timeout : \A y \in Timeout : y <= x} : op.d <= d
<1>1. RtcMax \in Nat /\ AbsMod \in Nat /\ RtcMax < AbsMod
      /\ cnt \in 0 .. RtcMax /\ load \in 0 .. RtcMax /\ last \in AbsTime
      /\ running \in BOOLEAN /\ flag \in BOOLEAN /\ op.d \in Timeout \cup {0}
  BY SchedulerAssumption DEF IndInv, TypeOK, Op
<1>2. op.d \in Nat /\ op.d + RtcMax < AbsMod /\ op.d \in AbsTime
  <2>1. CASE op.d \in Timeout
    <3>1. op.d \in AbsTime /\ op.d + RtcMax < AbsMod
      BY <2>1, SchedulerAssumption
    <3> QED
      BY <1>1, <3>1 DEF AbsTime
  <2>2. CASE op.d = 0
    BY <1>1, <2>2 DEF AbsTime
  <2> QED
    BY <1>1, <2>1, <2>2
<1>3. last <= MakeAbsolute(op.d)
  <2>1. MakeAbsolute(op.d) \in Int
    <3>1. TypeOK
      BY DEF IndInv
    <3> QED
      BY <1>2, <3>1, MakeAbsoluteType DEF AbsTime
  <2> QED
    BY <1>1, <2>1 DEF Wraps, AbsTime
<1>4. CASE list = <<>>
  <2>1. ~running
    BY <1>4 DEF TimeInv, Counting
  <2>2. Elapsed = 0
    BY <2>1, Zenon DEF Elapsed
  <2>3. MakeAbsolute(op.d) = AddTime(AddTime(op.d, last), 0)
    BY <2>1, Zenon DEF MakeAbsolute
  <2>4. 0 \in 0 .. RtcMax
    BY <1>1
  <2>5. AddTime(AddTime(op.d, last), 0) >= last
    BY <1>3, <2>3
  <2>6. MakeAbsolute(op.d) = op.d + last + 0
    BY <1>1, <1>2, <2>3, <2>4, <2>5, SumFits
  <2> QED
    BY <1>2, <2>2, <2>4, <2>6, LargestTimeout, <1>1
<1>5. CASE list # <<>>
  <2>1. running
    BY <1>5 DEF IndInv, OpOK, Enabled
  <2>2. ~flag /\ Elapsed \in 0 .. RtcMax /\ Elapsed = cnt - load
    BY <1>5, <2>1, MainSees
  <2>3. SubTime(cnt, load) = Elapsed
    BY <1>1, <2>2 DEF SubTime
  <2>4. MakeAbsolute(op.d) = AddTime(AddTime(op.d, last), SubTime(cnt, load))
    <3>1. (IF flag THEN RtcMax ELSE cnt) = cnt
      BY <2>2
    <3> QED
      BY <2>1, <3>1, Zenon DEF MakeAbsolute
  <2>5. AddTime(AddTime(op.d, last), Elapsed) >= last
    BY <1>3, <2>3, <2>4
  <2>6. MakeAbsolute(op.d) = op.d + last + Elapsed
    BY <1>1, <1>2, <2>2, <2>3, <2>4, <2>5, SumFits
  <2> QED
    BY <1>1, <1>2, <2>2, <2>6, LargestTimeout
<1> QED
  BY <1>4, <1>5

\* The rest of create: the timer goes behind those that expire no later than it.
LEMMA InsertTime ==
    ASSUME IndInv, TimeInv, Insert, ~slow, ~Wraps,
           \A d \in Timeout : d + RtcMax < AbsMod
    PROVE  TimeInv'
<1> DEFINE v == MakeAbsolute(op.d)
           a == [abs EXCEPT ![op.t] = v]
<1>1. /\ Lists(list, queue) /\ TypeOK /\ MainTurn /\ pc = "insert" /\ pc' = "idle"
      /\ op.kind = "create" /\ op.t \in Timer /\ op.t \in Node /\ op.t # Dummy
      /\ op.t \notin Linked(list) /\ op'.kind = "none" /\ isr' = isr
      /\ due' = [due EXCEPT ![op.t] = op.d]
  BY ListsOf, SchedulerAssumption
     DEF IndInv, OpOK, Unlinked, Insert, Node, NoOp
<1>2. /\ op.d \in Nat /\ Elapsed \in 0 .. RtcMax
      /\ v = op.d + last + Elapsed
      /\ \A d \in {x \in Timeout : \A y \in Timeout : y <= x} : op.d <= d
  BY <1>1, Expiry
<1>3. PlaceAt(v, abs, last)
  BY <1>1 DEF Insert, Wraps
<1>4. /\ v \in AbsTime /\ v \in Int /\ last \in Int /\ last \in AbsTime /\ RtcMax \in Nat
      /\ AbsMod \in Nat /\ op.d \in 0 .. AbsMod
  <2>1. op.d \in AbsTime
    <3>1. op.d \in Timeout \cup {0} /\ Timeout \subseteq AbsTime /\ 0 \in AbsTime
      BY <1>1, SchedulerAssumption DEF TypeOK, Op, AbsTime
    <3> QED
      BY <3>1
  <2>2. v \in AbsTime
    BY <1>1, <2>1, MakeAbsoluteType
  <2> QED
    BY <1>1, <2>1, <2>2, SchedulerAssumption DEF AbsTime, TypeOK
<1> HIDE DEF v
<1>5. /\ a \in [Node -> AbsTime] /\ a[op.t] = v
      /\ \A n \in Node : n # op.t => a[n] = abs[n]
  BY <1>1, <1>4 DEF TypeOK
<1>6. /\ list \in Seq(Node) /\ Len(list) \in Nat /\ abs \in [Node -> AbsTime]
      /\ \A i \in 2 .. Len(list) : list[i] # Dummy
      /\ \A i \in 1 .. Len(list) : list[i] \in Node /\ list[i] \in Linked(list)
      /\ \A i \in 1 .. Len(list) : list[i] # op.t /\ abs[list[i]] \in Int
  <2>1. list \in Seq(Node) /\ Len(list) \in Nat /\ abs \in [Node -> AbsTime]
        /\ \A i \in 2 .. Len(list) : list[i] # Dummy
    BY <1>1 DEF Lists, TypeOK
  <2>2. ASSUME NEW i \in 1 .. Len(list)
        PROVE  list[i] \in Linked(list) /\ list[i] \in Node /\ abs[list[i]] \in Int
               /\ list[i] # op.t
    <3>1. list[i] \in Linked(list)
      BY <2>1, LinkedIndex
    <3> QED
      BY <1>1, <2>1, <3>1, MemberTime
  <2> QED
    BY <2>1, <2>2
<1>7. /\ \A n \in Linked(list) : n \in Node /\ n # op.t /\ last <= abs[n] /\ abs[n] \in Int
      /\ \A i, j \in 1 .. Len(list) : i < j => abs[list[i]] <= abs[list[j]]
  BY <1>1, <1>6, MemberTime DEF TimeInv, SortedFrom
<1>8. due' \in [Timer -> 0 .. AbsMod]
  BY <1>1, <1>4 DEF TypeOK
<1>9. ASSUME NEW n \in Linked(list), NEW d \in {x \in Timeout : \A y \in Timeout : y <= x}
      PROVE  abs[n] - last <= RtcMax + d
  BY <1>1, <1>9 DEF TimeInv, Near
<1>10. ASSUME NEW d \in {x \in Timeout : \A y \in Timeout : y <= x}
       PROVE  v - last <= RtcMax + d
  <2>1. d \in Nat /\ op.d <= d
    BY <1>2, LargestTimeout
  <2> QED
    BY <1>2, <1>4, <2>1
<1>11. ASSUME NEW x \in Timer, x \in Linked(list)
       PROVE  due'[x] = due[x] /\ due[x] \in Nat /\ due[x] + Elapsed <= abs[x] - last + 1
              /\ due[x] <= abs[x] - last + 1
  <2>1. due'[x] = due[x] /\ due[x] \in 0 .. AbsMod
    BY <1>1, <1>7, <1>11 DEF TypeOK
  <2>2. due[x] + Elapsed <= abs[x] - last + 1
    BY <1>11 DEF TimeInv, Timely
  <2> QED
    BY <1>2, <1>4, <1>7, <1>11, <2>1, <2>2
<1>12. due'[op.t] = op.d
  BY <1>1 DEF TypeOK
<1>13. PICK i \in 1 .. Len(list) + 1 :
        /\ \A j \in 1 .. i - 1 : abs[list[j]] <= v
        /\ i <= Len(list) => abs[list[i]] > v
        /\ \/ /\ i = 1
              /\ flag' = FlagAtHead
              /\ StartTimerAtHead(PushHead(op.t, list), a, last, 0)
           \/ /\ i > 1
              /\ list' = Inserted(list, i, op.t)
              /\ abs' = a
              /\ last' = last
              /\ ovf' = EnabledBehind
              /\ UNCHANGED <<flag, load, running, cnt>>
  BY <1>3 DEF PlaceAt
<1> HIDE DEF a
<1>14. CASE /\ i = 1 /\ flag' = FlagAtHead
            /\ StartTimerAtHead(PushHead(op.t, list), a, last, 0)
  <2> DEFINE r == IF list # <<>> /\ Head(list) = Dummy THEN Tail(list) ELSE list
             p == PushHead(op.t, list)
  <2>1. /\ r \in Seq(Node) /\ Len(r) \in Nat
        /\ \A j \in 1 .. Len(r) : r[j] # Dummy /\ r[j] \in Linked(list)
        /\ \A j, k \in 1 .. Len(r) : j < k => abs[r[j]] <= abs[r[k]]
    <3>1. CASE list # <<>> /\ Head(list) = Dummy
      <4>1. /\ r \in Seq(Node) /\ Len(r) = Len(list) - 1
            /\ \A j \in 1 .. Len(list) - 1 : r[j] = list[j + 1]
        BY <1>6, <3>1
      <4> HIDE DEF r
      <4>2. ASSUME NEW j \in 1 .. Len(r)
            PROVE  r[j] # Dummy /\ r[j] \in Linked(list)
        <5>1. j + 1 \in 2 .. Len(list) /\ j + 1 \in 1 .. Len(list) /\ r[j] = list[j + 1]
          BY <1>6, <4>1
        <5> QED
          BY <1>6, <5>1
      <4>3. ASSUME NEW j \in 1 .. Len(r), NEW k \in 1 .. Len(r), j < k
            PROVE  abs[r[j]] <= abs[r[k]]
        <5>1. j + 1 \in 1 .. Len(list) /\ k + 1 \in 1 .. Len(list) /\ j + 1 < k + 1
              /\ r[j] = list[j + 1] /\ r[k] = list[k + 1]
          BY <1>6, <4>1, <4>3
        <5> QED
          BY <1>7, <5>1
      <4>4. r \in Seq(Node) /\ Len(r) \in Nat
        BY ONLY <4>1
      <4>5. \A j \in 1 .. Len(r) : r[j] # Dummy /\ r[j] \in Linked(list)
        BY ONLY <4>2, Zenon
      <4>6. \A j, k \in 1 .. Len(r) : j < k => abs[r[j]] <= abs[r[k]]
        BY ONLY <4>3, Zenon
      <4> QED
        BY ONLY <4>4, <4>5, <4>6, Zenon
    <3>2. CASE ~(list # <<>> /\ Head(list) = Dummy)
      <4>1. r = list
        BY <3>2
      <4>2. ASSUME NEW j \in 1 .. Len(list) PROVE list[j] # Dummy
        BY <1>6, <3>2, <4>2
      <4> QED
        BY <1>6, <1>7, <4>1, <4>2
    <3> QED
      BY <3>1, <3>2
  <2>2. p = <<op.t>> \o r
    BY DEF PushHead
  <2>3. StartTimerAtHead(p, a, last, 0)
    BY <1>14
  <2> HIDE DEF r, p
  <2>4. /\ p \in Seq(Node) /\ Len(p) = Len(r) + 1
        /\ p[1] = op.t /\ p # <<>> /\ Head(p) = op.t
        /\ \A j \in 2 .. Len(r) + 1 : p[j] = r[j - 1]
    BY <1>1, <2>1, <2>2
  <2>5. ASSUME NEW j \in 2 .. Len(p)
        PROVE  j - 1 \in 1 .. Len(r) /\ p[j] = r[j - 1] /\ p[j] # Dummy
               /\ p[j] \in Linked(list) /\ a[p[j]] = abs[p[j]]
    <3>1. j - 1 \in 1 .. Len(r) /\ p[j] = r[j - 1]
      BY <2>1, <2>4
    <3>2. p[j] # Dummy /\ p[j] \in Linked(list)
      BY <2>1, <3>1
    <3> QED
      BY <1>5, <1>7, <3>1, <3>2
  <2>6. \A n \in Linked(p) : n = op.t \/ (n \in Linked(list) /\ a[n] = abs[n])
    <3>1. ASSUME NEW n \in Linked(p)
          PROVE  n = op.t \/ (n \in Linked(list) /\ a[n] = abs[n])
      <4>1. PICK j \in 1 .. Len(p) : p[j] = n
        BY <2>4, LinkedIndex
      <4>2. j = 1 \/ j \in 2 .. Len(p)
        BY <2>1, <2>4
      <4>3. CASE j \in 2 .. Len(p)
        <5>1. p[j] \in Linked(list) /\ a[p[j]] = abs[p[j]]
          BY <2>5, <4>3
        <5> QED
          BY <4>1, <5>1
      <4>4. CASE j = 1
        <5>1. p[1] = op.t /\ p[j] = n
          BY <2>4, <4>1
        <5>2. n = op.t
          BY <4>4, <5>1
        <5> QED
          BY <5>2
      <4> QED
        BY <4>2, <4>3, <4>4
    <3> QED
      BY <3>1
  <2>7. \A n \in Linked(list) : v < abs[n]
    <3>1. ASSUME NEW n \in Linked(list) PROVE v < abs[n]
      <4>1. PICK j \in 1 .. Len(list) : list[j] = n
        BY <1>6, LinkedIndex
      <4>2. 1 \in 1 .. Len(list) /\ abs[list[1]] > v
        BY <1>6, <1>13, <1>14, <4>1
      <4>3. CASE j = 1
        BY <1>4, <1>6, <4>1, <4>2, <4>3
      <4>4. CASE j # 1
        <5>1. abs[list[1]] <= abs[list[j]]
          BY <1>6, <1>7, <4>1, <4>2, <4>4
        <5> QED
          BY <1>4, <1>6, <4>1, <4>2, <5>1
      <4> QED
        BY <4>3, <4>4
    <3> QED
      BY <3>1
  <2>8. SortedFrom(p, a, last)
    <3>1. ASSUME NEW n \in Linked(p) PROVE last <= a[n]
      <4>1. CASE n = op.t
        BY <1>2, <1>4, <1>5, <4>1
      <4>2. CASE n \in Linked(list) /\ a[n] = abs[n]
        BY <1>7, <4>2
      <4> QED
        BY <2>6, <4>1, <4>2
    <3>2. ASSUME NEW j \in 1 .. Len(p), NEW k \in 1 .. Len(p), j < k
          PROVE  a[p[j]] <= a[p[k]]
      <4>1. k \in 2 .. Len(p)
        BY <2>1, <2>4, <3>2
      <4>2. p[k] \in Linked(list) /\ a[p[k]] = abs[p[k]] /\ k - 1 \in 1 .. Len(r)
            /\ p[k] = r[k - 1]
        BY <2>5, <4>1
      <4>3. CASE j = 1
        <5>1. v < abs[p[k]] /\ abs[p[k]] \in Int
          BY <1>7, <2>7, <4>2
        <5> QED
          BY <1>4, <1>5, <2>4, <4>2, <4>3, <5>1
      <4>4. CASE j # 1
        <5>1. j \in 2 .. Len(p)
          BY <2>1, <2>4, <4>4
        <5>2. a[p[j]] = abs[p[j]] /\ j - 1 \in 1 .. Len(r) /\ p[j] = r[j - 1]
          BY <2>5, <5>1
        <5>3. j - 1 < k - 1
          BY <2>1, <2>4, <3>2
        <5> QED
          BY <2>1, <4>2, <5>2, <5>3
      <4> QED
        BY <4>3, <4>4
    <3> QED
      BY <3>1, <3>2 DEF SortedFrom
  <2>9. DummyNear(p, a, last) /\ \A j \in 2 .. Len(p) : p[j] # Dummy
    BY <1>1, <2>4, <2>5 DEF DummyNear
  <2>10. ASSUME NEW n \in Linked(p), NEW d \in {x \in Timeout : \A y \in Timeout : y <= x}
         PROVE  a[n] - last <= RtcMax + d
    BY <1>5, <1>9, <1>10, <2>6
  <2>11. ASSUME NEW x \in Timer, x \in Linked(p)
         PROVE  due'[x] <= a[x] - last + 1
    <3>1. CASE x = op.t
      BY <1>2, <1>4, <1>5, <1>12, <3>1, SMTT(30)
    <3>2. CASE x \in Linked(list) /\ a[x] = abs[x]
      BY <1>11, <3>2
    <3> QED
      BY <2>6, <2>11, <3>1, <3>2
  <2>12. ~flag'
    BY <1>14 DEF FlagAtHead
  <2> QED
    BY <1>4, <1>5, <1>8, <2>3, <2>4, <2>8, <2>9, <2>10, <2>11, <2>12, RestartTime
<1>15. CASE /\ i > 1
            /\ list' = Inserted(list, i, op.t)
            /\ abs' = a
            /\ last' = last
            /\ ovf' = EnabledBehind
            /\ UNCHANGED <<flag, load, running, cnt>>
  <2>i. i \in 2 .. Len(list) + 1 /\ i \in 1 .. Len(list) + 1 /\ list # <<>>
    BY <1>6, <1>15
  <2>1. /\ list' \in Seq(Node) /\ Len(list') = Len(list) + 1
        /\ \A j \in 1 .. Len(list) + 1 :
              list'[j] = IF j < i THEN list[j] ELSE IF j = i THEN op.t ELSE list[j - 1]
    <3>1. list \in Seq(Node) /\ op.t \in Node /\ i \in 1 .. Len(list) + 1
      BY <1>1, <1>6, <2>i
    <3>2. list' = Inserted(list, i, op.t)
      BY <1>15
    <3>3. /\ Inserted(list, i, op.t) \in Seq(Node)
          /\ Len(Inserted(list, i, op.t)) = Len(list) + 1
          /\ \A j \in 1 .. Len(list) + 1 :
                Inserted(list, i, op.t)[j] =
                    IF j < i THEN list[j] ELSE IF j = i THEN op.t ELSE list[j - 1]
      BY <3>1, InsertedProps
    <3> QED
      BY <3>2, <3>3
  <2>2. ASSUME NEW j \in 1 .. Len(list')
        PROVE  /\ j < i => j \in 1 .. Len(list) /\ list'[j] = list[j]
                           /\ abs'[list'[j]] = abs[list[j]]
               /\ j = i => list'[j] = op.t /\ abs'[list'[j]] = v
               /\ j > i => j - 1 \in 1 .. Len(list) /\ list'[j] = list[j - 1]
                           /\ abs'[list'[j]] = abs[list[j - 1]]
    <3>1. j \in 1 .. Len(list) + 1 /\ j \in Int /\ i \in Int
      BY <1>6, <2>i, <2>1
    <3>2. CASE j < i
      <4>1. j \in 1 .. Len(list) /\ list'[j] = list[j]
        BY <1>6, <2>i, <2>1, <3>1, <3>2
      <4> QED
        BY <1>5, <1>6, <1>15, <3>1, <3>2, <4>1
    <3>3. CASE j = i
      <4>1. list'[j] = op.t
        BY <2>i, <2>1, <3>1, <3>3
      <4> QED
        BY <1>5, <1>15, <3>1, <3>3, <4>1
    <3>4. CASE j > i
      <4>1. j - 1 \in 1 .. Len(list) /\ list'[j] = list[j - 1]
        BY <1>6, <2>i, <2>1, <3>1, <3>4
      <4> QED
        BY <1>5, <1>6, <1>15, <3>1, <3>4, <4>1
    <3> QED
      BY <3>1, <3>2, <3>3, <3>4
  <2>3. \A n \in Linked(list') : \/ n = op.t /\ abs'[n] = v
                                 \/ n \in Linked(list) /\ abs'[n] = abs[n]
    <3>1. ASSUME NEW n \in Linked(list')
          PROVE  \/ n = op.t /\ abs'[n] = v
                 \/ n \in Linked(list) /\ abs'[n] = abs[n]
      <4>1. PICK j \in 1 .. Len(list') : list'[j] = n
        BY <2>1, LinkedIndex
      <4>2. j < i \/ j = i \/ j > i
        BY <1>6, <2>1, <2>i
      <4>3. CASE j < i
        <5>1. j \in 1 .. Len(list) /\ n = list[j] /\ abs'[n] = abs[list[j]]
          BY <2>2, <4>1, <4>3
        <5> QED
          BY <1>6, <5>1
      <4>4. CASE j = i
        BY <2>2, <4>1, <4>4
      <4>5. CASE j > i
        <5>1. j - 1 \in 1 .. Len(list) /\ n = list[j - 1] /\ abs'[n] = abs[list[j - 1]]
          BY <2>2, <4>1, <4>5
        <5> QED
          BY <1>6, <5>1
      <4> QED
        BY <4>2, <4>3, <4>4, <4>5
    <3> QED
      BY <3>1
  <2>4. ASSUME NEW j \in 1 .. Len(list'), NEW k \in 1 .. Len(list'), j < k
        PROVE  abs'[list'[j]] <= abs'[list'[k]]
    <3>1. j \in Int /\ k \in Int /\ i \in Int
      BY <1>6, <2>1, <2>i
    <3>2. CASE j < i /\ k < i
      BY <1>7, <2>2, <2>4, <3>1, <3>2
    <3>3. CASE j < i /\ k = i
      <4>1. j \in 1 .. i - 1
        BY <2>4, <3>1, <3>3
      <4> QED
        BY <1>13, <2>2, <3>3, <4>1
    <3>4. CASE j < i /\ k > i
      BY <1>7, <2>2, <2>4, <3>1, <3>4
    <3>5. CASE j = i /\ k > i
      <4>1. /\ k - 1 \in 1 .. Len(list) /\ abs'[list'[k]] = abs[list[k - 1]]
            /\ abs'[list'[j]] = v
        BY <2>2, <3>5
      <4>2. i \in 1 .. Len(list) /\ i <= k - 1 /\ abs[list[i]] > v
        BY <1>6, <1>13, <2>i, <2>1, <3>1, <3>5, <4>1
      <4>3. abs[list[i]] <= abs[list[k - 1]]
        <5>1. CASE i = k - 1
          BY <1>6, <4>2, <5>1
        <5>2. CASE i < k - 1
          BY <1>7, <4>1, <4>2, <5>2
        <5> QED
          BY <3>1, <4>2, <5>1, <5>2
      <4>4. abs[list[i]] \in Int /\ abs[list[k - 1]] \in Int
        BY <1>6, <4>1, <4>2
      <4>5. abs[list[k - 1]] > v
        BY ONLY <1>4, <4>2, <4>3, <4>4
      <4> QED
        BY ONLY <1>4, <4>1, <4>4, <4>5
    <3>6. CASE j > i
      <4>1. k > i /\ j - 1 < k - 1
        BY <2>4, <3>1, <3>6
      <4> QED
        BY <1>7, <2>2, <3>6, <4>1, SMTT(30)
    <3> QED
      BY <2>4, <3>1, <3>2, <3>3, <3>4, <3>5, <3>6
  <2>5. SortedFrom(list', abs', last')
    <3>1. ASSUME NEW n \in Linked(list') PROVE last <= abs'[n]
      <4>1. last <= v
        BY <1>2, <1>4
      <4> QED
        BY <1>7, <2>3, <4>1
    <3> QED
      BY <1>15, <2>4, <3>1 DEF SortedFrom
  <2>6. running
    BY <1>1, <2>i DEF IndInv, Enabled
  <2>7. Elapsed' = Elapsed
    BY <1>1, <1>15, Zenon DEF Elapsed, Reached
  <2>8. list' # <<>> /\ Head(list') = Head(list) /\ abs'[Head(list')] = abs[Head(list)]
    <3>1. list' # <<>> /\ Head(list') = list'[1] /\ Head(list) = list[1]
          /\ 1 \in 1 .. Len(list') /\ 1 < i
      BY <1>6, <2>i, <2>1
    <3> QED
      BY <2>2, <3>1
  <2>9. Counting'
    <3>1. ovf'
      BY <1>15, <2>6 DEF EnabledBehind
    <3>2. running' /\ flag' = flag /\ isr' = isr /\ load' = load /\ cnt' = cnt
          /\ last' = last
      BY <1>1, <1>15, <2>6
    <3>3. abs[Head(list)] - last = RtcMax - load
          /\ IF flag /\ isr = "off" THEN ovf ELSE load <= cnt
      BY <2>6 DEF TimeInv, Counting
    <3> QED
      BY <2>8, <3>1, <3>2, <3>3 DEF Counting
  <2>10. Near'
    <3>1. ASSUME NEW n \in Linked(list'),
                 NEW d \in {x \in Timeout : \A y \in Timeout : y <= x}
          PROVE  abs'[n] - last <= RtcMax + d
      BY <1>9, <1>10, <2>3
    <3> QED
      BY <1>15, <3>1 DEF Near
  <2>11. Timely'
    <3>1. ASSUME NEW x \in Timer, x \in Linked(list')
          PROVE  due'[x] + Elapsed <= abs'[x] - last + 1
      <4>1. CASE x = op.t /\ abs'[x] = v
        <5>1. Elapsed \in Int /\ due'[x] = op.d
          BY <1>2, <1>4, <1>12, <4>1
        <5> QED
          BY <1>2, <1>4, <4>1, <5>1
      <4>2. CASE x \in Linked(list) /\ abs'[x] = abs[x]
        BY <1>11, <4>2
      <4> QED
        BY <2>3, <3>1, <4>1, <4>2
    <3> QED
      BY <1>15, <2>7, <3>1 DEF Timely
  <2> QED
    BY <2>5, <2>9, <2>10, <2>11 DEF TimeInv
<1> QED
  BY <1>13, <1>14, <1>15

LEMMA NextTime ==
    ASSUME \A d \in Timeout : d + RtcMax < AbsMod,
           IndInv, TimeInv, ~slow, ~Wraps, [Next]_vars, ~slow'
    PROVE  TimeInv'
<1>1. CASE Tick
  BY <1>1, TickTime
<1>2. CASE IsrExpire \/ IsrClear \/ IsrNull
  BY <1>2, IsrExpireTime, IsrQuietTime
<1>3. CASE \/ \E t \in Timer : Delete(t) \/ \E d \in Timeout : Create(t, d)
           \/ CallNext \/ CallbackEnds
           \/ \E d \in Timeout : CallbackAgain(d)
  BY <1>3, CallsTime
<1>4. CASE Flush
  BY <1>4, FlushTime
<1>5. CASE MainStep
  BY <1>5, CallsTime, MaskTime, FindInListTime, FindInQueueTime, UnlinkTime,
     InsertTime, TakeTime DEF MainStep
<1>6. CASE UNCHANGED vars
  <2>1. Counting'
    BY <1>6 DEF vars, schedVars, rtcVars, mainVars, TimeInv, Counting
  <2> QED
    BY <1>6, <2>1, QuietTime DEF vars, schedVars, rtcVars, mainVars
<1> QED
  BY <1>1, <1>2, <1>3, <1>4, <1>5, <1>6 DEF Next

\* The timing invariant gives SpanBound: no modulus is in the way.
LEMMA SpanOfTime == IndInv /\ (~slow => TimeInv) => SpanBound
<1> SUFFICES ASSUME IndInv, TimeInv, op.kind # "flush" PROVE
        LET ahead(i) == SubTime(abs[list[i]], last)
        IN  /\ \A i \in 1 .. Len(list), d \in {x \in Timeout : \A y \in Timeout : y <= x} :
                  ahead(i) <= RtcMax + d
            /\ \A i, j \in 1 .. Len(list) : i < j => ahead(i) <= ahead(j)
  BY DEF SpanBound
<1> DEFINE ahead(i) == SubTime(abs[list[i]], last)
<1>1. list \in Seq(Node) /\ abs \in [Node -> AbsTime] /\ last \in AbsTime /\ last \in Int
  BY DEF IndInv, TypeOK, AbsTime
<1>2. ASSUME NEW i \in 1 .. Len(list)
      PROVE  ahead(i) = abs[list[i]] - last /\ list[i] \in Linked(list)
             /\ abs[list[i]] \in Int
  <2>1. list[i] \in Linked(list)
    BY <1>1, LinkedIndex
  <2>2. abs[list[i]] \in AbsTime /\ last <= abs[list[i]] /\ abs[list[i]] \in Int
    BY <1>1, <2>1, MemberTime DEF TimeInv, SortedFrom
  <2> QED
    BY <1>1, <2>1, <2>2, Distance
<1>3. ASSUME NEW i \in 1 .. Len(list), NEW d \in {x \in Timeout : \A y \in Timeout : y <= x}
      PROVE  ahead(i) <= RtcMax + d
  BY <1>2, <1>3 DEF TimeInv, Near
<1>4. ASSUME NEW i \in 1 .. Len(list), NEW j \in 1 .. Len(list), i < j
      PROVE  ahead(i) <= ahead(j)
  <2>1. abs[list[i]] <= abs[list[j]]
    BY <1>4 DEF TimeInv, SortedFrom
  <2>2. ahead(i) = abs[list[i]] - last /\ ahead(j) = abs[list[j]] - last
        /\ abs[list[i]] \in Int /\ abs[list[j]] \in Int
    BY <1>2
  <2> HIDE DEF ahead
  <2> QED
    BY <1>1, <2>1, <2>2
<1> QED
  BY <1>3, <1>4

\* A timer the routine moves to the queue has run its timeout.
LEMMA NotEarly ==
    ASSUME IndInv, TimeInv, [Next]_vars, Len(queue') > Len(queue)
    PROVE  due[queue'[Len(queue')]] = 0
<1>1. Lists(list, queue) /\ TypeOK /\ Len(queue) \in Nat
  BY ListsOf DEF IndInv, TypeOK
<1>2. IsrExpire
  <2>1. queue' # queue
    BY <1>1
  <2>2. ASSUME NEW k \in 1 .. Len(queue)
        PROVE  Len(Without(queue, k)) = Len(queue) - 1
    BY <1>1, WithoutProps DEF Lists
  <2>3. queue # <<>> => Len(Tail(queue)) = Len(queue) - 1
    BY <1>1 DEF Lists
  <2>4. CASE FindInQueue
    <3>1. queue # <<>>
      BY <2>4 DEF FindInQueue, IndInv, OpOK
    <3>2. \/ queue' = Tail(queue)
          \/ \E k \in 2 .. Len(queue) : queue' = Without(queue, k)
          \/ queue' = queue
      BY <2>4 DEF FindInQueue, schedVars
    <3> QED
      BY <1>1, <2>1, <2>2, <2>3, <3>1, <3>2
  <2>5. CASE TakeExpired
    <3>1. queue # <<>> /\ queue' = Tail(queue)
      BY <2>5 DEF TakeExpired, IndInv, OpOK
    <3> QED
      BY <1>1, <2>3, <3>1
  <2>6. CASE \/ Tick \/ IsrClear \/ IsrNull
             \/ \E t \in Timer : Delete(t) \/ \E d \in Timeout : Create(t, d)
             \/ Flush \/ CallNext \/ CallbackEnds
             \/ \E d \in Timeout : CallbackAgain(d)
             \/ MaskForDelete \/ FindInList \/ QueueCheck \/ Unlink \/ Insert \/ FlushNext
             \/ UNCHANGED vars
    BY <2>1, <2>6 DEF Tick, IsrClear, IsrNull, Delete, Create, Call, Flush, CallNext,
       CallbackEnds, CallbackAgain, MaskForDelete, FindInList, QueueCheck, Unlink, Insert,
       FlushNext, vars, schedVars
  <2> QED
    BY <2>4, <2>5, <2>6 DEF Next, MainStep
<1>3. /\ list # <<>> /\ ovf /\ flag /\ isr = "off"
      /\ queue' = EnqueueCallback(queue, Head(list))
  BY <1>2 DEF IsrExpire, Pending
<1>4. Head(list) # Dummy /\ Head(list) \in Timer /\ Head(list) \in Linked(list)
  <2>1. Head(list) # Dummy
    BY <1>1, <1>3 DEF EnqueueCallback
  <2>2. Head(list) \in Linked(list) /\ Head(list) \in Node
    BY <1>1, <1>3, TailProps DEF Lists
  <2> QED
    BY <2>1, <2>2 DEF Node
<1>5. queue'[Len(queue')] = Head(list)
  <2>1. queue' = Append(queue, Head(list)) /\ queue \in Seq(Timer)
    BY <1>1, <1>3, <1>4 DEF EnqueueCallback, Lists
  <2> QED
    BY <1>4, <2>1
<1>6. running
  BY <1>3 DEF IndInv, Enabled, Stopped
<1>7. /\ abs[Head(list)] - last = RtcMax - load
      /\ Elapsed = Reached - load /\ Reached = RtcMax + 1
      /\ due[Head(list)] + Elapsed <= abs[Head(list)] - last + 1
  BY <1>3, <1>4, <1>6, ElapsedCases DEF TimeInv, Counting, Timely
<1>8. due[Head(list)] \in Nat /\ load \in Int /\ RtcMax \in Int
  <2>1. due[Head(list)] \in 0 .. AbsMod
    BY <1>1, <1>4 DEF TypeOK
  <2> QED
    BY <1>1, <2>1, SchedulerAssumption DEF TypeOK
<1>9. due[Head(list)] = 0
  <2>1. Elapsed = RtcMax + 1 - load
    BY <1>7, <1>8
  <2>2. due[Head(list)] + (RtcMax + 1 - load) <= RtcMax - load + 1
    BY <1>7, <2>1
  <2> QED
    BY <1>8, <2>2
<1> QED
  BY <1>5, <1>9

\* A hidden tick is never forgotten.
LEMMA SlowStays == [Next]_vars /\ ~slow' => ~slow
  BY DEF Next, MainStep, Tick, IsrExpire, IsrClear, IsrNull, Delete, Create, Flush, CallNext,
     CallbackEnds, CallbackAgain, MaskForDelete, FindInList, QueueCheck, FindInQueue, Unlink,
     Insert, TakeExpired, FlushNext, vars

LEMMA TimeInductive ==
    ASSUME \A d \in Timeout : d + RtcMax < AbsMod
    PROVE  Spec /\ [](~slow => ~Wraps) => [](~slow => TimeInv)
<1>1. IndInv /\ (~slow => TimeInv) /\ (~slow => ~Wraps) /\ [Next]_vars
      => (~slow => TimeInv)'
  BY NextTime, SlowStays
<1> QED
  BY <1>1, InitTime, Inductive, PTL DEF Spec

\* As long as no tick fell in a masked section (the NOTE at rtc.c:340) and no create
\* computed an expiry that wraps, the list is in order of expiry and no timer is
\* further ahead than the largest timeout and one run of the counter.
THEOREM ListInOrder ==
    ASSUME \A d \in Timeout : d + RtcMax < AbsMod
    PROVE  Spec /\ [](~slow => ~Wraps) => []SpanBound
<1> QED
  BY TimeInductive, SpanOfTime, Inductive, PTL

\* Under the same assumptions no timer expires early: what the interrupt routine
\* moves to the queue has been on the list for all the ticks it was created with.
THEOREM NeverEarly ==
    ASSUME \A d \in Timeout : d + RtcMax < AbsMod
    PROVE  Spec /\ [](~slow => ~Wraps) => ExpiredAtHead
<1>1. IndInv /\ (~slow => TimeInv) /\ [Next]_vars
      => [~slow /\ Len(queue') > Len(queue) => due[queue'[Len(queue')]] = 0]_vars
  BY NotEarly
<1> QED
  BY <1>1, TimeInductive, Inductive, PTL DEF Spec, ExpiredAtHead

-----------------------------------------------------------------------------
(* How far absolute time may have come for a create not to wrap.            *)

\* Times of the list and its base stay below B.
Below(B) == last <= B /\ \A n \in Linked(list) : abs[n] <= B

\* A restart brings no time in that the list did not have.
LEMMA StartBelow ==
    ASSUME NEW l \in Seq(Node), NEW a \in [Node -> AbsTime], NEW b \in AbsTime, NEW ld,
           NEW B \in Nat, b <= B, l # <<>> => b <= a[Head(l)],
           \A n \in Linked(l) : a[n] <= B,
           StartTimerAtHead(l, a, b, ld)
    PROVE  last' <= B /\ \A n \in Linked(list') : abs'[n] <= B
<1>1. CASE l = <<>>
  <2>1. list' = <<>> /\ last' = 0
    BY <1>1 DEF StartTimerAtHead
  <2>2. \A n : n \notin Linked(list')
    BY <2>1 DEF Linked
  <2> QED
    BY <2>1, <2>2 DEF Below
<1>2. CASE l # <<>>
  <2> DEFINE period == SubTime(a[Head(l)], b)
             aa == TimesOf(l, a)
  <2>0. aa \in [Node -> AbsTime] /\ \A n \in Linked(l) : n \in Node /\ aa[n] = a[n]
    BY TimesProps
  <2>1. Head(l) = l[1] /\ l[1] \in Node /\ Len(l) \in Nat \ {0} /\ l[1] \in Linked(l)
    <3>1. Head(l) = l[1] /\ l[1] \in Node /\ Len(l) \in Nat \ {0}
      BY <1>2
    <3> QED
      BY <3>1, LinkedIndex
  <2>2. /\ a[l[1]] \in AbsTime /\ a[l[1]] \in Int /\ a[l[1]] <= B /\ b \in Int
        /\ RtcMax \in Nat /\ period = a[l[1]] - b
    <3>1. a[l[1]] \in AbsTime /\ a[l[1]] <= B /\ b <= a[l[1]]
      BY <1>2, <2>1
    <3>2. period = a[l[1]] - b
      BY <2>1, <3>1, Distance
    <3> HIDE DEF period
    <3> QED
      BY <3>1, <3>2, SchedulerAssumption DEF AbsTime
  <2>3. CASE period > RtcMax
    <3>1. /\ list' = <<Dummy>> \o l
          /\ abs' = [aa EXCEPT ![Dummy] = AddTime(b, RtcMax)]
          /\ last' = b
      BY <1>2, <2>3 DEF StartTimerAtHead
    <3>2. AddTime(b, RtcMax) = b + RtcMax
      BY <2>2, <2>3, SchedulerAssumption DEF AddTime, AbsTime
    <3>3. abs'[Dummy] = b + RtcMax /\ \A n \in Linked(l) : n # Dummy => abs'[n] = a[n]
      <4> HIDE DEF aa
      <4> QED
        BY <2>0, <3>1, <3>2 DEF Node
    <3>4. b + RtcMax <= B
      BY <2>2, <2>3
    <3>5. ASSUME NEW n \in Linked(list') PROVE n = Dummy \/ n \in Linked(l)
      <4>1. /\ list' \in Seq(Node) /\ Len(list') = Len(l) + 1 /\ list'[1] = Dummy
            /\ \A i \in 2 .. Len(l) + 1 : list'[i] = l[i - 1]
        BY <3>1 DEF Node
      <4>2. PICK i \in 1 .. Len(list') : list'[i] = n
        BY <4>1, LinkedIndex
      <4>3. CASE i = 1
        BY <4>1, <4>2, <4>3
      <4>4. CASE i # 1
        <5>1. i - 1 \in 1 .. Len(l) /\ l[i - 1] = n
          BY <2>1, <4>1, <4>2, <4>4
        <5> QED
          BY <5>1, LinkedIndex
      <4> QED
        BY <4>3, <4>4
    <3>6. ASSUME NEW n \in Linked(list') PROVE abs'[n] <= B
      <4>1. CASE n = Dummy
        BY <3>3, <3>4, <4>1
      <4>2. CASE n # Dummy
        <5>1. n \in Linked(l) /\ n \in Node
          BY <3>5, <3>6, <4>2, MemberTime
        <5> QED
          BY <3>3, <4>2, <5>1
      <4> QED
        BY <4>1, <4>2
    <3> QED
      BY <3>1, <3>6 DEF Below
  <2>4. CASE ~(period > RtcMax)
    <3>1. list' = l /\ abs' = aa /\ last' = b
      BY <1>2, <2>4 DEF StartTimerAtHead
    <3> HIDE DEF aa
    <3> QED
      BY <2>0, <3>1 DEF Below
  <2> QED
    BY <2>3, <2>4
<1> QED
  BY <1>1, <1>2

\* Every step but the end of create keeps the times below a bound they are below.
LEMMA StepBelow ==
    ASSUME IndInv, TimeInv, [Next]_vars, ~Insert, NEW B \in Nat, Below(B)
    PROVE  last' <= B /\ \A n \in Linked(list') : abs'[n] <= B
<1>1. Lists(list, queue) /\ TypeOK /\ last \in AbsTime /\ abs \in [Node -> AbsTime]
      /\ list \in Seq(Node)
  BY ListsOf DEF IndInv, TypeOK
<1>2. CASE IsrExpire
  <2> DEFINE h == Head(list)
             t == Tail(list)
  <2>1. list # <<>> /\ StartTimerAtHead(t, abs, abs[h], 0)
    BY <1>2 DEF IsrExpire
  <2>2. /\ h \in Node /\ h \in Linked(list) /\ t \in Seq(Node)
        /\ \A x : x \in Linked(t) => x \in Linked(list)
    BY <1>1, <2>1, TailProps DEF Lists
  <2>3. t # <<>> => Head(t) \in Linked(list)
    <3>1. ASSUME t # <<>> PROVE Head(t) \in Linked(t)
      <4>1. Head(t) = t[1] /\ 1 \in 1 .. Len(t)
        BY <2>2, <3>1
      <4> QED
        BY <2>2, <4>1, LinkedIndex
    <3> QED
      BY <2>2, <3>1
  <2>4. t # <<>> => abs[h] <= abs[Head(t)]
    BY <2>1, <2>3, TimedList
  <2> HIDE DEF h, t
  <2>5. abs[h] \in AbsTime /\ abs[h] <= B /\ \A n \in Linked(t) : abs[n] <= B
    BY <1>1, <2>2 DEF Below
  <2> QED
    BY <1>1, <2>1, <2>2, <2>4, <2>5, StartBelow
<1>3. CASE FindInList
  <2>1. CASE list # <<>> /\ StartTimerAtHead(Tail(list), abs, last, load)
    <3> DEFINE t == Tail(list)
    <3>1. t \in Seq(Node) /\ \A x : x \in Linked(t) => x \in Linked(list)
      BY <1>1, <2>1, TailProps DEF Lists
    <3>2. t # <<>> => Head(t) \in Linked(list)
      <4>1. ASSUME t # <<>> PROVE Head(t) \in Linked(t)
        <5>1. Head(t) = t[1] /\ 1 \in 1 .. Len(t)
          BY <3>1, <4>1
        <5> QED
          BY <3>1, <5>1, LinkedIndex
      <4> QED
        BY <3>1, <4>1
    <3>3. StartTimerAtHead(t, abs, last, load)
      BY <2>1
    <3> HIDE DEF t
    <3>4. t # <<>> => last <= abs[Head(t)]
      BY <3>2 DEF TimeInv, SortedFrom
    <3>5. last <= B /\ \A n \in Linked(t) : abs[n] <= B
      BY <3>1 DEF Below
    <3> QED
      BY <1>1, <3>1, <3>3, <3>4, <3>5, StartBelow
  <2>2. ASSUME NEW k \in 2 .. Len(list), list' = Without(list, k),
               abs' = TimesOf(list', abs), last' = last
        PROVE  last' <= B /\ \A n \in Linked(list') : abs'[n] <= B
    <3>1. k \in 1 .. Len(list) /\ Distinct(list)
      BY <1>1, <2>2 DEF Lists
    <3>2. \A x : x \in Linked(list') => x \in Linked(list)
      BY <1>1, <2>2, <3>1, WithoutLinked
    <3>3. list' \in Seq(Node)
      BY <1>1, <2>2, <3>1, WithoutProps
    <3>4. \A x \in Linked(list') : abs'[x] = abs[x]
      BY <1>1, <2>2, <3>3, TimesProps
    <3> QED
      BY <2>2, <3>2, <3>4 DEF Below
  <2>3. CASE UNCHANGED <<list, abs, last>>
    BY <2>3 DEF Below
  <2> QED
    BY <1>3, <2>1, <2>2, <2>3 DEF FindInList
<1>4. CASE FindInQueue
  <2>1. CASE StartTimerAtHead(list, abs, last, load)
    <3>1. list # <<>> => last <= abs[Head(list)]
      BY TimedList
    <3>2. last <= B /\ \A n \in Linked(list) : abs[n] <= B
      BY DEF Below
    <3> QED
      BY <1>1, <2>1, <3>1, <3>2, StartBelow
  <2>2. CASE UNCHANGED <<list, abs, last>>
    BY <2>2 DEF Below
  <2> QED
    BY <1>4, <2>1, <2>2 DEF FindInQueue, schedVars
<1>5. CASE Unlink
  <2>1. /\ list' = list \/ (list # <<>> /\ Head(list) = Dummy /\ list' = <<Dummy>>)
        /\ UNCHANGED <<abs, last>>
    BY <1>5 DEF Unlink, CutBehind
  <2>2. list # <<>> => Head(list) \in Linked(list)
    BY TimedList
  <2>3. \A x \in Linked(list') : x \in Linked(list)
    BY <2>1, <2>2 DEF Linked
  <2> QED
    BY <2>1, <2>3 DEF Below
<1>6. CASE Flush
  BY <1>6 DEF Flush, Below
<1>7. CASE \/ Tick \/ IsrClear \/ IsrNull \/ CallNext \/ CallbackEnds \/ TakeExpired
           \/ \E t \in Timer : Delete(t) \/ \E d \in Timeout : Create(t, d)
           \/ \E d \in Timeout : CallbackAgain(d)
           \/ MaskForDelete \/ QueueCheck \/ FlushNext \/ UNCHANGED vars
  <2>1. UNCHANGED <<list, abs, last>>
    BY <1>7 DEF Tick, IsrClear, IsrNull, CallNext, CallbackEnds, TakeExpired, Delete, Create,
       CallbackAgain, MaskForDelete, QueueCheck, FlushNext, vars, schedVars
  <2> QED
    BY <2>1 DEF Below
<1> QED
  BY <1>2, <1>3, <1>4, <1>5, <1>6, <1>7 DEF Next, MainStep

\* While main is in a create the times are no further than where calls may be made.
Horizon == op.kind = "create" => Below(MaxTime)

LEMMA HorizonNext ==
    ASSUME IndInv, TimeInv, Horizon, [Next]_vars
    PROVE  Horizon'
<1> SUFFICES ASSUME op'.kind = "create"
             PROVE  last' <= MaxTime /\ \A n \in Linked(list') : abs'[n] <= MaxTime
  BY DEF Horizon, Below
<1>1. CASE \/ \E t \in Timer, d \in Timeout : Create(t, d)
           \/ \E d \in Timeout : CallbackAgain(d)
  BY <1>1 DEF Create, CallbackAgain, Call, schedVars
<1>2. CASE op.kind = "create" /\ ~Insert
  BY <1>2, StepBelow, SchedulerAssumption DEF Horizon
<1>3. CASE Insert
  BY <1>3 DEF Insert, NoOp
<1>4. op.kind = "create" \/ \/ \E t \in Timer, d \in Timeout : Create(t, d)
                            \/ \E d \in Timeout : CallbackAgain(d)
  <2>1. CASE Unlink
    BY <2>1 DEF Unlink, NoOp
  <2>2. CASE FlushNext
    BY <2>2 DEF FlushNext, NoOp, IndInv, TypeOK, Op
  <2>3. CASE \/ Tick \/ IsrExpire \/ IsrClear \/ IsrNull \/ CallNext \/ CallbackEnds
    BY <2>3 DEF Tick, IsrExpire, IsrClear, IsrNull, CallNext, CallbackEnds, mainVars
  <2>4. CASE \/ MaskForDelete \/ FindInList \/ QueueCheck \/ FindInQueue \/ TakeExpired
    BY <2>4 DEF MaskForDelete, FindInList, QueueCheck, FindInQueue, TakeExpired
  <2>5. CASE (\E t \in Timer : Delete(t)) \/ Flush \/ Insert
    BY <2>5 DEF Delete, EnterDelete, Flush, Insert, NoOp
  <2>6. CASE UNCHANGED vars
    BY <2>6 DEF vars, mainVars
  <2> QED
    BY <2>1, <2>2, <2>3, <2>4, <2>5, <2>6 DEF Next, MainStep
<1> QED
  BY <1>1, <1>2, <1>3, <1>4

\* Below that horizon nothing wraps.
LEMMA HorizonNear ==
    ASSUME NEW D \in Nat, \A d \in Timeout : d <= D,
           MaxTime + RtcMax + D < AbsMod,
           IndInv, TimeInv, Horizon
    PROVE  ~Wraps
<1> SUFFICES ASSUME pc = "insert" PROVE ~(MakeAbsolute(op.d) < last)
  BY DEF Wraps
<1> DEFINE s == IF running THEN SubTime(IF flag THEN RtcMax ELSE cnt, load) ELSE 0
<1>1. /\ op.kind = "create" /\ op.d \in Timeout \cup {0}
      /\ last \in AbsTime /\ last <= MaxTime
      /\ RtcMax \in Nat /\ MaxTime \in Nat /\ AbsMod \in Nat
      /\ cnt \in 0 .. RtcMax /\ load \in 0 .. RtcMax
      /\ running \in BOOLEAN /\ flag \in BOOLEAN
  BY SchedulerAssumption DEF IndInv, OpOK, TypeOK, Op, Horizon, Below
<1>2. op.d \in 0 .. D
  <2>1. CASE op.d \in Timeout
    <3>1. op.d \in AbsTime /\ op.d <= D
      BY <2>1, SchedulerAssumption
    <3> QED
      BY <3>1 DEF AbsTime
  <2> QED
    BY <1>1, <2>1
<1>3. s \in 0 .. RtcMax
  <2>1. CASE running /\ flag
    <3>1. s = SubTime(RtcMax, load)
      BY <2>1
    <3> QED
      BY <1>1, <3>1 DEF SubTime
  <2>2. CASE running /\ ~flag
    <3>1. s = SubTime(cnt, load)
      BY <2>2
    <3>2. load <= cnt
      BY <2>2 DEF TimeInv, Counting
    <3> QED
      BY <1>1, <3>1, <3>2 DEF SubTime
  <2>3. CASE ~running
    BY <1>1, <2>3
  <2> QED
    BY <1>1, <2>1, <2>2, <2>3
<1>4. MakeAbsolute(op.d) = AddTime(AddTime(op.d, last), s)
  BY DEF MakeAbsolute
<1> HIDE DEF s
<1>5. op.d + last + s < AbsMod
  <2>1. last \in Nat
    BY <1>1 DEF AbsTime
  <2> QED
    BY <1>1, <1>2, <1>3, <2>1
<1>6. AddTime(AddTime(op.d, last), s) = op.d + last + s
  BY <1>1, <1>2, <1>3, <1>5 DEF AddTime, AbsTime
<1> QED
  BY <1>1, <1>2, <1>3, <1>4, <1>6 DEF AbsTime

\* The assumption of the last two theorems is met however often main calls, as long as
\* the calls are made while absolute time is one timeout and one run of the counter
\* short of its range.
THEOREM NoWrapWithin ==
    ASSUME NEW D \in Nat, \A d \in Timeout : d <= D, MaxTime + RtcMax + D < AbsMod
    PROVE  Spec => [](~slow => ~Wraps)
<1>0. \A d \in Timeout : d + RtcMax < AbsMod
  <2>1. ASSUME NEW d \in Timeout PROVE d + RtcMax < AbsMod
    <3>1. d \in AbsTime /\ d <= D
      BY SchedulerAssumption
    <3> QED
      BY <3>1, SchedulerAssumption DEF AbsTime
  <2> QED
    BY <2>1
<1> DEFINE Known == ~slow => TimeInv /\ Horizon
<1>1. Init => Known
  BY InitTime DEF Init, NoOp, Horizon
<1>2. IndInv /\ Known => (~slow => ~Wraps)
  BY HorizonNear
<1>3. IndInv /\ Known /\ [Next]_vars => Known'
  <2> SUFFICES ASSUME IndInv, TimeInv, Horizon, ~slow, [Next]_vars, ~slow'
               PROVE  TimeInv' /\ Horizon'
    BY SlowStays
  <2>1. ~Wraps
    BY <1>2
  <2> QED
    BY <1>0, <2>1, HorizonNext, NextTime
<1> HIDE DEF Known
<1> QED
  BY <1>1, <1>2, <1>3, Inductive, PTL DEF Spec

=============================================================================
