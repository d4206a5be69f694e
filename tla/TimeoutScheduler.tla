--------------------------- MODULE TimeoutScheduler ---------------------------
(***************************************************************************)
(* The timeout scheduler of src/mcc_generated_files/src/rtc.c: one 16-bit  *)
(* RTC, an overflow interrupt, a list of running timers sorted by absolute *)
(* time and a FIFO of expired timers whose callbacks the main loop calls.  *)
(*                                                                         *)
(* Two actors share that state: main, whose calls are cut at the points    *)
(* where the overflow interrupt is enabled and may run between two of its  *)
(* accesses, and the interrupt routine.  The linked lists are sequences:   *)
(* the one place where a stale next pointer matters (deleting the dummy)   *)
(* is written out in Unlink.                                               *)
(***************************************************************************)
EXTENDS Integers, SequencesExt

CONSTANTS
    Timer,      \* the timer_struct_t objects the application declares
    Dummy,      \* scheduler_dummy
    None,       \* no timer
    RtcMax,     \* largest value of RTC.CNT and of RTC.PER: 65535
    AbsMod,     \* absolutetime_t is modulo this: 2^32
    Timeout,    \* the timeouts callers pass and callbacks return
    MaxTime     \* bound: calls are made while no absolute time is beyond it

Node == Timer \cup {Dummy}
AbsTime == 0 .. AbsMod - 1

ASSUME SchedulerAssumption ==
    /\ RtcMax \in Nat \ {0} /\ AbsMod \in Nat /\ AbsMod > RtcMax
    /\ Timeout \subseteq AbsTime \ {0}
    /\ MaxTime \in Nat
    /\ Dummy \notin Timer /\ None \notin Node

VARIABLES
    list,       \* scheduler_list_head and what it links
    queue,      \* scheduler_execute_queue_head and what it links
    abs,        \* absolute_time of the nodes in the list, 0 for the others
    last,       \* scheduler_absolute_time_of_last_timeout
    load,       \* scheduler_last_timer_load
    running,    \* scheduler_is_running
    cnt,        \* RTC.CNT
    flag,       \* RTC.INTFLAGS.OVF
    ovf,        \* RTC.INTCTRL.OVF
    isr,        \* "off", or "clear": the routine has yet to clear the flag
    fault,      \* the routine ran with a NULL list head
    pc,         \* where main is
    op,         \* the call main executes
    tempIE,     \* call_next_callback's saved interrupt enable
    cb,         \* the timer whose callback is running
    due,        \* ghost: ticks until the expiry asked for, 0 when slow or not in the list
    slow        \* ghost: a tick came while the interrupt was masked or served

schedVars == <<list, queue, abs, last, load, running>>
rtcVars   == <<cnt, flag, ovf>>
mainVars  == <<pc, op, tempIE, cb>>
vars == <<schedVars, rtcVars, isr, fault, mainVars, due, slow>>

NoOp == [kind |-> "none", t |-> None, d |-> 0]
Op == [kind : {"none", "create", "delete", "flush"},
       t : Node \cup {None}, d : Timeout \cup {0}]

Linked(s) == {s[i] : i \in DOMAIN s}
Distinct(s) == \A i, j \in 1 .. Len(s) : s[i] = s[j] => i = j

\* main is between an `INTCTRL &= ~OVF` and the matching `|=`; flush_all stays
\* there until its first delete restarts the timers
Masked == \/ pc \in {"listFind", "queueFind", "insert"}
          \/ op.kind = "flush" /\ ~running

\* the overflow interrupt preempts main as soon as it is enabled and pending
Pending == ovf /\ flag
MainTurn == isr = "off" /\ ~fault /\ ~Pending

Init ==
    /\ list = <<>> /\ queue = <<>> /\ abs = [n \in Node |-> 0]
    /\ last = 0 /\ load = 0 /\ running = FALSE
    /\ cnt = 0 /\ flag = FALSE /\ ovf = TRUE
    /\ isr = "off" /\ fault = FALSE
    /\ pc = "idle" /\ op = NoOp /\ tempIE = FALSE /\ cb = None
    /\ due = [t \in Timer |-> 0] /\ slow = FALSE

-----------------------------------------------------------------------------
(* Helpers shared by main and the interrupt routine.                       *)

\* x + y and x - y on absolutetime_t
AddTime(x, y) == IF x + y < AbsMod THEN x + y ELSE x + y - AbsMod
SubTime(x, y) == IF x >= y THEN x - y ELSE x - y + AbsMod

\* mutant of MakeAbsolute: the time of the last timeout is left out
MakeSinceTimeout(d) ==
    AddTime(d, IF running THEN SubTime(IF flag THEN RtcMax ELSE cnt, load) ELSE 0)

\* scheduler_make_absolute: an overflow not yet served counts as RtcMax
MakeAbsolute(d) ==
    AddTime(AddTime(d, last),
            IF running THEN SubTime(IF flag THEN RtcMax ELSE cnt, load) ELSE 0)

\* The times a of the nodes in l.  What a node holds that is in no list is not looked at
\* again, and forgotten.
TimesOf(l, a) == [n \in Node |-> IF n \in Linked(l) THEN a[n] ELSE 0]

\* scheduler_start_timer_at_head on list l, absolute times a, time base b and
\* previous counter load ld: stop when nothing is left, otherwise load the whole
\* distance from b to the head's expiry, cut by a dummy when it is too far.
StartTimerAtHead(l, a, b, ld) ==
    LET period == SubTime(a[Head(l)], b)
        far    == period > RtcMax
        step   == IF far THEN RtcMax ELSE period
    IN  \/ /\ l = <<>>
           /\ list' = <<>> /\ abs' = TimesOf(l, a)
           /\ last' = 0 /\ running' = FALSE /\ ovf' = FALSE
           /\ load' = ld /\ cnt' = cnt
        \/ /\ l # <<>>
           /\ list' = IF far THEN <<Dummy>> \o l ELSE l
           /\ abs' = IF far THEN [TimesOf(l, a) EXCEPT ![Dummy] = AddTime(b, RtcMax)]
                      ELSE TimesOf(l, a)
           /\ last' = b /\ running' = TRUE /\ ovf' = TRUE
           /\ load' = RtcMax - step /\ cnt' = RtcMax - step

\* the list left when the node at index i goes
Without(s, i) == SubSeq(s, 1, i - 1) \o SubSeq(s, i + 1, Len(s))

\* the list with t linked before the node at index i
Inserted(s, i, t) == SubSeq(s, 1, i - 1) \o <<t>> \o SubSeq(s, i, Len(s))

\* what scheduler_sorted_insert leaves at the front when t goes to the head
PushHead(t, l) == <<t>> \o (IF l # <<>> /\ Head(l) = Dummy THEN Tail(l) ELSE l)

\* scheduler_enqueue_callback, and the routine's test for the dummy
EnqueueCallback(q, n) == IF n = Dummy THEN q ELSE Append(q, n)

\* mutant of CutBehind: delete leaves timer->next alone
CutNothing(t, l) == l

\* timer->next = NULL at the end of delete.  A deleted timer is in no list, but
\* start_timer_at_head may have linked the dummy flush_all deletes a second time:
\* then everything behind it is cut off.
CutBehind(t, l) == IF t = Dummy /\ l # <<>> /\ Head(l) = Dummy THEN <<Dummy>> ELSE l

\* mutant of FlagAtHead: the pending overflow is kept
FlagKept == flag

\* sorted_insert at the head clears INTFLAGS.OVF
FlagAtHead == FALSE

\* mutant of EnabledBehind: create leaves the interrupt masked
StaysMasked == ovf

\* create enables the interrupt again when the insert was not at the head
EnabledBehind == ovf \/ running

\* due of a timer that is no longer (or not yet) running is reset
DueOf(s) == [t \in Timer |-> IF t \in Linked(s) THEN due[t] ELSE 0]

-----------------------------------------------------------------------------
(* The hardware and the interrupt routine.                                 *)

\* One period of the 1 kHz clock.  That none falls in a masked section or in the
\* routine is the assumption of the NOTE above the routine; slow says that one did.
Tick ==
    /\ ~fault
    /\ slow' = (slow \/ isr # "off" \/ Pending \/ Masked)
    /\ cnt' = IF cnt = RtcMax THEN 0 ELSE cnt + 1
    /\ flag' = (flag \/ cnt = RtcMax)
    /\ due' = [t \in Timer |-> IF due[t] > 0 /\ ~slow' THEN due[t] - 1 ELSE 0]
    /\ UNCHANGED <<schedVars, ovf, isr, fault, mainVars>>

\* ISR(RTC_CNT_vect), up to the write that clears the flag
IsrExpire ==
    /\ Pending /\ isr = "off" /\ ~fault /\ list # <<>>
    /\ queue' = EnqueueCallback(queue, Head(list))
    /\ StartTimerAtHead(Tail(list), abs, abs[Head(list)], 0)
    /\ isr' = "clear"
    /\ due' = DueOf(Tail(list))
    /\ UNCHANGED <<flag, fault, slow, mainVars>>

IsrClear ==
    /\ isr = "clear"
    /\ flag' = FALSE /\ isr' = "off"
    /\ UNCHANGED <<schedVars, cnt, ovf, fault, slow, mainVars, due>>

\* the routine dereferences a NULL head: nothing after it can be trusted
IsrNull ==
    /\ Pending /\ isr = "off" /\ ~fault /\ list = <<>>
    /\ fault' = TRUE
    /\ UNCHANGED <<schedVars, rtcVars, isr, mainVars, due, slow>>

-----------------------------------------------------------------------------
(* main: the calls.  Each starts with scheduler_timeout_delete, whose first *)
(* read of the list head happens with the interrupt still enabled.          *)

\* delete_helper(&list) is entered: an empty list is left alone
EnterDelete(o) ==
    /\ op' = o
    /\ pc' = IF list = <<>> THEN "queueCheck" ELSE "listOff"

\* as many calls as main likes; where absolute time is past MaxTime it waits
Call ==
    /\ pc = "idle" /\ MainTurn
    /\ last <= MaxTime /\ \A n \in Linked(list) : abs[n] <= MaxTime

Create(t, d) ==
    /\ Call
    /\ EnterDelete([kind |-> "create", t |-> t, d |-> d])
    /\ UNCHANGED <<schedVars, rtcVars, isr, fault, slow, tempIE, cb, due>>

Delete(t) ==
    /\ Call
    /\ EnterDelete([kind |-> "delete", t |-> t, d |-> 0])
    /\ UNCHANGED <<schedVars, rtcVars, isr, fault, slow, tempIE, cb, due>>

\* scheduler_timeout_flush_all: stop_timeouts, then the two loops of FlushNext
Flush ==
    /\ Call
    /\ ovf' = FALSE /\ last' = 0 /\ running' = FALSE
    /\ op' = [kind |-> "flush", t |-> None, d |-> 0]
    /\ pc' = "flush"
    /\ UNCHANGED <<list, queue, abs, load, cnt, flag, isr, fault, slow, tempIE, cb, due>>

FlushNext ==
    /\ pc = "flush" /\ MainTurn
    /\ \/ /\ list # <<>>
          /\ op' = [op EXCEPT !.t = Head(list)] /\ pc' = "listOff"
       \/ /\ list = <<>> /\ queue # <<>>
          /\ op' = [op EXCEPT !.t = Head(queue)] /\ pc' = "queueCheck"
       \/ /\ list = <<>> /\ queue = <<>>
          /\ op' = NoOp /\ pc' = "idle"
    /\ UNCHANGED <<schedVars, rtcVars, isr, fault, slow, tempIE, cb, due>>

\* INTCTRL &= ~OVF in delete_helper
MaskForDelete ==
    /\ pc \in {"listOff", "queueOff"} /\ MainTurn
    /\ ovf' = FALSE
    /\ pc' = IF pc = "listOff" THEN "listFind" ELSE "queueFind"
    /\ UNCHANGED <<schedVars, cnt, flag, isr, fault, slow, op, tempIE, cb, due>>

\* delete_helper on the running list: at the head the counter is restarted for
\* the next timer; otherwise the interrupt is enabled whatever it was before
FindInList ==
    /\ pc = "listFind" /\ MainTurn
    /\ \/ /\ list # <<>> /\ Head(list) = op.t
          /\ StartTimerAtHead(Tail(list), abs, last, load)
          /\ due' = DueOf(Tail(list)) /\ pc' = "unlinked"
       \/ \E i \in 2 .. Len(list) :
          /\ list[i] = op.t
          /\ list' = Without(list, i) /\ abs' = TimesOf(list', abs) /\ ovf' = TRUE
          /\ due' = DueOf(list') /\ pc' = "unlinked"
          /\ UNCHANGED <<last, load, running, cnt>>
       \/ /\ op.t \notin Linked(list)
          /\ ovf' = TRUE /\ pc' = "queueCheck"
          /\ UNCHANGED <<list, abs, last, load, running, cnt, due>>
    /\ UNCHANGED <<queue, flag, isr, fault, slow, op, tempIE, cb>>

\* mutant of QueueCheck: delete does not look for an expired timer
QueueIgnored ==
    /\ pc = "queueCheck" /\ MainTurn /\ pc' = "unlinked"
    /\ UNCHANGED <<schedVars, rtcVars, isr, fault, slow, op, tempIE, cb, due>>

\* delete_helper(&execute_queue) is entered
QueueCheck ==
    /\ pc = "queueCheck" /\ MainTurn
    /\ pc' = IF queue = <<>> THEN "unlinked" ELSE "queueOff"
    /\ UNCHANGED <<schedVars, rtcVars, isr, fault, slow, op, tempIE, cb, due>>

\* delete_helper on the queue: removing its head restarts the RUNNING list
FindInQueue ==
    /\ pc = "queueFind" /\ MainTurn
    /\ \/ /\ Head(queue) = op.t
          /\ queue' = Tail(queue)
          /\ StartTimerAtHead(list, abs, last, load)
       \/ \E i \in 2 .. Len(queue) :
          /\ queue[i] = op.t
          /\ queue' = Without(queue, i) /\ ovf' = TRUE
          /\ UNCHANGED <<list, abs, last, load, running, cnt>>
       \/ /\ op.t \notin Linked(queue)
          /\ ovf' = TRUE
          /\ UNCHANGED <<schedVars, cnt>>
    /\ pc' = "unlinked"
    /\ UNCHANGED <<flag, isr, fault, slow, op, tempIE, cb, due>>

\* timer->next = NULL ends the delete; then create masks the interrupt, flush loops, delete returns.
Unlink ==
    /\ pc = "unlinked" /\ MainTurn
    /\ list' = CutBehind(op.t, list)
    /\ due' = DueOf(list')
    /\ \/ /\ op.kind = "create" /\ ovf' = FALSE /\ pc' = "insert" /\ op' = op
       \/ /\ op.kind = "flush" /\ ovf' = ovf /\ pc' = "flush" /\ op' = op
       \/ /\ op.kind = "delete" /\ ovf' = ovf /\ pc' = "idle" /\ op' = NoOp
    /\ UNCHANGED <<queue, abs, last, load, running, cnt, flag, isr, fault, slow,
                   tempIE, cb>>

\* The loop and the end of sorted_insert, behind equal times, for expiry v, the
\* absolute times a and the base b (both rebased when v wrapped); at the head
\* start_timer_at_head follows, behind it the interrupt is enabled again.
PlaceAt(v, a, b) ==
    \E i \in 1 .. Len(list) + 1 :
        /\ \A j \in 1 .. i - 1 : a[list[j]] <= v
        /\ i <= Len(list) => a[list[i]] > v
        /\ \/ /\ i = 1
              /\ flag' = FlagAtHead
              /\ StartTimerAtHead(PushHead(op.t, list), [a EXCEPT ![op.t] = v], b, 0)
           \/ /\ i > 1
              /\ list' = Inserted(list, i, op.t)
              /\ abs' = [a EXCEPT ![op.t] = v]
              /\ last' = b
              /\ ovf' = EnabledBehind
              /\ UNCHANGED <<flag, load, running, cnt>>

\* scheduler_rebase_list: subtract now from every listed time and from the base
Rebased(base) == [n \in Node |-> IF n \in Linked(list)
                                 THEN SubTime(abs[n], base) ELSE abs[n]]

\* the masked rest of create: make_absolute, sorted_insert
Insert ==
    /\ pc = "insert" /\ MainTurn
    /\ LET v   == MakeAbsolute(op.d)
           now == MakeAbsolute(0)
       IN  \/ v >= last /\ PlaceAt(v, abs, last)
           \/ /\ v < last
              /\ PlaceAt(AddTime(v, AddTime(SubTime(RtcMax, now), 1)), Rebased(now),
                         SubTime(last, now))
    /\ due' = [due EXCEPT ![op.t] = IF slow THEN 0 ELSE op.d]
    /\ pc' = "idle" /\ op' = NoOp
    /\ UNCHANGED <<queue, isr, fault, slow, tempIE, cb>>

-----------------------------------------------------------------------------
(* main: the super-loop's scheduler_timeout_call_next_callback.            *)

\* mutant of CallNext: the running list is tested instead of the queue
CallNextWhileRunning ==
    /\ pc = "idle" /\ cb = None /\ MainTurn /\ queue # <<>> /\ list # <<>>
    /\ tempIE' = ovf /\ pc' = "take"
    /\ UNCHANGED <<schedVars, rtcVars, isr, fault, slow, op, cb, due>>

\* the queue is not empty: save the interrupt enable
CallNext ==
    /\ pc = "idle" /\ cb = None /\ MainTurn /\ queue # <<>>
    /\ tempIE' = ovf /\ pc' = "take"
    /\ UNCHANGED <<schedVars, rtcVars, isr, fault, slow, op, cb, due>>

\* mask, unlink the first expired timer, restore, enter its callback
TakeExpired ==
    /\ pc = "take" /\ MainTurn
    /\ queue' = Tail(queue) /\ cb' = Head(queue)
    /\ ovf' = tempIE /\ tempIE' = FALSE
    /\ pc' = "idle"
    /\ UNCHANGED <<list, abs, last, load, running, cnt, flag, isr, fault, slow, op, due>>

\* the callback returns 0, or the timeout after which it wants to run again
CallbackEnds ==
    /\ pc = "idle" /\ cb # None /\ MainTurn /\ cb' = None
    /\ UNCHANGED <<schedVars, rtcVars, isr, fault, slow, pc, op, tempIE, due>>

CallbackAgain(d) ==
    /\ cb # None /\ cb' = None
    /\ Call
    /\ EnterDelete([kind |-> "create", t |-> cb, d |-> d])
    /\ UNCHANGED <<schedVars, rtcVars, isr, fault, slow, tempIE, due>>

MainStep ==
    \/ MaskForDelete \/ FindInList \/ QueueCheck \/ FindInQueue
    \/ Unlink \/ Insert \/ TakeExpired \/ FlushNext

Next ==
    \/ Tick \/ IsrExpire \/ IsrClear \/ IsrNull
    \/ \E t \in Timer : Delete(t) \/ \E d \in Timeout : Create(t, d)
    \/ Flush \/ CallNext \/ CallbackEnds
    \/ \E d \in Timeout : CallbackAgain(d)
    \/ MainStep

Spec == Init /\ [][Next]_vars

\* The clock runs, the interrupt is taken when pending, a call and a callback come to
\* their end, and the super-loop of main.c calls call_next_callback in every round,
\* however many other calls a round makes; nothing makes callers call.
FairSpec ==
    /\ Spec
    /\ WF_vars(Tick)
    /\ WF_vars(IsrExpire \/ IsrClear \/ IsrNull)
    /\ WF_vars(MainStep)
    /\ SF_vars(CallNext)
    /\ SF_vars(CallbackEnds \/ \E d \in Timeout : CallbackAgain(d))

-----------------------------------------------------------------------------
(* Properties.                                                             *)

\* Every variable has the type its C declaration and the RTC give it.
TypeOK ==
    /\ list \in Seq(Node) /\ queue \in Seq(Timer)
    /\ abs \in [Node -> AbsTime] /\ last \in AbsTime
    /\ load \in 0 .. RtcMax /\ cnt \in 0 .. RtcMax
    /\ {running, flag, ovf, fault, tempIE} \subseteq BOOLEAN
    /\ isr \in {"off", "clear"}
    /\ pc \in {"idle", "listOff", "listFind", "queueCheck", "queueOff",
               "queueFind", "unlinked", "insert", "take", "flush"}
    /\ op \in Op /\ cb \in Timer \cup {None} /\ slow \in BOOLEAN
    /\ due \in [Timer -> 0 .. AbsMod]

\* A timer_struct_t has one next pointer, so it may be in one list only and
\* there once; the dummy is never at a place but the head.  If create or delete
\* left a second link to a node, inserting it again would make a cycle.
LinkedOnce ==
    /\ Distinct(list) /\ Distinct(queue)
    /\ \A i \in 1 .. Len(list), j \in 1 .. Len(queue) : list[i] # queue[j]
    /\ \A i \in 2 .. Len(list) : list[i] # Dummy

\* No lost timer: whenever main is outside its masked sections, a non-empty list
\* has the overflow interrupt enabled and the scheduler marked as running,
\* whatever the interrupt routine did between main's check, mask and restore.
Armed == list # <<>> /\ ~Masked /\ op.kind # "flush" => ovf /\ running

\* As long as no tick was hidden from the code: scheduler_absolute_time_of_last_timeout
\* never gets ahead of a running timer and no timer is further away than it was asked to
\* be (plus the counter's current run): the order of the list is the order of expiry.
SpanBound ==
    ~slow /\ op.kind # "flush" =>
        LET ahead(i) == SubTime(abs[list[i]], last)
        IN  /\ \A i \in 1 .. Len(list), d \in {x \in Timeout : \A y \in Timeout : y <= x} :
                  ahead(i) <= RtcMax + d
            /\ \A i, j \in 1 .. Len(list) : i < j => ahead(i) <= ahead(j)

\* "Remove expired timer for the list now (it is always the one at the head)"
\* (rtc.c:350): a timer the routine moves to the queue has run its timeout, as long as
\* no tick was hidden from the code.
ExpiredAtHead ==
    [][~slow /\ Len(queue') > Len(queue) => due[queue'[Len(queue')]] = 0]_vars

\* main restarts the counter, for a timer it removes from the head or puts there (one
\* that it puts there behind a dummy comes into an empty list, and delays no other)
Restart ==
    \/ FindInList /\ list # <<>> /\ Head(list) = op.t
    \/ FindInQueue /\ Head(queue) = op.t
    \/ Insert /\ op.t \notin Linked(Tail(list'))

\* Once main restarts the counter no more, every running timer stops running: it
\* expires, or it is deleted.  Calls behind the head may go on for ever.  While main
\* restarts it time and again, within every timeout, a timer behind the head may never
\* expire: each restart loads the whole distance (rtc.c:187).
Expires ==
    <>[][~Restart]_vars =>
        \A t \in Timer : t \in Linked(list) ~> (t \notin Linked(list) \/ fault)

\* Every expired timer leaves the queue: its callback is called or it is deleted.
CalledBack == \A t \in Timer : t \in Linked(queue) ~> (t \notin Linked(queue) \/ fault)

\* flush_all returns, although deleting the head can link the dummy again.
FlushReturns == (op.kind = "flush") ~> (op.kind # "flush" \/ fault)

-----------------------------------------------------------------------------
(* The inductive invariant behind TypeOK, LinkedOnce and Armed.            *)

\* op says what main is doing at each pc
OpOK ==
    /\ pc \in {"idle", "take"} => op.kind = "none"
    /\ pc \notin {"idle", "take"} => op.kind # "none"
    /\ pc = "flush" => op.kind = "flush"
    /\ pc = "insert" => op.kind = "create"
    /\ op.kind \in {"create", "delete"} => op.t \in Timer
    /\ pc \in {"queueOff", "queueFind", "take"} => queue # <<>>

\* the node being deleted has left the lists main has already searched
Unlinked ==
    /\ pc \in {"queueCheck", "queueOff", "queueFind", "unlinked", "insert"}
       /\ op.t \in Timer => op.t \notin Linked(list)
    /\ pc \in {"unlinked", "insert"} => op.t \notin Linked(queue)

\* Armed, also in the masked sections, where running (and in call_next_callback
\* tempIE) remembers that the interrupt is to be enabled again
Enabled ==
    op.kind # "flush" /\ list # <<>> =>
        /\ running
        /\ pc \notin {"listFind", "queueFind", "insert"} => ovf
        /\ pc = "take" => tempIE

\* between flush_all's stop and its first restart nothing can expire
Stopped ==
    op.kind = "flush" /\ ~running /\ list # <<>> =>
        /\ ~ovf /\ pc \in {"flush", "listOff", "listFind"}
        /\ pc # "flush" => op.t = Head(list)

\* a dummy at the head is near enough not to need another
DummyNear(l, a, b) ==
    l # <<>> /\ Head(l) = Dummy => SubTime(a[Dummy], b) <= RtcMax

IndInv ==
    /\ TypeOK /\ LinkedOnce /\ OpOK /\ Unlinked /\ Enabled /\ Stopped
    /\ running => DummyNear(list, abs, last)

-----------------------------------------------------------------------------
(* The inductive invariant behind SpanBound and ExpiredAtHead: what holds in *)
(* addition while no tick is hidden from the code and no create has wrapped. *)

\* create is about to insert an expiry that wrapped (or a counter that ran over):
\* the case sorted_insert rebases the list for
Wraps == pc = "insert" /\ MakeAbsolute(op.d) < last

\* in order of the absolute times a, none of them before the base b
SortedFrom(l, a, b) ==
    /\ \A n \in Linked(l) : b <= a[n]
    /\ \A i, j \in 1 .. Len(l) : i < j => a[l[i]] <= a[l[j]]

\* SpanBound without the modulus
Near == op.kind # "flush" =>
    \A n \in Linked(list), d \in {x \in Timeout : \A y \in Timeout : y <= x} :
        abs[n] - last <= RtcMax + d

\* the counter runs over when the time of the head has come, and is seen to
Counting ==
    /\ running =>
        /\ list # <<>> /\ abs[Head(list)] - last = RtcMax - load
        /\ pc \notin {"listFind", "queueFind", "insert"} => ovf
        /\ IF flag /\ isr = "off" THEN ovf ELSE load <= cnt
    /\ ~running /\ list # <<>> => ~flag

\* what the counter has reached, and the ticks it counted since the last timeout
Reached == IF flag /\ isr = "off" THEN RtcMax + 1 ELSE cnt
Elapsed == IF running THEN Reached - load ELSE 0

\* a timer has no more ticks to go than the list says
Timely == \A t \in Timer : t \in Linked(list) =>
              due[t] + Elapsed <= abs[t] - last + 1

TimeInv == SortedFrom(list, abs, last) /\ Near /\ Counting /\ Timely

=============================================================================
