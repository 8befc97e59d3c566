----------------------------- MODULE RtxTimers -----------------------------
(***************************************************************************)
(* The timers of CMSIS-RTOS (rt_CMSIS.c).  Running timers are in a list     *)
(* that stores the differences of their times.  The tick puts a timer that  *)
(* has expired into a message queue; a thread takes them out and calls      *)
(* their functions.  Service calls and the tick do not interrupt each other.*)
(***************************************************************************)
EXTENDS Integers, Sequences, FiniteSets

CONSTANTS
    Timers,      \* timers
    MaxTicks,    \* longest time a timer is started with
    QueueSize,   \* messages of osTimerMessageQ (OS_TIMERCBQS)
    MaxCalls     \* service calls that start or stop a timer

ASSUME TimersAssumption == MaxTicks \in Nat \ {0} /\ QueueSize \in Nat \ {0} /\ MaxCalls \in Nat

VARIABLES
    state,   \* Invalid, Stopped or Running
    type,    \* Once or Periodic
    icnt,    \* the period
    list,    \* os_timer_head: the running timers in order
    tcnt,    \* for each of them the ticks behind the one before it
    queue,   \* timers that have expired, behind the one that is called
    busy,    \* the timer whose function the thread calls
    error,   \* the kernel has stopped with an overflow of the queue
    due,     \* ticks until a running timer expires
    asked,   \* the time the timer was started with last
    calls    \* service calls so far

vars == <<state, type, icnt, list, tcnt, queue, busy, error, due, asked, calls>>

Nobody == "nobody"

Init ==
    /\ state = [t \in Timers |-> "Invalid"] /\ type = [t \in Timers |-> "Once"]
    /\ icnt = [t \in Timers |-> 0] /\ list = <<>> /\ tcnt = <<>> /\ queue = <<>>
    /\ busy = Nobody /\ error = FALSE
    /\ due = [t \in Timers |-> 0] /\ asked = [t \in Timers |-> 0] /\ calls = 0

-----------------------------------------------------------------------------
(* A list and its differences together. *)
Put(s, i, x) == SubSeq(s, 1, i) \o <<x>> \o SubSeq(s, i + 1, Len(s))
Cut(s, i) == SubSeq(s, 1, i - 1) \o SubSeq(s, i + 1, Len(s))
Listed(l, t) == \E i \in 1 .. Len(l.list) : l.list[i] = t
Place(l, t) == CHOOSE i \in 1 .. Len(l.list) : l.list[i] = t
Until(l, i) == LET s[j \in 0 .. i] == IF j = 0 THEN 0 ELSE s[j - 1] + l.tcnt[j] IN s[i]

(* Mutant of rt_timer_insert: the next timer keeps its time. *)
rt_timer_insert_Keep(l, t, n) ==
    LET i == CHOOSE j \in 0 .. Len(l.list) : /\ \A m \in 1 .. j : Until(l, m) <= n
                                             /\ j < Len(l.list) => n < Until(l, j + 1)
    IN  [list |-> Put(l.list, i, t), tcnt |-> Put(l.tcnt, i, n - Until(l, i))]

(* Behind the timers that expire before it or with it; the next one waits for *)
(* the rest.                                                                  *)
rt_timer_insert(l, t, n) ==
    LET i == CHOOSE j \in 0 .. Len(l.list) : /\ \A m \in 1 .. j : Until(l, m) <= n
                                             /\ j < Len(l.list) => n < Until(l, j + 1)
        mine == n - Until(l, i)
        rest == IF i < Len(l.list) THEN [l.tcnt EXCEPT ![i + 1] = @ - mine] ELSE l.tcnt
    IN  [list |-> Put(l.list, i, t), tcnt |-> Put(rest, i, mine)]

(* Nothing when the timer is not in the list. *)
rt_timer_remove(l, t) ==
    IF ~Listed(l, t) THEN l
    ELSE LET i == Place(l, t)
             rest == IF i < Len(l.list) THEN [l.tcnt EXCEPT ![i + 1] = @ + l.tcnt[i]] ELSE l.tcnt
         IN  [list |-> Cut(l.list, i), tcnt |-> Cut(rest, i)]

List == [list |-> list, tcnt |-> tcnt]
SetList(l) == list' = l.list /\ tcnt' = l.tcnt
Called == ~error /\ calls < MaxCalls /\ calls' = calls + 1

svcTimerCreate(t, how) ==
    /\ Called /\ state[t] = "Invalid"
    /\ state' = [state EXCEPT ![t] = "Stopped"] /\ type' = [type EXCEPT ![t] = how]
    /\ UNCHANGED <<icnt, list, tcnt, queue, busy, error, due, asked>>

svcTimerStart(t, n) ==
    /\ Called /\ state[t] # "Invalid"
    /\ icnt' = IF state[t] = "Stopped" THEN [icnt EXCEPT ![t] = n] ELSE icnt
    /\ state' = [state EXCEPT ![t] = "Running"]
    /\ SetList(rt_timer_insert(IF state[t] = "Running" THEN rt_timer_remove(List, t) ELSE List, t, n))
    /\ due' = [due EXCEPT ![t] = n] /\ asked' = [asked EXCEPT ![t] = n]
    /\ UNCHANGED <<type, queue, busy, error>>

svcTimerStop(t) ==
    /\ Called /\ state[t] = "Running"
    /\ state' = [state EXCEPT ![t] = "Stopped"]
    /\ SetList(rt_timer_remove(List, t))
    /\ due' = [due EXCEPT ![t] = 0]
    /\ UNCHANGED <<type, icnt, queue, busy, error, asked>>

svcTimerDelete(t) ==
    /\ Called /\ state[t] # "Invalid"
    /\ state' = [state EXCEPT ![t] = "Invalid"]
    /\ SetList(rt_timer_remove(List, t))
    /\ due' = [due EXCEPT ![t] = 0]
    /\ UNCHANGED <<type, icnt, queue, busy, error, asked>>

(* The timers at the head with nothing left, one after the other: a message,  *)
(* and a periodic timer goes into the list again.                             *)
Expire(l) ==
    LET t == Head(l.list)
        rest == [list |-> Tail(l.list), tcnt |-> Tail(l.tcnt)]
    IN  IF type[t] = "Periodic" THEN rt_timer_insert(rest, t, icnt[t]) ELSE rest

(* The messages that the tick puts into the queue are delivered behind it:    *)
(* the first one to the thread if it waits.                                   *)
Deliver(q, msgs) ==
    LET direct == busy = Nobody /\ msgs # <<>>
    IN  /\ busy' = IF direct THEN Head(msgs) ELSE busy
        /\ queue' = q \o (IF direct THEN Tail(msgs) ELSE msgs)
        /\ error' = (Len(queue') > QueueSize)

(* What is left of the timers after one that has expired is served. *)
Serve(r) ==
    LET t == Head(r.l.list)
    IN  IF r.l.list = <<>> \/ Head(r.l.tcnt) # 0 THEN r
        ELSE [l |-> Expire(r.l),
              m |-> IF Len(queue) = QueueSize THEN r.m ELSE Append(r.m, t),
              s |-> IF type[t] = "Once" THEN [r.s EXCEPT ![t] = "Stopped"] ELSE r.s]

sysTimerTick ==
    /\ ~error /\ list # <<>>
    /\ LET start == [l |-> [List EXCEPT !.tcnt[1] = @ - 1], m |-> <<>>, s |-> state]
           n == Len(list)
           run[j \in 0 .. n] == IF j = 0 THEN start ELSE Serve(run[j - 1])
       IN  SetList(run[n].l) /\ Deliver(queue, run[n].m) /\ state' = run[n].s
    /\ due' = [t \in Timers |-> IF due[t] = 1 /\ type[t] = "Periodic" THEN icnt[t]
                                ELSE IF due[t] = 0 THEN 0 ELSE due[t] - 1]
    /\ UNCHANGED <<type, icnt, asked, calls>>

(* The function returns; the thread takes the next timer or waits. *)
osTimerThread ==
    /\ ~error /\ busy # Nobody
    /\ busy' = IF queue = <<>> THEN Nobody ELSE Head(queue)
    /\ queue' = IF queue = <<>> THEN queue ELSE Tail(queue)
    /\ UNCHANGED <<state, type, icnt, list, tcnt, error, due, asked, calls>>

(* Nothing is left to do, or the kernel has stopped. *)
Rest == error \/ (calls = MaxCalls /\ list = <<>> /\ busy = Nobody)
Stop == Rest /\ UNCHANGED vars

Next ==
    \/ \E t \in Timers, how \in {"Once", "Periodic"} : svcTimerCreate(t, how)
    \/ \E t \in Timers, n \in 1 .. MaxTicks : svcTimerStart(t, n)
    \/ \E t \in Timers : svcTimerStop(t) \/ svcTimerDelete(t)
    \/ sysTimerTick \/ osTimerThread \/ Stop

Spec == Init /\ [][Next]_vars

-----------------------------------------------------------------------------
(* A timer is in the list once, and exactly when it runs: no operation works  *)
(* on a timer that has been deleted.                                          *)
ListedRuns ==
    /\ \A t \in Timers : (state[t] = "Running") = Listed(List, t)
    /\ \A i, j \in 1 .. Len(list) : list[i] = list[j] => i = j

(* Every timer that runs expires in exactly the tick it was started for, no   *)
(* matter which timers were put before it, taken out or expired with it; and  *)
(* it is in the list once, exactly when it runs.                              *)
TimersExact ==
    /\ \A i \in 1 .. Len(list) : Until(List, i) = due[list[i]]
    /\ \A t \in Timers : due[t] > 0 <=> Listed(List, t)
    /\ ListedRuns

=============================================================================
