----------------------------- MODULE RtxKernel -----------------------------
(***************************************************************************)
(* The RTX kernel of mbed-rtos: ready and delay lists (rt_List.c), tasks    *)
(* (rt_Task.c), ticks, round robin and interrupt requests (rt_System.c,     *)
(* rt_Robin.c, rt_Time.c), events, semaphores, mailboxes and mutexes with   *)
(* priority inheritance.  The kernel state is the record k; a C function    *)
(* that changes it is an operator from k to the new record.  A step is one  *)
(* supervisor call of the running task, one tick, one interrupt, or the     *)
(* pending request handler: the kernel itself is never interrupted.  Linked *)
(* lists are sequences.  The delay list keeps differences: delta_time of a  *)
(* task is the time from it to the next one, os_dly.delta_time the time to  *)
(* the first.  While a task is in no list its delta_time is the end of its  *)
(* interval.                                                                *)
(***************************************************************************)
EXTENDS Integers, Sequences, FiniteSets

CONSTANTS
    Tasks,        \* tasks besides the idle task
    Prio,         \* their priorities
    Ops,          \* the kernel calls the tasks and interrupts make
    Flags,        \* event flags
    Mutexes,      \* mutexes
    MaxTimeout,   \* longest timeout in ticks
    Tout,         \* ticks of a round robin slice (5 in the code)
    TimeWrap,     \* os_time counts modulo this (2^16 in the code)
    BoxSize,      \* messages a mailbox holds
    MaxMsgs,      \* messages sent
    QueueSize     \* requests the interrupt queue os_psq holds

None == "none"
Forever == 0 - 1                             \* timeout 0xffff
Timeouts == {0, Forever} \cup 1 .. MaxTimeout
All == Tasks \cup {"idle"}
Blocks == Mutexes \cup {"sem", "mbx"}        \* control blocks with a list of waiting tasks
Null == 0                                    \* a null message

VARIABLES
    k,       \* the kernel
    left,    \* of each task in the delay list, the ticks until it is due
    grid,    \* of each task with an interval, when the next one ends
    taken,   \* messages that reached a receiver
    issued   \* messages handed to the mailbox so far

vars == <<k, left, grid, taken, issued>>

-----------------------------------------------------------------------------
(* rt_List.c                                                                  *)

Put(s, i, x) == SubSeq(s, 1, i) \o <<x>> \o SubSeq(s, i + 1, Len(s))
Cut(s, i) == SubSeq(s, 1, i - 1) \o SubSeq(s, i + 1, Len(s))
Index(s, x) == CHOOSE i \in 1 .. Len(s) : s[i] = x
In(s, x) == \E i \in 1 .. Len(s) : s[i] = x

(* Behind all tasks of at least its priority. *)
rt_put_prio(s, t, prio) ==
    Put(s, CHOOSE i \in 0 .. Len(s) : /\ \A j \in 1 .. i : prio[t] <= prio[s[j]]
                                      /\ i < Len(s) => prio[t] > prio[s[i + 1]], t)

Ready(q, t) == [q EXCEPT !.rdy = rt_put_prio(@, t, q.prio), !.state[t] = "READY"]
rt_put_rdy_first(q) == [q EXCEPT !.rdy = <<q.run>> \o @, !.state[q.run] = "READY"]

Waiting(q, t) == {c \in Blocks : In(q.wait[c], t)}

rt_rmv_list(q, t) ==
    IF Waiting(q, t) # {}
    THEN LET c == CHOOSE c \in Waiting(q, t) : TRUE
         IN  [q EXCEPT !.wait[c] = Cut(@, Index(@, t))]
    ELSE IF In(q.rdy, t) THEN [q EXCEPT !.rdy = Cut(@, Index(@, t))] ELSE q

(* A task whose priority has changed is put where it belongs. *)
rt_resort_prio(q, t) ==
    IF Waiting(q, t) # {}
    THEN LET c == CHOOSE c \in Waiting(q, t) : TRUE
         IN  [q EXCEPT !.wait[c] = rt_put_prio(Cut(@, Index(@, t)), t, q.prio)]
    ELSE IF q.state[t] = "READY"
    THEN [q EXCEPT !.rdy = rt_put_prio(Cut(@, Index(@, t)), t, q.prio)]
    ELSE q

(* Ticks from the entry before the i-th task of the delay list, and from now. *)
Gap(q, i) == IF i = 1 THEN q.os_dly ELSE q.delta[q.dly[i - 1]]
Due(q, i) == LET s[j \in 0 .. i] == IF j = 0 THEN 0 ELSE s[j - 1] + Gap(q, j) IN s[i]
SetGap(q, i, d) == IF i = 1 THEN [q EXCEPT !.os_dly = d] ELSE [q EXCEPT !.delta[q.dly[i - 1]] = d]

(* The task is put before the first one that is due later; that one gets the  *)
(* time that is left behind it.                                               *)
rt_put_dly(q, t, d) ==
    LET n == Len(q.dly)
        i == CHOOSE j \in 1 .. n + 1 : /\ \A l \in 1 .. j - 1 : Due(q, l) < d
                                       /\ j <= n => Due(q, j) >= d
    IN  [SetGap(q, i, d - Due(q, i - 1)) EXCEPT !.dly = Put(@, i - 1, t),
                                                !.delta[t] = IF i <= n THEN Due(q, i) - d ELSE 0]

(* Mutant of rt_rmv_dly: the time of the task taken out gets lost. *)
rt_rmv_dly_Lost(q, t) ==
    IF ~In(q.dly, t) THEN q
    ELSE LET i == Index(q.dly, t)
             d == IF i < Len(q.dly) THEN Gap(q, i + 1) ELSE 0
         IN  [SetGap(q, i, d) EXCEPT !.dly = Cut(@, i)]

(* The entry before gets the time of the task that is taken out. *)
rt_rmv_dly(q, t) ==
    IF ~In(q.dly, t) THEN q
    ELSE LET i == Index(q.dly, t)
             d == IF i < Len(q.dly) THEN Gap(q, i) + Gap(q, i + 1) ELSE 0
         IN  [SetGap(q, i, d) EXCEPT !.dly = Cut(@, i)]

(* A tick of the delay list: the tasks that are due leave the list they wait  *)
(* in and become ready, in order.                                             *)
rt_dec_dly(q) ==
    IF q.dly = <<>> THEN q
    ELSE LET r == [q EXCEPT !.os_dly = @ - 1]
             n == CHOOSE m \in 0 .. Len(q.dly) : /\ \A j \in 1 .. m : Gap(r, j) = 0
                                                 /\ m < Len(q.dly) => Gap(r, m + 1) > 0
             due == SubSeq(q.dly, 1, n)
             rest == [r EXCEPT !.dly = SubSeq(@, n + 1, Len(@)),
                               !.os_dly = IF n = 0 THEN @ ELSE q.delta[due[n]],
                               !.wait = [c \in Blocks |-> SelectSeq(q.wait[c], LAMBDA t : ~In(due, t))]]
             itv(s, t) == IF q.state[t] = "WAIT_ITV"
                          THEN [s EXCEPT !.delta[t] = (q.itv[t] + q.time) % TimeWrap] ELSE s
             wake[j \in 0 .. n] == IF j = 0 THEN rest ELSE Ready(itv(wake[j - 1], due[j]), due[j])
         IN  wake[n]

-----------------------------------------------------------------------------
(* rt_Task.c                                                                  *)

rt_switch_req(q, t) == [q EXCEPT !.run = t, !.state[t] = "RUNNING"]
DispatchFirst(q) == rt_switch_req([q EXCEPT !.rdy = Tail(@)], Head(q.rdy))

(* A task that has become ready runs at once if its priority is higher. *)
rt_dispatch(q, t) ==
    IF q.prio[t] > q.prio[q.run] THEN rt_switch_req(rt_put_rdy_first(q), t) ELSE Ready(q, t)

(* The running task gives way to the first ready one of higher priority. *)
Yield(q) ==
    IF q.rdy # <<>> /\ q.prio[Head(q.rdy)] > q.prio[q.run]
    THEN DispatchFirst(Ready(q, q.run)) ELSE q

rt_block(q, timeout, state) ==
    LET t == q.run IN
    IF timeout = 0 THEN q
    ELSE DispatchFirst([(IF timeout = Forever THEN q ELSE rt_put_dly(q, t, timeout))
                            EXCEPT !.state[t] = state, !.ret[t] = "TMO"])

rt_tsk_pass(q) ==
    IF q.prio[Head(q.rdy)] = q.prio[q.run]
    THEN LET first == Head(q.rdy)
             r == Ready([q EXCEPT !.rdy = Tail(@)], q.run)
         IN  rt_switch_req(r, first)
    ELSE q

rt_tsk_prio(q, t, p) ==
    LET r == [q EXCEPT !.prio[t] = p]
        s == rt_resort_prio(r, t)
    IN  IF t = q.run THEN Yield(r)
        ELSE IF s.state[t] = "READY"
             THEN rt_dispatch([s EXCEPT !.rdy = Tail(@)], Head(s.rdy))
             ELSE s

rt_tsk_delete(q, t) ==
    IF t = q.run
    THEN DispatchFirst([q EXCEPT !.state[t] = "INACTIVE", !.active = @ \ {t}])
    ELSE LET r == rt_rmv_dly(rt_rmv_list(q, t), t)
         IN  [r EXCEPT !.active = @ \ {t}]

(* Creating a task: a fresh control block, then the dispatcher. *)
rt_init_context(q, t) ==
    [q EXCEPT !.state[t] = "READY", !.prio[t] = Prio[t], !.events[t] = {}, !.waits[t] = {},
              !.itv[t] = 0, !.delta[t] = 0, !.active = @ \cup {t}]
svcThreadCreate(q, t) == rt_dispatch(rt_init_context(q, t), t)

-----------------------------------------------------------------------------
(* rt_Time.c, rt_Robin.c, rt_System.c                                         *)

rt_itv_set(q, i) == [q EXCEPT !.itv[q.run] = i, !.delta[q.run] = (i + q.time) % TimeWrap]

(* The call returns at once when the time has passed already. *)
rt_itv_wait(q) ==
    LET delta == (q.delta[q.run] - q.time) % TimeWrap
        r == [q EXCEPT !.delta[q.run] = (@ + q.itv[q.run]) % TimeWrap]
    IN  IF delta < TimeWrap \div 2 THEN rt_block(r, delta, "WAIT_ITV") ELSE r

rt_chk_robin(q) ==
    LET r == IF q.robin # Head(q.rdy)
             THEN [q EXCEPT !.robin = Head(q.rdy), !.rtime = (q.time + Tout - 1) % TimeWrap]
             ELSE q
    IN  IF r.rtime = r.time
        THEN [r EXCEPT !.robin = None, !.rdy = rt_put_prio(Tail(@), Head(@), r.prio)]
        ELSE r

rt_systick(q) ==
    LET r == rt_chk_robin(rt_put_rdy_first(q))
    IN  DispatchFirst(rt_dec_dly([r EXCEPT !.time = (@ + 1) % TimeWrap]))

(* Waking up from the sleep of the idle task after n ticks. *)
rt_resume(q, n) ==
    LET r == [rt_put_rdy_first(q) EXCEPT !.robin = None]
        step(s) == rt_dec_dly([s EXCEPT !.time = (@ + 1) % TimeWrap])
        ticks[j \in 0 .. n] == IF j = 0 THEN r ELSE step(ticks[j - 1])
    IN  DispatchFirst(ticks[n])

-----------------------------------------------------------------------------
(* rt_Event.c                                                                 *)

rt_evt_wait(q, flags, timeout, and) ==
    LET t == q.run
        hit == q.events[t] \cap flags
    IN  IF IF and THEN hit = flags ELSE hit # {}
        THEN [q EXCEPT !.events[t] = @ \ flags, !.waits[t] = IF and THEN @ ELSE hit, !.ret[t] = "EVT"]
        ELSE rt_block([q EXCEPT !.waits[t] = flags, !.ret[t] = "TMO"], timeout,
                      IF and THEN "WAIT_AND" ELSE "WAIT_OR")

(* The events that have been set are what the task waits for. *)
Wakes(q, t) ==
    \/ q.state[t] = "WAIT_AND" /\ q.waits[t] \subseteq q.events[t]
    \/ q.state[t] = "WAIT_OR" /\ q.events[t] \cap q.waits[t] # {}

Woken(q, t) ==
    rt_rmv_dly([q EXCEPT !.waits[t] = IF q.state[t] = "WAIT_OR" THEN @ \cap q.events[t] ELSE @,
                         !.events[t] = @ \ q.waits[t], !.state[t] = "READY", !.ret[t] = "EVT"], t)

rt_evt_set(q, flags, t) ==
    LET r == [q EXCEPT !.events[t] = @ \cup flags]
    IN  IF Wakes(r, t) THEN rt_dispatch(Woken(r, t), t) ELSE r

rt_evt_psh(q, t, flags) ==
    LET r == [q EXCEPT !.events[t] = @ \cup flags]
    IN  IF Wakes(r, t) THEN Ready(Woken(r, t), t) ELSE r

rt_evt_clr(q, flags, t) == [q EXCEPT !.events[t] = @ \ flags]

-----------------------------------------------------------------------------
(* rt_Semaphore.c                                                             *)

(* The first task that waits at c, taken out with its answer. *)
First(q, c) == Head(q.wait[c])

(* Mutant of rt_get_first: its timeout goes on. *)
rt_get_first_Delayed(q, c, answer) ==
    [q EXCEPT !.wait[c] = Tail(@), !.ret[Head(q.wait[c])] = answer]

rt_get_first(q, c, answer) ==
    LET t == Head(q.wait[c])
    IN  rt_rmv_dly([q EXCEPT !.wait[c] = Tail(@), !.ret[t] = answer], t)

rt_sem_send(q) ==
    IF q.wait["sem"] # <<>>
    THEN rt_dispatch(rt_get_first(q, "sem", "SEM"), First(q, "sem"))
    ELSE [q EXCEPT !.tokens = @ + 1]

Queue(q, c) == [q EXCEPT !.wait[c] = IF @ # <<>> THEN rt_put_prio(@, q.run, q.prio) ELSE <<q.run>>]

rt_sem_wait(q, timeout) ==
    IF q.tokens > 0 THEN [q EXCEPT !.tokens = @ - 1, !.ret[q.run] = "SEM"]
    ELSE IF timeout = 0 THEN [q EXCEPT !.ret[q.run] = "TMO"]
    ELSE rt_block(Queue(q, "sem"), timeout, "WAIT_SEM")

(* Mutant of rt_sem_psh: the tasks that wait are not looked at. *)
rt_sem_psh_Count(q) == [q EXCEPT !.tokens = @ + 1]

rt_sem_psh(q) ==
    IF q.wait["sem"] # <<>>
    THEN Ready(rt_get_first(q, "sem", "SEM"), First(q, "sem"))
    ELSE [q EXCEPT !.tokens = @ + 1]

(* Everybody who waits at c is made ready; then the highest one runs. *)
Release(q, c) ==
    LET n == Len(q.wait[c])
        free[j \in 0 .. n] ==
            IF j = 0 THEN q
            ELSE LET r == free[j - 1] IN Ready(rt_get_first(r, c, "DEL"), First(r, c))
    IN  Yield(free[n])

rt_sem_delete(q) == Release([q EXCEPT !.tokens = 0], "sem")

-----------------------------------------------------------------------------
(* rt_Mailbox.c                                                               *)

Receivers(q) == q.wait["mbx"] # <<>> /\ q.mbx = 1
Senders(q) == q.wait["mbx"] # <<>> /\ q.mbx = 2

(* A message put into a full ring overwrites the oldest one, which is then    *)
(* read twice.                                                                *)
Store(box, msg) == IF Len(box) < BoxSize THEN Append(box, msg) ELSE Append([box EXCEPT ![1] = msg], msg)

rt_mbx_send(q, msg, timeout) ==
    IF Receivers(q) THEN rt_dispatch(rt_get_first(q, "mbx", msg), First(q, "mbx"))
    ELSE IF Len(q.box) < BoxSize THEN [q EXCEPT !.box = Append(@, msg), !.ret[q.run] = "OK"]
    ELSE IF timeout = 0 THEN [q EXCEPT !.ret[q.run] = "TMO"]
    ELSE rt_block([Queue(q, "mbx") EXCEPT !.mbx = IF q.wait["mbx"] = <<>> THEN 2 ELSE @,
                                          !.msg[q.run] = msg], timeout, "WAIT_MBX")

(* Mutant of rt_mbx_wait: the message stays when a sender takes its place. *)
rt_mbx_wait_Again(q, timeout) ==
    IF q.box # <<>>
    THEN LET r == [q EXCEPT !.ret[q.run] = Head(q.box)]
         IN  IF Senders(q)
             THEN LET s == First(q, "mbx")
                  IN  rt_dispatch([rt_get_first(r, "mbx", "OK") EXCEPT !.box = Append(@, q.msg[s])], s)
             ELSE [r EXCEPT !.box = Tail(@)]
    ELSE q

(* The first message; the place it leaves is taken by a waiting sender. *)
rt_mbx_wait(q, timeout) ==
    IF q.box # <<>>
    THEN LET r == [q EXCEPT !.ret[q.run] = Head(q.box)]
         IN  IF Senders(q)
             THEN LET s == First(q, "mbx")
                  IN  rt_dispatch([rt_get_first(r, "mbx", "OK") EXCEPT
                                      !.box = Append(Tail(@), q.msg[s])], s)
             ELSE [r EXCEPT !.box = Tail(@)]
    ELSE IF timeout = 0 THEN [q EXCEPT !.ret[q.run] = "TMO"]
    ELSE rt_block([Queue(q, "mbx") EXCEPT !.mbx = IF q.wait["mbx"] = <<>> THEN 1 ELSE @],
                  timeout, "WAIT_MBX")

rt_mbx_psh(q, msg) ==
    IF Senders(q)
    THEN LET s == First(q, "mbx")
         IN  Ready([rt_get_first(q, "mbx", "OK") EXCEPT !.box = Store(@, q.msg[s])], s)
    ELSE IF Receivers(q) THEN Ready(rt_get_first(q, "mbx", msg), First(q, "mbx"))
    ELSE IF Len(q.box) < BoxSize THEN [q EXCEPT !.box = Append(@, msg)]
    ELSE [q EXCEPT !.error = "MBX_OVF"]

-----------------------------------------------------------------------------
(* rt_Mutex.c                                                                 *)

rt_mut_wait(q, m, timeout) ==
    LET t == q.run
        o == q.owner[m]
    IN  IF q.level[m] = 0
        THEN [q EXCEPT !.owner[m] = t, !.mprio[m] = q.prio[t], !.level[m] = 1, !.ret[t] = "OK"]
        ELSE IF o = t THEN [q EXCEPT !.level[m] = @ + 1, !.ret[t] = "OK"]
        ELSE IF timeout = 0 THEN [q EXCEPT !.ret[t] = "TMO"]
        ELSE LET r == IF q.mprio[m] < q.prio[t]
                      THEN rt_resort_prio([q EXCEPT !.prio[o] = q.prio[t]], o) ELSE q
             IN  rt_block(Queue(r, m), timeout, "WAIT_MUT")

RestorePrio(q, m) == [q EXCEPT !.prio[q.run] = q.mprio[m]]

rt_mut_release(q, m) ==
    IF q.level[m] = 0 \/ q.owner[m] # q.run THEN [q EXCEPT !.ret[q.run] = "NOK"]
    ELSE IF q.level[m] > 1 THEN [q EXCEPT !.level[m] = @ - 1, !.ret[q.run] = "OK"]
    ELSE LET r == RestorePrio([q EXCEPT !.level[m] = 0, !.ret[q.run] = "OK"], m)
         IN  IF q.wait[m] = <<>> THEN Yield(r)
             ELSE LET t == First(q, m)
                      s == [rt_get_first(r, m, "OK") EXCEPT !.level[m] = 1, !.owner[m] = t,
                                                            !.mprio[m] = r.prio[t]]
                  IN  IF s.prio[s.run] >= s.prio[Head(s.rdy)] THEN rt_dispatch(s, t)
                      ELSE DispatchFirst(Ready(Ready(s, s.run), t))

(* The mutex is free again, as after rt_mut_init. *)
rt_mut_delete(q, m) ==
    LET o == q.owner[m]
        r == IF q.level[m] # 0 THEN [q EXCEPT !.prio[o] = q.mprio[m]] ELSE q
        s == IF q.level[m] # 0 /\ o # q.run THEN rt_resort_prio(r, o) ELSE r
    IN  Release([s EXCEPT !.level[m] = 0], m)

-----------------------------------------------------------------------------
Init ==
    /\ LET order[n \in 0 .. Cardinality(Tasks)] ==
               IF n = 0 THEN <<"idle">>
               ELSE LET rest == {t \in Tasks : ~In(order[n - 1], t)}
                        t == CHOOSE t \in rest : TRUE
                    IN  rt_put_prio(order[n - 1], t, [u \in All |-> IF u = "idle" THEN 0 ELSE Prio[u]])
           all == order[Cardinality(Tasks)]
       IN  k = [run |-> Head(all), rdy |-> Tail(all), dly |-> <<>>, os_dly |-> 0,
                state |-> [t \in All |-> IF t = Head(all) THEN "RUNNING" ELSE "READY"],
                prio |-> [t \in All |-> IF t = "idle" THEN 0 ELSE Prio[t]],
                active |-> All, ret |-> [t \in All |-> "OK"],
                events |-> [t \in All |-> {}], waits |-> [t \in All |-> {}],
                itv |-> [t \in All |-> 0], delta |-> [t \in All |-> 0],
                time |-> 0, robin |-> None, rtime |-> 0,
                wait |-> [c \in Blocks |-> <<>>], tokens |-> 0,
                box |-> <<>>, mbx |-> 0, msg |-> [t \in All |-> Null],
                level |-> [m \in Mutexes |-> 0], owner |-> [m \in Mutexes |-> None],
                mprio |-> [m \in Mutexes |-> 0], psq |-> <<>>, error |-> None]
    /\ left = [t \in All |-> 0] /\ grid = [t \in All |-> 0]
    /\ taken = {} /\ issued = 0

(* Who is in the delay list after a call, and how long: a task that is new    *)
(* in it has the whole timeout, one that has left it nothing.                 *)
Account(r, timeout) ==
    left' = [t \in All |-> IF ~In(r.dly, t) THEN 0
                           ELSE IF In(k.dly, t) THEN left[t] ELSE timeout]

Running == k.error = None /\ k.psq = <<>> /\ k.run # "idle"

(* The running task makes a kernel call.  A task that has an interval makes   *)
(* no other call with a timeout, unless they are "mixed".                     *)
Call(op, r, timeout) ==
    /\ op \in Ops /\ Running
    /\ timeout \in {0, Forever} \/ op = "interval" \/ k.itv[k.run] = 0 \/ "mixed" \in Ops
    /\ k' = r
    /\ Account(r, timeout)

Quiet == UNCHANGED <<grid, taken, issued>>

Delay == \E n \in 1 .. MaxTimeout : Call("delay", rt_block(k, n, "WAIT_DLY"), n) /\ Quiet
Pass == Call("pass", rt_tsk_pass(k), 0) /\ Quiet
SetPrio == \E t \in k.active \ {"idle"}, p \in 1 .. 3 : Call("prio", rt_tsk_prio(k, t, p), 0) /\ Quiet
Delete == \E t \in k.active \ {"idle"} : Call("delete", rt_tsk_delete(k, t), 0) /\ Quiet
Create == \E t \in Tasks \ k.active : Call("delete", svcThreadCreate(k, t), 0) /\ Quiet
SetInterval ==
    /\ \E n \in 1 .. MaxTimeout :
          Call("interval", rt_itv_set(k, n), 0) /\ grid' = [grid EXCEPT ![k.run] = (k.time + n) % TimeWrap]
    /\ UNCHANGED <<taken, issued>>
(* The wait is to end where the interval does, and the next one starts there. *)
WaitInterval ==
    /\ k.itv[k.run] > 0
    /\ Call("interval", rt_itv_wait(k), (grid[k.run] - k.time) % TimeWrap)
    /\ grid' = [grid EXCEPT ![k.run] = (@ + k.itv[k.run]) % TimeWrap]
    /\ UNCHANGED <<taken, issued>>
(* No flags: any of all flags; otherwise all of them. *)
EventWait ==
    \E f \in SUBSET Flags, n \in Timeouts :
        /\ Call("event", IF f = {} THEN rt_evt_wait(k, Flags, n, FALSE) ELSE rt_evt_wait(k, f, n, TRUE), n)
        /\ Quiet
EventSet == \E f \in Flags, t \in k.active \ {"idle"} : Call("event", rt_evt_set(k, {f}, t), 0) /\ Quiet
EventClear == \E f \in Flags, t \in k.active \ {"idle"} : Call("event", rt_evt_clr(k, {f}, t), 0) /\ Quiet
SemWait == \E n \in Timeouts : Call("sem", rt_sem_wait(k, n), n) /\ Quiet
SemSend == k.tokens < 2 /\ Call("sem", rt_sem_send(k), 0) /\ Quiet
SemDelete == Call("semdel", rt_sem_delete(k), 0) /\ Quiet
MutWait ==
    \E m \in Mutexes, n \in Timeouts :
        (k.owner[m] = k.run => k.level[m] < 2) /\ Call("mutex", rt_mut_wait(k, m, n), n) /\ Quiet
MutRelease == \E m \in Mutexes : Call("mutex", rt_mut_release(k, m), 0) /\ Quiet
MutDelete == \E m \in Mutexes : Call("mutdel", rt_mut_delete(k, m), 0) /\ Quiet

(* Messages are numbered.  One that reaches a receiver has been taken. *)
MsgWait ==
    /\ \E n \in Timeouts : Call("mbx", rt_mbx_wait(k, n), n)
    /\ taken' = IF k.box # <<>> THEN taken \cup {Head(k.box)} ELSE taken
    /\ UNCHANGED <<grid, issued>>
MsgSend ==
    /\ issued < MaxMsgs
    /\ \E n \in Timeouts : Call("mbx", rt_mbx_send(k, issued + 1, n), n)
    /\ taken' = IF Receivers(k) THEN taken \cup {issued + 1} ELSE taken
    /\ issued' = issued + 1 /\ UNCHANGED grid

-----------------------------------------------------------------------------
(* Interrupts.                                                                *)

Tick ==
    /\ k.error = None /\ k.psq = <<>>
    /\ \E r \in {rt_systick(k)} :
          /\ k' = r
          /\ left' = [t \in All |-> IF In(r.dly, t) THEN left[t] - 1 ELSE 0]
    /\ Quiet

(* The idle task sleeps; at most until the first task is due. *)
Sleep ==
    /\ "sleep" \in Ops /\ k.error = None /\ k.psq = <<>> /\ k.run = "idle"
    /\ \E n \in 1 .. MaxTimeout :
          /\ k.dly # <<>> => n <= k.os_dly
          /\ \E r \in {rt_resume(k, n)} :
                /\ k' = r
                /\ left' = [t \in All |-> IF In(r.dly, t) THEN left[t] - n ELSE 0]
    /\ Quiet

rt_psq_enq(q, req) ==
    IF Len(q.psq) < QueueSize THEN [q EXCEPT !.psq = Append(@, req)] ELSE [q EXCEPT !.error = "FIFO_OVF"]

Isr(op, req) ==
    /\ op \in Ops /\ k.error = None
    /\ k' = rt_psq_enq(k, req)
    /\ UNCHANGED left

isr_evt_set ==
    /\ \E f \in Flags, t \in k.active \ {"idle"} : Isr("isr_event", [id |-> t, arg |-> f])
    /\ Quiet
isr_sem_send == k.tokens < 2 /\ Isr("isr_sem", [id |-> "sem", arg |-> Null]) /\ Quiet
(* A message is sent only if the mailbox has room for it. *)
isrMessagePut ==
    /\ issued < MaxMsgs /\ Len(k.box) < BoxSize
    /\ Isr("isr_mbx", [id |-> "mbx", arg |-> issued + 1])
    /\ issued' = issued + 1 /\ UNCHANGED <<grid, taken>>

(* A message is received in an interrupt; a task that waits to send is let    *)
(* in by a request with a null message.                                       *)
isr_mbx_receive ==
    /\ "isr_receive" \in Ops /\ k.error = None /\ k.box # <<>>
    /\ LET r == [k EXCEPT !.box = Tail(@)]
       IN  k' = IF k.mbx = 2 THEN rt_psq_enq(r, [id |-> "mbx", arg |-> Null]) ELSE r
    /\ taken' = taken \cup {Head(k.box)}
    /\ UNCHANGED <<left, grid, issued>>

Request(q, req) ==
    CASE req.id = "sem" -> rt_sem_psh(q)
      [] req.id = "mbx" -> rt_mbx_psh(q, req.arg)
      [] OTHER          -> rt_evt_psh(q, req.id, {req.arg})

(* The requests of the interrupts are served in order. *)
rt_pop_req ==
    /\ k.error = None /\ k.psq # <<>>
    /\ LET q == rt_put_rdy_first([k EXCEPT !.psq = <<>>])
           n == Len(k.psq)
           pop[j \in 0 .. n] == IF j = 0 THEN q ELSE Request(pop[j - 1], k.psq[j])
           r == pop[n]
       IN  /\ k' = DispatchFirst(r)
           /\ taken' = taken \cup {k.psq[j].arg : j \in {j \in 1 .. n :
                           k.psq[j].id = "mbx" /\ Receivers(pop[j - 1]) /\ ~Senders(pop[j - 1])}}
           /\ Account(r, 0)
    /\ UNCHANGED <<grid, issued>>

(* A kernel error stops the system. *)
os_error == k.error # None /\ UNCHANGED vars

Next ==
    \/ Delay \/ Pass \/ SetPrio \/ Delete \/ Create \/ SetInterval \/ WaitInterval
    \/ EventWait \/ EventSet \/ EventClear \/ SemWait \/ SemSend \/ SemDelete
    \/ MutWait \/ MutRelease \/ MutDelete \/ MsgWait \/ MsgSend
    \/ Tick \/ Sleep \/ isr_evt_set \/ isr_sem_send \/ isrMessagePut \/ isr_mbx_receive \/ rt_pop_req
    \/ os_error

Spec == Init /\ [][Next]_vars

-----------------------------------------------------------------------------
(* Every task is where its state says: the running one in no list, a ready    *)
(* one once in the ready list, one that waits in the list it waits in, and in *)
(* the delay list exactly when it has a timeout.                              *)
ListsAgree ==
    \A t \in k.active :
        /\ (k.state[t] = "RUNNING") = (k.run = t)
        /\ (k.state[t] = "READY") = In(k.rdy, t)
        /\ In(k.rdy, t) => Cardinality({i \in 1 .. Len(k.rdy) : k.rdy[i] = t}) = 1
        /\ (k.state[t] \in {"WAIT_SEM", "WAIT_MBX", "WAIT_MUT"}) = (Waiting(k, t) # {})
        /\ In(k.dly, t) = (left[t] > 0)
        /\ k.state[t] \in {"RUNNING", "READY"} => ~In(k.dly, t)

(* A task that waits with a timeout is due after exactly the ticks that are   *)
(* left of it, whatever other tasks have been put before it in the delay list *)
(* or taken out of it; and a task with an interval finds the end of the next  *)
(* one in delta_time, which the list has used in between, so that its         *)
(* intervals follow each other without drift.                                 *)
DelaysExact ==
    /\ \A i \in 1 .. Len(k.dly) : Due(k, i) = left[k.dly[i]]
    /\ \A t \in k.active : k.itv[t] > 0 /\ ~In(k.dly, t) => k.delta[t] = grid[t]

(* No ready task has a higher priority than the one that runs. *)
HighestRuns == \A i \in 1 .. Len(k.rdy) : k.prio[k.rdy[i]] <= k.prio[k.run]

(* A task never sleeps on events that have been set, nor at a semaphore that  *)
(* has tokens, nor at a mutex that is free.                                   *)
NoLostWakeup ==
    /\ \A t \in k.active : k.psq = <<>> => ~Wakes(k, t)
    /\ k.wait["sem"] # <<>> => k.tokens = 0
    /\ \A m \in Mutexes : k.wait[m] # <<>> => k.level[m] > 0

(* A message that has been handed over is received exactly once: nobody       *)
(* receives one that is still in the mailbox, or one that was never sent.     *)
MessagesOnce ==
    /\ \A i \in 1 .. Len(k.box) : k.box[i] \in 1 .. issued /\ k.box[i] \notin taken
    /\ \A i, j \in 1 .. Len(k.box) : i # j => k.box[i] # k.box[j]
    /\ taken \subseteq 1 .. issued

(* A task that holds no mutex has its own priority again. *)
OwnPrio ==
    \A t \in Tasks :
        (\A m \in Mutexes : k.level[m] = 0 \/ k.owner[m] # t) => k.prio[t] = Prio[t]

=============================================================================
