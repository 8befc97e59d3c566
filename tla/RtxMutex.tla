------------------------------- MODULE RtxMutex -------------------------------
(***************************************************************************)
(* The RTX mutex control block (OS_MUCB of the mbed-rtos kernel) and the   *)
(* three kernel operations that change one: rt_mut_wait, rt_mut_release    *)
(* and the unlinking that rt_tsk_delete performs.                          *)
(*                                                                         *)
(* Every thread of the firmware has the same priority, so rt_put_prio      *)
(* appends to the waiting list and rt_get_first takes its head: the list   *)
(* is a FIFO queue.  The priority fields, which only matter when           *)
(* priorities differ, are left out.                                        *)
(***************************************************************************)
EXTENDS Integers, Sequences

NoTask == "none"    \* the owner of a free mutex

(* The values the control block of a mutex that the set T of tasks use can take. *)
MUCB(T) == [owner : T \cup {NoTask}, level : Nat, wait : Seq(T)]

(* rt_mut_init *)
rt_mut_init == [owner |-> NoTask, level |-> 0, wait |-> << >>]

(* t is in the list of tasks waiting for the mutex c. *)
Queued(c, t) == \E i \in 1..Len(c.wait) : c.wait[i] = t

(* rt_mut_wait with an infinite timeout: take the mutex if it is free, count  *)
(* one more level if t owns it already, else join the end of the list.        *)
rt_mut_wait(c, t) ==
    IF c.level = 0
    THEN [owner |-> t, level |-> 1, wait |-> c.wait]
    ELSE IF c.owner = t
         THEN [owner |-> t, level |-> c.level + 1, wait |-> c.wait]
         ELSE [owner |-> c.owner, level |-> c.level, wait |-> Append(c.wait, t)]

(* Mutant of rt_mut_release: the hand-over forgets to set the level to 1. *)
rt_mut_release_NoLevel(c, t) ==
    IF c.level = 0 \/ c.owner # t
    THEN c
    ELSE IF c.level = 1 /\ c.wait # << >>
         THEN [owner |-> Head(c.wait), level |-> 0, wait |-> Tail(c.wait)]
         ELSE [c EXCEPT !.level = c.level - 1]

(* rt_mut_release: an unbalanced release or one by another task changes       *)
(* nothing; the last release hands the mutex to the first waiting task, which *)
(* owns it from that moment; without one the mutex is free.  (The code leaves *)
(* the stale owner in a free block and looks at level only; the model clears  *)
(* it, so that owner = NoTask says the same as level = 0.)                    *)
rt_mut_release(c, t) ==
    IF c.level = 0 \/ c.owner # t
    THEN c
    ELSE IF c.level > 1
         THEN [owner |-> t, level |-> c.level - 1, wait |-> c.wait]
         ELSE IF c.wait # << >>
              THEN [owner |-> Head(c.wait), level |-> 1, wait |-> Tail(c.wait)]
              ELSE rt_mut_init

(* rt_tsk_delete unlinks the task from the list it waits in (rt_rmv_list).    *)
(* It releases no mutex: a mutex the task owns stays owned by a dead task.    *)
rt_rmv_list(c, t) ==
    IF Queued(c, t)
    THEN LET k == CHOOSE k \in 1..Len(c.wait) : c.wait[k] = t
         IN  [owner |-> c.owner, level |-> c.level,
              wait |-> [i \in 1..(Len(c.wait) - 1) |-> c.wait[IF i < k THEN i ELSE i + 1]]]
    ELSE c
=============================================================================
