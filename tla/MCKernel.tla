------------------------------ MODULE MCKernel ------------------------------
(***************************************************************************)
(* The RTX kernel, its mail queues and its timers. The scenarios differ in *)
(* the calls the tasks and the interrupts make; the state of the timers is *)
(* that of RtxTimers, which this module extends, and v1 .. v7 are the      *)
(* state of the scenario a behaviour belongs to otherwise.                 *)
(***************************************************************************)
EXTENDS RtxTimers

(* Priorities of the tasks in the scenarios. *)
Two   == {"a", "b"}
Three == {"a", "b", "c"}
PrioMixed(T) == [t \in T |-> IF t = "a" THEN 1 ELSE 2]
PrioSteps == [t \in Three |-> CASE t = "a" -> 1 [] t = "b" -> 2 [] t = "c" -> 3]
Forever == -1    \* the timeout 0xffff

(* What the scenarios have in common. *)
Tout == 2

VARIABLES
    part,   \* which scenario a behaviour belongs to
    v1, v2, v3, v4, v5, v6, v7, v8   \* its state

all == <<part, vars, v1, v2, v3, v4, v5, v6, v7, v8>>

Delay == INSTANCE RtxKernel WITH
    k <- v1, left <- v2, grid <- v3, taken <- v4, issued <- v5,
    Tasks <- Three, Prio <- PrioMixed(Three),
    Ops <- {"delay", "delete", "sleep"}, Flags <- {}, Mutexes <- {},
    MaxTimeout <- 3, TimeWrap <- 7, BoxSize <- 1, MaxMsgs <- 0

Interval == INSTANCE RtxKernel WITH
    k <- v1, left <- v2, grid <- v3, taken <- v4, issued <- v5,
    Tasks <- Two, Prio <- PrioMixed(Two), Ops <- {"interval", "delay"},
    Flags <- {}, Mutexes <- {}, MaxTimeout <- 2, TimeWrap <- 5, BoxSize <- 1,
    MaxMsgs <- 0

Priority == INSTANCE RtxKernel WITH
    k <- v1, left <- v2, grid <- v3, taken <- v4, issued <- v5,
    Tasks <- Three, Prio <- PrioMixed(Three),
    Ops <- {"delay", "prio", "pass", "delete"}, Flags <- {}, Mutexes <- {},
    MaxTimeout <- 1, TimeWrap <- 3, BoxSize <- 1, MaxMsgs <- 0

Event == INSTANCE RtxKernel WITH
    k <- v1, left <- v2, grid <- v3, taken <- v4, issued <- v5,
    Tasks <- Two, Prio <- PrioMixed(Two), Ops <- {"event", "isr_event"},
    Flags <- {"f", "g"}, Mutexes <- {}, MaxTimeout <- 1, TimeWrap <- 2,
    BoxSize <- 1, MaxMsgs <- 0

Sem == INSTANCE RtxKernel WITH
    k <- v1, left <- v2, grid <- v3, taken <- v4, issued <- v5,
    Tasks <- Three, Prio <- PrioMixed(Three),
    Ops <- {"sem", "semdel", "isr_sem", "delay"}, Flags <- {}, Mutexes <- {},
    MaxTimeout <- 1, TimeWrap <- 3, BoxSize <- 1, MaxMsgs <- 0

Mbx == INSTANCE RtxKernel WITH
    k <- v1, left <- v2, grid <- v3, taken <- v4, issued <- v5,
    Tasks <- Three, Prio <- PrioMixed(Three), Ops <- {"mbx", "isr_mbx"},
    Flags <- {}, Mutexes <- {}, MaxTimeout <- 1, TimeWrap <- 3, BoxSize <- 1,
    MaxMsgs <- 3

\* the interrupt receives messages too
MbxIsr == INSTANCE RtxKernel WITH
    k <- v1, left <- v2, grid <- v3, taken <- v4, issued <- v5,
    Tasks <- Two, Prio <- PrioMixed(Two),
    Ops <- {"mbx", "isr_mbx", "isr_receive"}, Flags <- {}, Mutexes <- {},
    MaxTimeout <- 1, TimeWrap <- 3, BoxSize <- 1, MaxMsgs <- 3

Mutex == INSTANCE RtxKernel WITH
    k <- v1, left <- v2, grid <- v3, taken <- v4, issued <- v5,
    Tasks <- Three, Prio <- PrioSteps, Ops <- {"mutex", "mutdel", "delay"},
    Flags <- {}, Mutexes <- {"m"}, MaxTimeout <- 1, TimeWrap <- 3,
    BoxSize <- 1, MaxMsgs <- 0

Mail == INSTANCE RtxMail WITH
    k <- v1, left <- v2, grid <- v3, taken <- v4, issued <- v5, free <- v6,
    held <- v7, wants <- v8,
    Tasks <- Three, Prio <- PrioMixed(Three), Ops <- {}, Flags <- {},
    Mutexes <- {}, MaxTimeout <- 1, TimeWrap <- 3, BoxSize <- 2, MaxMsgs <- 0,
    MailBlocks <- {1, 2}, AllocTimeouts <- {0, Forever}, GetTimeouts <- {0},
    Frees <- {"task"}

\* tasks that wait for a block give up
MailLate == INSTANCE RtxMail WITH
    k <- v1, left <- v2, grid <- v3, taken <- v4, issued <- v5, free <- v6,
    held <- v7, wants <- v8,
    Tasks <- Three, Prio <- PrioMixed(Three), Ops <- {}, Flags <- {},
    Mutexes <- {}, MaxTimeout <- 1, TimeWrap <- 3, BoxSize <- 2, MaxMsgs <- 0,
    MailBlocks <- {1, 2}, AllocTimeouts <- {1, Forever}, GetTimeouts <- {0},
    Frees <- {"task"}

\* tasks wait for blocks and for mail, and give up
MailBoth == INSTANCE RtxMail WITH
    k <- v1, left <- v2, grid <- v3, taken <- v4, issued <- v5, free <- v6,
    held <- v7, wants <- v8,
    Tasks <- Three, Prio <- PrioMixed(Three), Ops <- {}, Flags <- {},
    Mutexes <- {}, MaxTimeout <- 1, TimeWrap <- 3, BoxSize <- 1, MaxMsgs <- 0,
    MailBlocks <- {1}, AllocTimeouts <- {1}, GetTimeouts <- {1},
    Frees <- {"task"}

\* only the interrupt frees blocks
MailIsr == INSTANCE RtxMail WITH
    k <- v1, left <- v2, grid <- v3, taken <- v4, issued <- v5, free <- v6,
    held <- v7, wants <- v8,
    Tasks <- Two, Prio <- PrioMixed(Two), Ops <- {}, Flags <- {},
    Mutexes <- {}, MaxTimeout <- 1, TimeWrap <- 3, BoxSize <- 2, MaxMsgs <- 0,
    MailBlocks <- {1, 2}, AllocTimeouts <- {0, Forever}, GetTimeouts <- {0},
    Frees <- {"isr"}

MCInit ==
    /\ Init
    /\ \/ part = "timers" /\ v1 = 0 /\ v2 = 0 /\ v3 = 0 /\ v4 = 0 /\ v5 = 0 /\ v6 = 0
            /\ v7 = 0 /\ v8 = 0
       \/ part = "delay" /\ Delay!Init /\ v6 = 0 /\ v7 = 0 /\ v8 = 0
       \/ part = "interval" /\ Interval!Init /\ v6 = 0 /\ v7 = 0 /\ v8 = 0
       \/ part = "prio" /\ Priority!Init /\ v6 = 0 /\ v7 = 0 /\ v8 = 0
       \/ part = "event" /\ Event!Init /\ v6 = 0 /\ v7 = 0 /\ v8 = 0
       \/ part = "sem" /\ Sem!Init /\ v6 = 0 /\ v7 = 0 /\ v8 = 0
       \/ part = "mbx" /\ Mbx!Init /\ v6 = 0 /\ v7 = 0 /\ v8 = 0
       \/ part = "mbx_isr" /\ MbxIsr!Init /\ v6 = 0 /\ v7 = 0 /\ v8 = 0
       \/ part = "mutex" /\ Mutex!Init /\ v6 = 0 /\ v7 = 0 /\ v8 = 0
       \/ part = "mail" /\ Mail!MailInit
       \/ part = "mail_late" /\ MailLate!MailInit
       \/ part = "mail_both" /\ MailBoth!MailInit
       \/ part = "mail_isr" /\ MailIsr!MailInit

MCNext ==
    \/ part = "timers" /\ Next
         /\ UNCHANGED <<part, v1, v2, v3, v4, v5, v6, v7, v8>>
    \/ part = "delay" /\ Delay!Next /\ UNCHANGED <<part, vars, v6, v7, v8>>
    \/ part = "interval" /\ Interval!Next
         /\ UNCHANGED <<part, vars, v6, v7, v8>>
    \/ part = "prio" /\ Priority!Next /\ UNCHANGED <<part, vars, v6, v7, v8>>
    \/ part = "event" /\ Event!Next /\ UNCHANGED <<part, vars, v6, v7, v8>>
    \/ part = "sem" /\ Sem!Next /\ UNCHANGED <<part, vars, v6, v7, v8>>
    \/ part = "mbx" /\ Mbx!Next /\ UNCHANGED <<part, vars, v6, v7, v8>>
    \/ part = "mbx_isr" /\ MbxIsr!Next /\ UNCHANGED <<part, vars, v6, v7, v8>>
    \/ part = "mutex" /\ Mutex!Next /\ UNCHANGED <<part, vars, v6, v7, v8>>
    \/ part = "mail" /\ Mail!MailNext /\ UNCHANGED <<part, vars>>
    \/ part = "mail_late" /\ MailLate!MailNext /\ UNCHANGED <<part, vars>>
    \/ part = "mail_both" /\ MailBoth!MailNext /\ UNCHANGED <<part, vars>>
    \/ part = "mail_isr" /\ MailIsr!MailNext /\ UNCHANGED <<part, vars>>

MCSpec == MCInit /\ [][MCNext]_all

(* A task that waits with a timeout is due after exactly the ticks that are *)
(* left of it, whatever other tasks have been put before it in the delay    *)
(* list or taken out of it; and a task with an interval finds the end of    *)
(* the next one in delta_time, which the list has used in between, so that  *)
(* its intervals follow each other without drift.                           *)
DelaysExact ==
    /\ part = "delay" => Delay!DelaysExact
    /\ part = "interval" => Interval!DelaysExact

(* Every task is in exactly the lists its state says, through timeouts,     *)
(* deletions and interrupts (rt_List.c); no task that is ready has a higher *)
(* priority than the one that runs; and a task that has released its        *)
(* mutexes has lost the priority it inherited (rt_mut_release).             *)
Scheduled ==
    /\ part = "delay" => Delay!ListsAgree
    /\ part = "sem" => Sem!ListsAgree
    /\ part = "mbx_isr" => MbxIsr!ListsAgree
    /\ part = "prio" => Priority!HighestRuns
    /\ part = "mutex" => Mutex!HighestRuns /\ Mutex!OwnPrio

(* No task sleeps for something that is there: a flag, a token or a mutex   *)
(* that is free (rt_evt_psh, rt_sem_psh, rt_mut_release), or a mail block   *)
(* that was given back by a task or an interrupt (sysMailFree,              *)
(* isrMailFree).                                                            *)
NoLostWakeup ==
    /\ part = "event" => Event!NoLostWakeup
    /\ part = "sem" => Sem!NoLostWakeup
    /\ part = "mutex" => Mutex!NoLostWakeup
    /\ part = "mail" => Mail!NobodyForgotten
    /\ part = "mail_late" => MailLate!NobodyForgotten
    /\ part = "mail_isr" => MailIsr!NobodyForgotten

(* A message that was sent is taken out once, although senders and          *)
(* receivers time out and interrupts send too (rt_Mailbox.c), and a mail    *)
(* block is never in two places of pool, queue and tasks, although those    *)
(* who wait for it or for mail give up (rt_CMSIS.c).                        *)
MessagesOnce ==
    /\ part = "mbx" => Mbx!MessagesOnce
    /\ part = "mail" => Mail!BlocksOnce
    /\ part = "mail_late" => MailLate!BlocksOnce
    /\ part = "mail_both" => MailBoth!BlocksOnce
=============================================================================
