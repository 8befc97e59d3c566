------------------------------- MODULE RtxMail -------------------------------
(***************************************************************************)
(* Mail queues of CMSIS-RTOS: a pool of blocks and a mailbox of the RTX     *)
(* kernel.  A task that finds the pool empty waits in the list of the       *)
(* mailbox, the same list in which receivers wait; the state of the mailbox *)
(* says which of them.  Interrupts receive and free blocks too.             *)
(***************************************************************************)
EXTENDS RtxKernel

CONSTANTS
    MailBlocks,      \* blocks of the pool; the mailbox holds as many messages
    AllocTimeouts,   \* timeouts of osMailAlloc
    GetTimeouts,     \* timeouts of osMailGet
    Frees            \* who frees blocks: "task", "isr"

VARIABLES
    free,   \* blocks in the pool
    held,   \* blocks that a task or the interrupt has got
    wants   \* what a task that waits at the mailbox waits for

mailVars == <<k, left, grid, taken, issued, free, held, wants>>

Pool == 0                                     \* the address of the pool, taken for a mail
Holders == Tasks \cup {"isr"}

MailInit ==
    /\ Init
    /\ free = MailBlocks /\ held = [h \in Holders |-> {}] /\ wants = [t \in Tasks |-> "mail"]

(* The block goes to t if that is what t waits for; what a task takes for     *)
(* something else is lost.                                                    *)
Give(t, what, b) == held' = [held EXCEPT ![t] = IF wants[t] = what THEN @ \cup {b} ELSE @,
                                         ![k.run] = @ \ {b}]

Ours == UNCHANGED <<grid, taken, issued>>

sysMailAlloc(timeout) ==
    /\ Running
    /\ IF free # {}
       THEN /\ \E b \in free : free' = free \ {b} /\ held' = [held EXCEPT ![k.run] = @ \cup {b}]
            /\ UNCHANGED <<k, left, wants>>
       ELSE /\ timeout # 0
            /\ \E r \in {rt_block([Queue(k, "mbx") EXCEPT !.mbx = IF k.wait["mbx"] = <<>> THEN 3 ELSE @],
                                  timeout, "WAIT_MBX")} : k' = r /\ Account(r, timeout)
            /\ wants' = [wants EXCEPT ![k.run] = "block"]
            /\ UNCHANGED <<free, held>>
    /\ Ours

(* A task frees a block; in state 3 the first of the list gets it at once.    *)
(* The list may be empty then: the kernel takes a null pointer for a task.    *)
sysMailFree(b) ==
    /\ "task" \in Frees /\ Running /\ b \in held[k.run]
    /\ IF k.mbx = 3
       THEN IF k.wait["mbx"] = <<>> THEN /\ k' = [k EXCEPT !.error = "NULL_TASK"]
                                         /\ UNCHANGED <<left, free, held>>
            ELSE LET t == First(k, "mbx")
                     q == [rt_get_first(k, "mbx", "OK") EXCEPT
                              !.mbx = IF Len(k.wait["mbx"]) = 1 THEN 0 ELSE @] IN
                 /\ \E r \in {rt_dispatch(q, t)} : k' = r /\ Account(r, 0)
                 /\ Give(t, "block", b) /\ UNCHANGED free
       ELSE /\ free' = free \cup {b} /\ held' = [held EXCEPT ![k.run] = @ \ {b}]
            /\ UNCHANGED <<k, left>>
    /\ UNCHANGED wants /\ Ours

(* A block that is put goes to a task that waits for mail, or into the queue. *)
osMailPut(b) ==
    /\ Running /\ b \in held[k.run]
    /\ \E r \in {rt_mbx_send(k, b, 0)} : k' = r /\ Account(r, 0)
    /\ IF Receivers(k) THEN Give(First(k, "mbx"), "mail", b)
       ELSE held' = [held EXCEPT ![k.run] = @ \ {b}]
    /\ UNCHANGED <<free, wants>> /\ Ours

osMailGet(timeout) ==
    /\ Running
    /\ \E r \in {rt_mbx_wait(k, timeout)} : k' = r /\ Account(r, timeout)
    /\ IF k.box # <<>>
       THEN held' = [held EXCEPT ![k.run] = @ \cup {Head(k.box)}] /\ UNCHANGED wants
       ELSE timeout # 0 /\ wants' = [wants EXCEPT ![k.run] = "mail"] /\ UNCHANGED held
    /\ UNCHANGED free /\ Ours

isrMessageGet ==
    /\ "isr" \in Frees /\ k.error = None /\ k.box # <<>>
    /\ k' = [k EXCEPT !.box = Tail(@)]
    /\ held' = [held EXCEPT !["isr"] = @ \cup {Head(k.box)}]
    /\ UNCHANGED <<left, free, wants>> /\ Ours

(* The interrupt frees a block; in state 3 it also asks for the list to be    *)
(* served.                                                                    *)
isrMailFree(b) ==
    /\ "isr" \in Frees /\ k.error = None /\ b \in held["isr"]
    /\ free' = free \cup {b} /\ held' = [held EXCEPT !["isr"] = @ \ {b}]
    /\ k' = IF k.mbx = 3 THEN rt_psq_enq(k, [id |-> "mbx", arg |-> Pool]) ELSE k
    /\ UNCHANGED <<left, wants>> /\ Ours

(* A request: the first of the list gets a block, and if nobody waits any     *)
(* more the request is taken for a message.                                   *)
MailRequest ==
    /\ k.error = None /\ k.psq # <<>>
    /\ LET q == rt_put_rdy_first([k EXCEPT !.psq = Tail(@)])
           t == First(q, "mbx")
       IN  IF q.wait["mbx"] = <<>>
           THEN /\ k' = DispatchFirst(IF Len(q.box) < BoxSize THEN [q EXCEPT !.box = Append(@, Pool)]
                                      ELSE [q EXCEPT !.error = "MBX_OVF"])
                /\ UNCHANGED <<left, free, held>>
           ELSE IF q.mbx = 3 /\ free = {}
           THEN k' = DispatchFirst(q) /\ UNCHANGED <<left, free, held>>
           ELSE LET b == IF q.mbx = 3 THEN CHOOSE b \in free : TRUE ELSE Pool IN
                /\ \E r \in {DispatchFirst(Ready(rt_get_first(q, "mbx", "OK"), t))} : k' = r /\ Account(r, 0)
                /\ held' = [held EXCEPT ![t] = IF wants[t] = "block" THEN @ \cup {b} ELSE @]
                /\ free' = free \ {b}
    /\ UNCHANGED wants /\ Ours

MailTick == Tick /\ UNCHANGED <<free, held, wants>>
MailStop == os_error /\ UNCHANGED <<free, held, wants>>

MailNext ==
    \/ \E n \in AllocTimeouts : sysMailAlloc(n)
    \/ \E b \in MailBlocks : sysMailFree(b) \/ osMailPut(b) \/ isrMailFree(b)
    \/ \E n \in GetTimeouts : osMailGet(n)
    \/ isrMessageGet \/ MailRequest \/ MailTick \/ MailStop

MailSpec == MailInit /\ [][MailNext]_mailVars

-----------------------------------------------------------------------------
(* Where a block is: in the pool, in the mailbox, or with one holder.          *)
Places(b) == Cardinality({h \in Holders : b \in held[h]})
             + Cardinality({i \in 1 .. Len(k.box) : k.box[i] = b})
             + (IF b \in free THEN 1 ELSE 0)

(* A block is never in two places, and nothing else is in the mailbox,        *)
(* although tasks that wait for a block or for mail time out.  It is always   *)
(* somewhere when nobody waits for mail in the list of those who wait for a   *)
(* block, and no null pointer is taken for a task when nobody who waits for a *)
(* block gives up (sysMailAlloc, sysMailFree).                                *)
BlocksOnce ==
    /\ \A b \in MailBlocks : Places(b) <= 1
    /\ \A i \in 1 .. Len(k.box) : k.box[i] \in MailBlocks
    /\ GetTimeouts \subseteq {0} => \A b \in MailBlocks : Places(b) = 1
    /\ AllocTimeouts \subseteq {0, Forever} => k.error # "NULL_TASK"

(* What a mail queue promises without these conditions.  Not what the code    *)
(* does: state 3 outlives a task that gives up, and a task that waits for a   *)
(* block behind one that waits for mail is given the mail.                    *)
BlocksNeverLost ==
    /\ \A b \in MailBlocks : Places(b) = 1
    /\ k.error # "NULL_TASK"

(* Nobody waits for a block while the pool has one, nor for mail while there  *)
(* is some.                                                                   *)
NobodyForgotten ==
    \A t \in Tasks : Waiting(k, t) # {} /\ k.psq = <<>> =>
        IF wants[t] = "block" THEN free = {} ELSE k.box = <<>>

=============================================================================
