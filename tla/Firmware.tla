------------------------------- MODULE Firmware -------------------------------
(***************************************************************************)
(* The request-serving firmware of the mbed on the Ferrari board: the main *)
(* thread, the five worker threads of main.cpp, the request interrupt      *)
(* handler, the Cortex-M3 core that posts requests through the shared RAM, *)
(* and the user at the terminal.                                           *)
(*                                                                         *)
(* Each thread has a program counter.  One step of a thread is what it     *)
(* does between two points where another thread can notice: locking a      *)
(* mutex, one access to the shared RAM over JTAG, filling or sending the   *)
(* terminal buffer, waiting for or setting a signal.  A thread that locks  *)
(* a mutex moves to the label behind the call in any case; while it is in  *)
(* the waiting list of the mutex it is not Runnable.                       *)
(*                                                                         *)
(* A text, a line, a word or the length of a text is a member of a small   *)
(* set; the length a service returns is represented by the text itself.    *)
(***************************************************************************)
EXTENDS RtxMutex, FiniteSets

CONSTANTS
    ReqTypes,      \* the request types the core posts
    Texts,         \* texts the core prints or sends, and the network delivers
    Lines,         \* lines the user types
    EthernetUp,    \* possible outcomes of init_ethernet at start-up
    MaxFaults,     \* how many JTAG accesses may fail and panic
    Garbles,       \* an access that another one overlaps may have a wrong outcome
    DebugWords     \* how many words of each of the two buffers a debug dump prints

AllTypes == {"panic", "print", "scan", "enet_send", "enet_recv",
             "wireless_send", "wireless_recv", "pow"}

ASSUME ConstantsAssumption ==
    /\ ReqTypes \subseteq AllTypes
    /\ EthernetUp \subseteq BOOLEAN
    /\ MaxFaults \in Nat
    /\ Garbles \in BOOLEAN
    /\ DebugWords \in Nat \ {0}

(* Words with a meaning of their own: gain settings ("bad" is neither 0 nor   *)
(* 1), the report of the power sensor for each, what an undefined JTAG read   *)
(* returns, length 0, length BUF_SIZE, a message of the firmware itself, and  *)
(* no value at all.                                                           *)
Gains == {"0", "1", "bad"}
Report(gain) == IF gain = "0" THEN "report0" ELSE "report1"
Data == Texts \cup Lines \cup Gains
          \cup {"report0", "report1", "junk", "zero", "full", "msg", "none"}

Workers == {"dispatch", "send", "recv", "pow", "debug"}
Threads == Workers \cup {"main"}
Mutexes == {"jtag", "tw", "tr", "pow"}  \* JTAG, term_write, term_read, pow_sensr

VARIABLES
    pc,            \* program counter of each thread
    mtx,           \* control block of each mutex
    sig,           \* threads whose signal is set and not yet consumed
    alive,         \* threads not terminated
    loc,           \* local variables of each thread: request type and value
    job,           \* data_send_type, data_recv_type and req_gain_ctrl
    fresh,         \* the two static init flags of the interrupt handler and debug_loop
    words,         \* words the debug dump has still to print
    tx, rx,        \* term_txbuffer and term_rxbuffer
    ethernet_open, \* the flag of Ethernet.cpp
    ram,           \* the RAM the core shares with the mbed
    core,          \* the request the core waits for; type "none" without one, "off" before boot
    irq, ack_irq,  \* the request and the acknowledge line have risen
    served,        \* what the last service did to a device on behalf of the core
    line,          \* the line waiting at the terminal, or "none"
    power,         \* the core has power
    halted,        \* exit() has been called
    hurt,          \* threads whose access another one has overlapped, if that garbles
    faults         \* JTAG accesses that may still fail

sched   == <<pc, mtx, sig, alive>>
local   == <<loc, words>>
shared  == <<job, fresh, ethernet_open>>
buffers == <<tx, rx>>
coreIO  == <<ram, core, irq, ack_irq>>
devices == <<served, line>>
plant   == <<power, halted>>
bus     == <<hurt, faults>>

vars == <<sched, local, shared, buffers, coreIO, devices, plant, bus>>

-----------------------------------------------------------------------------
(* Labels.                                                                    *)

(* In the middle of a JTAG transaction. *)
Access == {"m_boot", "m_load", "m_reset", "d_read", "d_clear", "tp_copy", "es_copy",
           "ts_copy", "er_copy", "pw_copy", "a_write", "g_init", "g_read"}

(* Labels between the lock and the unlock of each mutex. *)
HeldAt(m) ==
    CASE m = "jtag" -> {"d_read", "d_clear", "tp_copy", "es_copy", "ts_copy",
                        "er_copy", "pw_copy", "a_write", "a_pulse", "g_init"}
      [] m = "tw"   -> {"d_print", "tp_lock", "tp_copy", "tp_print", "g_print",
                        "g_blank", "m_hello", "m_loaded", "m_print", "m_print2", "p_print"}
      [] m = "tr"   -> {"m_read", "ts_read", "ts_lock", "ts_copy", "ts_done"}
      [] m = "pow"  -> {"pw_read"}

(* Labels directly behind a call of lock: a thread that waits for m is there. *)
BehindLock(m) ==
    CASE m = "jtag" -> {"d_read", "tp_copy", "es_copy", "ts_copy", "er_copy",
                        "pw_copy", "a_write", "g_init"}
      [] m = "tw"   -> {"d_print", "tp_lock", "g_print", "g_blank", "m_hello",
                        "m_loaded", "m_print", "m_print2", "p_print"}
      [] m = "tr"   -> {"m_read", "ts_read"}
      [] m = "pow"  -> {"pw_read"}

(* Labels of a thread that has called panic. *)
Panicking == {"p_lock", "p_print", "p_down"}

Labels == Access \cup HeldAt("jtag") \cup HeldAt("tw") \cup HeldAt("tr") \cup HeldAt("pow")
            \cup {"loop", "wait", "run", "d_switch", "d_lockw", "tp_lockw",
                  "es_lock", "es_send", "ts_lockr", "er_recv", "er_lock",
                  "pw_lock", "pw_lockj", "a_lock", "g_lock", "g_lockw",
                  "g_lockb", "m_lockh", "m_lockl", "m_start", "m_lockr", "m_cmd", "m_kill", "m_lockw", "m_down",
                  "m_lockw2", "m_done", "p_lock", "p_down"}

Local == [type : AllTypes \cup {"none", "empty", "junk"}, val : Data]
RAM == [io_type : AllTypes \cup {"empty"}, wbuf : Data, rbuf : Data,
        ack_type : AllTypes \cup {"none", "empty", "junk"}, ack_val : Data]

(* Types: every thread is at a point of its own code, every control block is  *)
(* well formed, and buffers, job words and RAM hold values of their kind.     *)
TypeOK ==
    /\ pc \in [Threads -> Labels]
    /\ mtx \in [Mutexes -> MUCB(Threads)]
    /\ sig \subseteq Threads
    /\ alive \subseteq Threads
    /\ loc \in [Threads -> Local]
    /\ job \in [send : {"none", "print", "enet_send", "wireless_send"},
                recv : {"none", "scan", "enet_recv", "wireless_recv"},
                gain : Data]
    /\ fresh \in [isr : BOOLEAN, debug : BOOLEAN]
    /\ words \in 0..(2 * DebugWords)
    /\ tx \in Data
    /\ rx \in Data
    /\ ethernet_open \in BOOLEAN
    /\ ram \in RAM
    /\ core \in [type : AllTypes \cup {"off", "none"}, arg : Data]
    /\ irq \in BOOLEAN
    /\ ack_irq \in BOOLEAN
    /\ served \in [dev : {"none", "terminal", "keyboard", "net_out", "net_in", "sensor"},
                   what : Data]
    /\ line \in Lines \cup {"none"}
    /\ power \in BOOLEAN
    /\ halted \in BOOLEAN
    /\ hurt \subseteq Threads
    /\ faults \in 0..MaxFaults

(* A local variable before its first use and after its last. *)
NoLocal == [type |-> "none", val |-> "none"]
NoService == [dev |-> "none", what |-> "none"]

Init ==
    /\ pc = [t \in Threads |-> IF t = "main" THEN "m_boot" ELSE "loop"]
    /\ mtx = [m \in Mutexes |-> rt_mut_init]
    /\ sig = {}
    /\ alive = Threads
    /\ loc = [t \in Threads |-> NoLocal]
    /\ job = [send |-> "none", recv |-> "none", gain |-> "none"]
    /\ fresh = [isr |-> TRUE, debug |-> TRUE]
    /\ words = 0
    /\ tx = "none" /\ rx = "none"
    /\ ethernet_open \in EthernetUp
    /\ ram = [io_type |-> "empty", wbuf |-> "none", rbuf |-> "none",
              ack_type |-> "empty", ack_val |-> "none"]
    /\ core = [type |-> "off", arg |-> "none"]
    /\ irq = FALSE /\ ack_irq = FALSE
    /\ served = NoService
    /\ line = "none"
    /\ power = TRUE /\ halted = FALSE
    /\ hurt = {} /\ faults = MaxFaults

-----------------------------------------------------------------------------
(* The kernel as the threads see it.                                          *)

Runnable(t) == t \in alive /\ ~halted /\ \A m \in Mutexes : ~Queued(mtx[m], t)

At(t, label) == pc[t] = label /\ Runnable(t)

(* A step of t that leaves mutexes and signals alone. *)
Goto(t, to) ==
    /\ pc' = [pc EXCEPT ![t] = to]
    /\ UNCHANGED <<mtx, sig, alive>>

(* Mutex::lock *)
Lock(t, m, from, to) ==
    /\ At(t, from)
    /\ pc' = [pc EXCEPT ![t] = to]
    /\ mtx' = [mtx EXCEPT ![m] = rt_mut_wait(@, t)]
    /\ UNCHANGED <<sig, alive, local, shared, buffers, coreIO, devices, plant, bus>>

(* Mutex::unlock at the end of a step of t. *)
Unlock(t, m, to) ==
    /\ pc' = [pc EXCEPT ![t] = to]
    /\ mtx' = [mtx EXCEPT ![m] = rt_mut_release(@, t)]
    /\ UNCHANGED <<sig, alive>>

(* Thread::signal_wait: consume the signal if it is set, else block. *)
signal_wait(t) ==
    /\ At(t, "loop")
    /\ \/ /\ t \in sig
          /\ sig' = sig \ {t}
          /\ pc' = [pc EXCEPT ![t] = "run"]
       \/ /\ t \notin sig
          /\ sig' = sig
          /\ pc' = [pc EXCEPT ![t] = "wait"]
    /\ UNCHANGED <<mtx, alive, local, shared, buffers, coreIO, devices, plant, bus>>

(* Mutant of signal_set: the wake-up leaves the signal set. *)
signal_set_Twice(p, u) ==
    /\ pc' = IF u \in alive /\ pc[u] = "wait" THEN [p EXCEPT ![u] = "run"] ELSE p
    /\ sig' = IF u \in alive THEN sig \cup {u} ELSE sig
    /\ UNCHANGED <<mtx, alive>>

(* Mutant of signal_set: a signal for a thread that is not waiting is lost. *)
signal_set_Lost(p, u) ==
    /\ pc' = IF u \in alive /\ pc[u] = "wait" THEN [p EXCEPT ![u] = "run"] ELSE p
    /\ UNCHANGED <<sig, mtx, alive>>

(* Thread::signal_set on u by a caller that moves the program counters to p:  *)
(* a blocked u consumes the signal and becomes ready at once, a busy one      *)
(* finds it set later, a terminated one ignores it.                           *)
signal_set(p, u) ==
    /\ IF u \in alive /\ pc[u] = "wait"
       THEN pc' = [p EXCEPT ![u] = "run"] /\ sig' = sig
       ELSE pc' = p /\ sig' = IF u \in alive THEN sig \cup {u} ELSE sig
    /\ UNCHANGED <<mtx, alive>>

-----------------------------------------------------------------------------
(* JTAG accesses.  The driver toggles the pins of one TAP; an access that     *)
(* overlaps another has an undefined outcome.                                 *)

InJtag(t) == pc[t] \in Access /\ Runnable(t)

Others(t) == {u \in Threads \ {t} : InJtag(u)}

(* What t reads where the RAM holds v and a garbled word is one of any, and   *)
(* what the RAM holds after t has written new over old.                       *)
Overlapped(t) == Garbles /\ (t \in hurt \/ Others(t) # {})
Sees(t, v, any) == IF Overlapped(t) THEN {v} \cup any ELSE {v}
Lands(t, new, old) == IF Overlapped(t) THEN {new, old} ELSE {new}

(* The access of t ends: it has disturbed everyone else in the middle of one. *)
EndAccess(t) ==
    /\ hurt' = IF Garbles THEN (hurt \ {t}) \cup Others(t) ELSE hurt
    /\ faults' = faults

(* The driver panics in the middle of an access: an invalid status, an        *)
(* unexpected instruction register or an unexpected identification.  Mutexes  *)
(* the thread holds stay locked.                                              *)
JtagPanic(t) ==
    /\ InJtag(t) /\ pc[t] # "m_reset"
    /\ faults > 0
    /\ faults' = faults - 1
    /\ hurt' = IF Garbles THEN (hurt \ {t}) \cup Others(t) ELSE hurt
    /\ Goto(t, "p_lock")
    /\ UNCHANGED <<local, shared, buffers, coreIO, devices, plant>>

-----------------------------------------------------------------------------
(* basic_io.cpp, shared_buf.cpp, panic.cpp                                    *)

(* Mutant of mbed_printf: the terminal buffer is filled without the mutex. *)
mbed_printf_NoLock(t, lock, print, to) ==
    \/ /\ At(t, lock)
       /\ Goto(t, print)
       /\ UNCHANGED <<local, shared, buffers, coreIO, devices, plant, bus>>
    \/ /\ At(t, print)
       /\ tx' = "msg"
       /\ Goto(t, to)
       /\ UNCHANGED <<rx, local, shared, coreIO, devices, plant, bus>>

(* mbed_printf of a message: fill term_txbuffer and send it under the mutex. *)
mbed_printf(t, lock, print, to) ==
    \/ Lock(t, "tw", lock, print)
    \/ /\ At(t, print)
       /\ tx' = "msg"
       /\ Unlock(t, "tw", to)
       /\ UNCHANGED <<rx, local, shared, coreIO, devices, plant, bus>>

(* Copy WRITEBUF to a buffer of the caller; v is also the returned length. *)
jtag_writebuffer(t, lock, copy, to) ==
    \/ Lock(t, "jtag", lock, copy)
    \/ /\ At(t, copy)
       /\ \E v \in Sees(t, ram.wbuf, {"junk"}) :
            /\ loc' = [loc EXCEPT ![t].val = v]
            /\ tx' = IF copy = "tp_copy" THEN v ELSE tx
       /\ EndAccess(t)
       /\ Unlock(t, "jtag", to)
       /\ UNCHANGED <<rx, words, shared, coreIO, devices, plant>>

(* Copy the buffer, which holds v, to READBUF and return its length. *)
jtag_readbuffer(t, v, lock, copy, to) ==
    \/ Lock(t, "jtag", lock, copy)
    \/ /\ At(t, copy)
       /\ \E w \in Lands(t, v, ram.rbuf) : ram' = [ram EXCEPT !.rbuf = w]
       /\ loc' = [loc EXCEPT ![t].val = v]
       /\ EndAccess(t)
       /\ Unlock(t, "jtag", to)
       /\ UNCHANGED <<words, shared, buffers, core, irq, ack_irq, devices, plant>>

(* term_printf: the buffer is filled and sent under term_write_mutex. *)
term_printf(t) ==
    \/ Lock(t, "tw", "tp_lockw", "tp_lock")
    \/ jtag_writebuffer(t, "tp_lock", "tp_copy", "tp_print")
    \/ /\ At(t, "tp_print")
       /\ served' = [dev |-> "terminal", what |-> tx]
       /\ Unlock(t, "tw", "a_lock")
       /\ UNCHANGED <<local, shared, buffers, coreIO, line, plant, bus>>

(* Wait for a line of the user and put it into term_rxbuffer. *)
term_readbuffer ==
    /\ line # "none"
    /\ rx' = line
    /\ line' = "none"

(* mbed_scanf into a local variable of t, under term_read_mutex. *)
mbed_scanf(t, lock, read, to) ==
    \/ Lock(t, "tr", lock, read)
    \/ /\ At(t, read)
       /\ term_readbuffer
       /\ loc' = [loc EXCEPT ![t].val = line]
       /\ Unlock(t, "tr", to)
       /\ UNCHANGED <<tx, words, shared, coreIO, served, plant, bus>>

(* term_scanf: read a line and copy it to READBUF under term_read_mutex. *)
term_scanf(t) ==
    \/ Lock(t, "tr", "ts_lockr", "ts_read")
    \/ /\ At(t, "ts_read")
       /\ term_readbuffer
       /\ loc' = [loc EXCEPT ![t].val = line]
       /\ served' = [dev |-> "keyboard", what |-> line]
       /\ Goto(t, "ts_lock")
       /\ UNCHANGED <<tx, words, shared, coreIO, plant, bus>>
    \/ jtag_readbuffer(t, rx, "ts_lock", "ts_copy", "ts_done")
    \/ /\ At(t, "ts_done")
       /\ Unlock(t, "tr", "a_lock")
       /\ UNCHANGED <<local, shared, buffers, coreIO, devices, plant, bus>>

(* The inputs of the chip are zeroed and its supplies lowered. *)
power_down == power' = FALSE

(* panic: print under term_write_mutex, power the core down, exit. *)
panic(t) ==
    \/ mbed_printf(t, "p_lock", "p_print", "p_down")
    \/ /\ At(t, "p_down")
       /\ power_down
       /\ halted' = TRUE
       /\ UNCHANGED <<sched, local, shared, buffers, coreIO, devices, bus>>

-----------------------------------------------------------------------------
(* Ethernet.cpp, wireless_wifi.cpp, power_sensor.cpp.  The early returns of   *)
(* a closed interface and of a bad gain are taken in the calling loop.        *)

(* socket.send_all reports how much it sent: the whole buffer, or an error. *)
enet_send(t) ==
    \/ jtag_writebuffer(t, "es_lock", "es_copy", "es_send")
    \/ /\ At(t, "es_send")
       /\ served' = [dev |-> "net_out", what |-> loc[t].val]
       /\ \E size \in {"full", "zero"} : loc' = [loc EXCEPT ![t].val = size]
       /\ Goto(t, "a_lock")
       /\ UNCHANGED <<words, shared, buffers, coreIO, line, plant, bus>>

enet_recv(t) ==
    \/ /\ At(t, "er_recv")
       /\ \/ /\ Goto(t, "a_lock")     \* ret <= 0
             /\ UNCHANGED <<loc, served>>
          \/ \E v \in Texts :
                /\ loc' = [loc EXCEPT ![t].val = v]
                /\ served' = [dev |-> "net_in", what |-> v]
                /\ Goto(t, "er_lock")
       /\ UNCHANGED <<words, shared, buffers, coreIO, line, plant, bus>>
    \/ jtag_readbuffer(t, loc[t].val, "er_lock", "er_copy", "a_lock")

(* The gain settings read_pow accepts. *)
GoodGains == {"0", "1"}

read_pow(t) ==
    \/ Lock(t, "pow", "pw_lock", "pw_read")
    \/ /\ At(t, "pw_read")
       /\ served' = [dev |-> "sensor", what |-> loc[t].val]
       /\ loc' = [loc EXCEPT ![t].val = Report(loc[t].val)]
       /\ Unlock(t, "pow", "pw_lockj")
       /\ UNCHANGED <<words, shared, buffers, coreIO, line, plant, bus>>
    \/ jtag_readbuffer(t, loc[t].val, "pw_lockj", "pw_copy", "a_lock")

-----------------------------------------------------------------------------
(* main.cpp                                                                   *)

(* Mutant of WriteAck: ACK_TYPE is not written. *)
WriteAck_NoType(t) ==
    \E v \in Lands(t, loc[t].val, ram.ack_val) : ram' = [ram EXCEPT !.ack_val = v]

(* ACK_RETURN_VAL and ACK_TYPE. *)
WriteAck(t) ==
    \E v \in Lands(t, loc[t].val, ram.ack_val), ty \in Lands(t, loc[t].type, ram.ack_type) :
        ram' = [ram EXCEPT !.ack_val = v, !.ack_type = ty]

(* The end of every service: the return value, the type and then the pulse. *)
acknowledge(t) ==
    \/ Lock(t, "jtag", "a_lock", "a_write")
    \/ /\ At(t, "a_write")
       /\ WriteAck(t)
       /\ EndAccess(t)
       /\ Goto(t, "a_pulse")
       /\ UNCHANGED <<local, shared, buffers, core, irq, ack_irq, devices, plant>>
    \/ /\ At(t, "a_pulse")
       /\ ack_irq' = TRUE
       /\ loc' = [loc EXCEPT ![t] = NoLocal]
       /\ Unlock(t, "jtag", "loop")
       /\ UNCHANGED <<words, shared, buffers, ram, core, irq, devices, plant, bus>>

(* Start a service: remember its type and the value it returns if it gives up. *)
Start(t, type, val, to) ==
    /\ loc' = [loc EXCEPT ![t] = [type |-> type, val |-> val]]
    /\ Goto(t, to)
    /\ UNCHANGED <<words, shared, buffers, coreIO, devices, plant, bus>>

(* The switch of dispatch_loop: tell a worker what to do and wake it. *)
Dispatch(type, val, p) ==
    \/ /\ type \in {"panic", "print", "enet_send", "wireless_send"}
       /\ job' = [job EXCEPT !.send = IF type = "panic" THEN "print" ELSE type]
       /\ signal_set(p, "send")
    \/ /\ type \in {"scan", "enet_recv", "wireless_recv"}
       /\ job' = [job EXCEPT !.recv = type]
       /\ signal_set(p, "recv")
    \/ /\ type = "pow"
       /\ job' = [job EXCEPT !.gain = val]
       /\ signal_set(p, "pow")

(* What a garbled read of IO_TYPE can return: a type in use, or none at all. *)
AnyType == ReqTypes \cup {"junk"}

dispatch_loop ==
    \/ signal_wait("dispatch")
    \/ Lock("dispatch", "jtag", "run", "d_read")
    \/ /\ At("dispatch", "d_read")
       /\ \E ty \in Sees("dispatch", ram.io_type, AnyType),
             v \in Sees("dispatch", ram.rbuf, {"junk"}) :
            loc' = [loc EXCEPT !["dispatch"] = [type |-> ty, val |-> v]]
       /\ EndAccess("dispatch")
       /\ Goto("dispatch", "d_clear")
       /\ UNCHANGED <<words, shared, buffers, coreIO, devices, plant>>
    \/ /\ At("dispatch", "d_clear")
       /\ \E ty \in Lands("dispatch", "empty", ram.io_type) :
            ram' = [ram EXCEPT !.io_type = ty]
       /\ EndAccess("dispatch")
       /\ Unlock("dispatch", "jtag", "d_switch")
       /\ UNCHANGED <<local, shared, buffers, core, irq, ack_irq, devices, plant>>
    \/ /\ At("dispatch", "d_switch")
       /\ loc["dispatch"].type \in AllTypes
       /\ Dispatch(loc["dispatch"].type, loc["dispatch"].val,
                   [pc EXCEPT !["dispatch"] = "loop"])
       /\ loc' = [loc EXCEPT !["dispatch"] = NoLocal]
       /\ UNCHANGED <<words, fresh, ethernet_open, buffers, coreIO, devices, plant, bus>>
    \/ /\ At("dispatch", "d_switch")
       /\ loc["dispatch"].type \notin AllTypes
       /\ Goto("dispatch", "d_lockw")
       /\ loc' = [loc EXCEPT !["dispatch"] = NoLocal]
       /\ UNCHANGED <<words, shared, buffers, coreIO, devices, plant, bus>>
    \/ mbed_printf("dispatch", "d_lockw", "d_print", "loop")

data_send_loop ==
    \/ signal_wait("send")
    \/ /\ At("send", "run")
       /\ Start("send", job.send, "zero",
                CASE job.send = "print" -> "tp_lockw"
                  [] job.send = "enet_send" /\ ethernet_open -> "es_lock"
                  [] job.send = "enet_send" /\ ~ethernet_open -> "a_lock"
                  [] job.send = "wireless_send" -> "a_lock"
                  [] OTHER -> "p_lock")
    \/ term_printf("send")
    \/ enet_send("send")
    \/ acknowledge("send")

data_recv_loop ==
    \/ signal_wait("recv")
    \/ /\ At("recv", "run")
       /\ Start("recv", job.recv, "zero",
                CASE job.recv = "scan" -> "ts_lockr"
                  [] job.recv = "enet_recv" /\ ethernet_open -> "er_recv"
                  [] job.recv = "enet_recv" /\ ~ethernet_open -> "a_lock"
                  [] job.recv = "wireless_recv" -> "a_lock"
                  [] OTHER -> "p_lock")
    \/ term_scanf("recv")
    \/ enet_recv("recv")
    \/ acknowledge("recv")

read_pow_loop ==
    \/ signal_wait("pow")
    \/ /\ At("pow", "run")
       /\ IF job.gain \in GoodGains
          THEN Start("pow", "pow", job.gain, "pw_lock")
          ELSE Start("pow", "pow", "zero", "a_lock")
    \/ read_pow("pow")
    \/ acknowledge("pow")

(* Mutant of DumpNext: the dump reads one word too many. *)
DumpNext_OffByOne ==
    IF words < 0 THEN "loop" ELSE IF words = DebugWords THEN "g_lockb" ELSE "g_read"

(* Where debug_print goes after a word: to the next one, after the last word  *)
(* of WRITEBUF to a blank line, after the last of READBUF to debug_loop.      *)
DumpNext ==
    IF words = 0 THEN "loop" ELSE IF words = DebugWords THEN "g_lockb" ELSE "g_read"

(* debug_print reads each word without JTAG_mutex and prints it. *)
debug_print ==
    \/ /\ At("debug", "g_read")
       /\ words' = words - 1
       /\ EndAccess("debug")
       /\ Goto("debug", "g_lockw")
       /\ UNCHANGED <<loc, shared, buffers, coreIO, devices, plant>>
    \/ mbed_printf("debug", "g_lockw", "g_print", DumpNext)
    \/ mbed_printf("debug", "g_lockb", "g_blank", "g_read")

(* Mutant of debug_init: JTAG_mutex is not unlocked. *)
debug_init_NoUnlock ==
    /\ At("debug", "g_init")
    /\ fresh' = [fresh EXCEPT !.debug = FALSE]
    /\ EndAccess("debug")
    /\ Goto("debug", "g_read")
    /\ UNCHANGED <<local, job, ethernet_open, buffers, coreIO, devices, plant>>

(* The first wake-up of debug_loop powers up the debug port under the mutex. *)
debug_init ==
    /\ At("debug", "g_init")
    /\ fresh' = [fresh EXCEPT !.debug = FALSE]
    /\ EndAccess("debug")
    /\ Unlock("debug", "jtag", "g_read")
    /\ UNCHANGED <<local, job, ethernet_open, buffers, coreIO, devices, plant>>

debug_loop ==
    \/ signal_wait("debug")
    \/ /\ At("debug", "run")
       /\ words' = 2 * DebugWords
       /\ Goto("debug", IF fresh.debug THEN "g_lock" ELSE "g_read")
       /\ UNCHANGED <<loc, shared, buffers, coreIO, devices, plant, bus>>
    \/ Lock("debug", "jtag", "g_lock", "g_init")
    \/ debug_init
    \/ debug_print

(* The order in which main terminates the workers. *)
KillOrder == <<"dispatch", "send", "recv", "pow", "debug">>

(* Mutant of terminate: main forgets the debug thread. *)
terminate_NotDebug(u) ==
    /\ alive' = alive \ {u}
    /\ mtx' = [m \in Mutexes |-> rt_rmv_list(mtx[m], u)]
    /\ pc' = [pc EXCEPT !["main"] = IF u = "pow" THEN "m_reset" ELSE "m_kill"]
    /\ UNCHANGED <<sig, local, shared, buffers, coreIO, devices, plant, bus>>

(* Thread::terminate of the next worker. *)
terminate(u) ==
    /\ alive' = alive \ {u}
    /\ mtx' = [m \in Mutexes |-> rt_rmv_list(mtx[m], u)]
    /\ pc' = [pc EXCEPT !["main"] = IF u = "debug" THEN "m_reset" ELSE "m_kill"]
    /\ UNCHANGED <<sig, local, shared, buffers, coreIO, devices, plant, bus>>

(* Halt the core and write the program to its memory; there is no failure     *)
(* other than a panic.                                                        *)
loadProgram ==
    /\ At("main", "m_load")
    /\ EndAccess("main")
    /\ Goto("main", "m_lockl")
    /\ UNCHANGED <<local, shared, buffers, coreIO, devices, plant>>

(* main after init_hw: set up the debug port and the clocks, load the program *)
(* (a failure panics), release the core, read commands until "quit", stop the *)
(* workers and power down.  Any other line, whatever   *)
(* it says, wakes the debug thread: the else-if of line 86 ends in a stray    *)
(* semicolon.                                                                 *)
main ==
    \/ /\ At("main", "m_boot")
       /\ EndAccess("main")
       /\ Goto("main", "m_lockh")
       /\ UNCHANGED <<local, shared, buffers, coreIO, devices, plant>>
    \/ mbed_printf("main", "m_lockh", "m_hello", "m_load")
    \/ loadProgram
    \/ mbed_printf("main", "m_lockl", "m_loaded", "m_start")
    \/ /\ At("main", "m_start")
       /\ core' = [core EXCEPT !.type = "none"]
       /\ Goto("main", "m_lockr")
       /\ UNCHANGED <<local, shared, buffers, ram, irq, ack_irq, devices, plant, bus>>
    \/ mbed_scanf("main", "m_lockr", "m_read", "m_cmd")
    \/ /\ At("main", "m_cmd")
       /\ loc["main"].val # "quit"
       /\ signal_set([pc EXCEPT !["main"] = "m_lockr"], "debug")
       /\ loc' = [loc EXCEPT !["main"] = NoLocal]
       /\ UNCHANGED <<words, shared, buffers, coreIO, devices, plant, bus>>
    \/ /\ At("main", "m_cmd")
       /\ loc["main"].val = "quit"
       /\ Goto("main", "m_kill")
       /\ UNCHANGED <<local, shared, buffers, coreIO, devices, plant, bus>>
    \/ /\ At("main", "m_kill")
       /\ \E k \in 1..Len(KillOrder) :
            /\ KillOrder[k] \in alive
            /\ \A j \in 1..(k - 1) : KillOrder[j] \notin alive
            /\ terminate(KillOrder[k])
    \/ /\ At("main", "m_reset")
       /\ EndAccess("main")
       /\ Goto("main", "m_lockw")
       /\ UNCHANGED <<local, shared, buffers, coreIO, devices, plant>>
    \/ mbed_printf("main", "m_lockw", "m_print", "m_down")
    \/ /\ At("main", "m_down")
       /\ power_down
       /\ Goto("main", "m_lockw2")
       /\ UNCHANGED <<halted, local, shared, buffers, coreIO, devices, bus>>
    \/ mbed_printf("main", "m_lockw2", "m_print2", "m_done")

(* The request interrupt.  The first one resets and powers up the debug port  *)
(* without JTAG_mutex; a panic here finds the mutex calls refused in an       *)
(* interrupt, so it prints, powers down and exits in one go.                  *)
req_intr_handler ==
    /\ irq /\ ~halted
    /\ irq' = FALSE
    /\ \/ /\ hurt' = IF fresh.isr /\ Garbles THEN hurt \cup {u \in Threads : InJtag(u)} ELSE hurt
          /\ fresh' = [fresh EXCEPT !.isr = FALSE]
          /\ signal_set(pc, "dispatch")
          /\ UNCHANGED <<tx, plant, faults>>
       \/ /\ fresh.isr
          /\ faults > 0
          /\ faults' = faults - 1
          /\ tx' = "msg"
          /\ power_down
          /\ halted' = TRUE
          /\ UNCHANGED <<sched, fresh, hurt>>
    /\ UNCHANGED <<local, job, ethernet_open, rx, ram, core, ack_irq, devices>>

-----------------------------------------------------------------------------
(* The environment, modelled from how the firmware uses it.                   *)

(* The core posts one request at a time: it fills WRITEBUF or, for the sensor *)
(* gain, the first word of READBUF, then IO_TYPE, and raises the interrupt.   *)
CoreRequest ==
    /\ power /\ core.type = "none"
    /\ \E ty \in ReqTypes :
         \E arg \in CASE ty \in {"panic", "print", "enet_send", "wireless_send"} -> Texts
                      [] ty = "pow" -> Gains
                      [] OTHER -> {"none"} :
            /\ core' = [type |-> ty, arg |-> arg]
            /\ ram' = [ram EXCEPT !.io_type = ty,
                                  !.wbuf = IF arg \in Texts THEN arg ELSE @,
                                  !.rbuf = IF arg \in Gains THEN arg ELSE @]
    /\ irq' = TRUE
    /\ UNCHANGED <<sched, local, shared, buffers, ack_irq, devices, plant, bus>>

(* The core takes the acknowledgement and clears what it has taken. *)
CoreAck ==
    /\ power /\ ack_irq
    /\ ack_irq' = FALSE
    /\ core' = [type |-> "none", arg |-> "none"]
    /\ ram' = [ram EXCEPT !.wbuf = "none", !.rbuf = "none",
                          !.ack_type = "empty", !.ack_val = "none"]
    /\ served' = NoService
    /\ UNCHANGED <<sched, local, shared, buffers, irq, line, plant, bus>>

UserLine ==
    /\ line = "none" /\ ~halted
    /\ line' \in Lines
    /\ UNCHANGED <<sched, local, shared, buffers, coreIO, served, plant, bus>>

-----------------------------------------------------------------------------
Code(t) ==
    \/ t = "main" /\ main
    \/ t = "dispatch" /\ dispatch_loop
    \/ t = "send" /\ data_send_loop
    \/ t = "recv" /\ data_recv_loop
    \/ t = "pow" /\ read_pow_loop
    \/ t = "debug" /\ debug_loop
    \/ panic(t)

Next ==
    \/ \E t \in Threads : Code(t) \/ JtagPanic(t)
    \/ req_intr_handler
    \/ CoreRequest \/ CoreAck \/ UserLine

Spec == Init /\ [][Next]_vars

(* Round robin runs every ready thread, the interrupt is taken, the core      *)
(* takes its acknowledgement and the user goes on typing.                     *)
Fairness ==
    /\ \A t \in Threads : WF_vars(Code(t))
    /\ WF_vars(req_intr_handler)
    /\ WF_vars(CoreAck)
    /\ WF_vars(UserLine)

FairSpec == Spec /\ Fairness
-----------------------------------------------------------------------------
(* Safety.                                                                    *)

(* t is between the lock and the unlock of m, and past the lock. *)
Inside(t, m) == pc[t] \in HeldAt(m) /\ Runnable(t)

(* Two threads are never both inside the sections that one mutex guards: the  *)
(* recursive levels and the hand-over of the RTX mutex keep them apart, also  *)
(* when threads panic or are terminated while they hold a mutex.              *)
MutualExclusion ==
    \A m \in Mutexes : \A t \in Threads :
        Inside(t, m) => \A u \in Threads : Inside(u, m) => t = u

(* The driver serves one caller at a time: setState moves the TAP "from IDLE" *)
(* (jtag.cpp), so no thread starts a transaction in the middle of another's.  *)
JtagExclusive ==
    \A t, u \in Threads : InJtag(t) /\ InJtag(u) => t = u

(* The state of every mutex agrees with where the threads are: this is the    *)
(* inductive invariant behind the properties of the locks.  A waiting thread  *)
(* stands behind its call of lock, in one place of the list; a live thread    *)
(* inside a guarded section owns the mutex; and an owner that has not called  *)
(* panic is inside, one level deep.                                           *)
MutexInv(m) ==
    LET c == mtx[m] IN
    /\ c.owner = NoTask <=> c.level = 0
    /\ \A i, j \in 1..Len(c.wait) : c.wait[i] = c.wait[j] => i = j
    /\ \A t \in Threads :
         /\ Queued(c, t) => pc[t] \in BehindLock(m) /\ c.owner # t
         /\ t \in alive /\ pc[t] \in HeldAt(m) /\ ~Queued(c, t) => c.owner = t
         /\ c.owner = t /\ pc[t] \notin Panicking => pc[t] \in HeldAt(m) /\ c.level = 1

LockInv == \A m \in Mutexes : MutexInv(m)

Waiting == {t \in Threads : \E m \in Mutexes : Queued(mtx[m], t)}

(* Every set of threads that wait for each other's mutexes in a circle        *)
(* contains a thread in panic: the code itself locks the terminal mutexes     *)
(* before JTAG_mutex, only panic's mbed_vprintf asks for term_write_mutex     *)
(* with JTAG_mutex held.                                                      *)
NoCircularWait ==
    \A S \in (SUBSET Waiting) \ {{}} :
        (\A t \in S : pc[t] # "p_print") =>
            \E t \in S : \A m \in Mutexes : Queued(mtx[m], t) => mtx[m].owner \notin S

(* When main, after a quit, zeroes the inputs of the chip and lowers its      *)
(* supplies, no other thread drives the JTAG pins: it has terminated every    *)
(* worker, whatever each was doing and whichever mutexes it held.             *)
QuitAlone == At("main", "m_down") => Others("main") = {}

(* What term_printf sends to the terminal is what it copied from the RAM, and *)
(* what term_scanf copies to the RAM is the line it read: nobody overwrites   *)
(* the static terminal buffers in between.                                    *)
BuffersIntact ==
    /\ At("send", "tp_print") => tx = loc["send"].val
    /\ At("recv", "ts_lock") \/ At("recv", "ts_copy") => rx = loc["recv"].val

(* The acknowledgement the core is about to take answers its request: type,   *)
(* return value, READBUF and the effect on the device all belong to it.       *)
AckMatches ==
    ack_irq =>
      /\ core.type \in AllTypes
      /\ ram.io_type = "empty"
      /\ ram.ack_type = IF core.type = "panic" THEN "print" ELSE core.type
      /\ CASE core.type \in {"panic", "print"} ->
                 /\ served = [dev |-> "terminal", what |-> core.arg]
                 /\ ram.ack_val = core.arg
           [] core.type = "scan" ->
                 /\ served = [dev |-> "keyboard", what |-> ram.rbuf]
                 /\ ram.ack_val = ram.rbuf
           [] core.type = "enet_send" ->
                 \/ served = [dev |-> "net_out", what |-> core.arg]
                 \/ served = NoService /\ ram.ack_val = "zero" /\ ~ethernet_open
           [] core.type = "enet_recv" ->
                 \/ served = [dev |-> "net_in", what |-> ram.rbuf] /\ ram.ack_val = ram.rbuf
                 \/ served = NoService /\ ram.ack_val = "zero"
           [] core.type \in {"wireless_send", "wireless_recv"} ->
                 served = NoService /\ ram.ack_val = "zero"
           [] core.type = "pow" ->
                 \/ /\ core.arg \in {"0", "1"}
                    /\ served = [dev |-> "sensor", what |-> core.arg]
                    /\ ram.rbuf = Report(core.arg) /\ ram.ack_val = ram.rbuf
                 \/ core.arg = "bad" /\ served = NoService /\ ram.ack_val = "zero"

-----------------------------------------------------------------------------
(* The program on the core sees Service.                                      *)

Device(type) ==
    CASE type \in {"panic", "print"} -> "terminal"
      [] type = "scan"      -> "keyboard"
      [] type = "enet_send" -> "net_out"
      [] type = "enet_recv" -> "net_in"
      [] type = "pow"       -> "sensor"
      [] OTHER              -> "none"

Remote == INSTANCE Service WITH
    Types    <- AllTypes,
    NoEffect <- NoService,
    request  <- core,
    effect   <- served,
    answer   <- ram.ack_val,
    ready    <- ack_irq,
    on       <- power

(* The threads, signals, mutexes and JTAG accesses of the firmware together   *)
(* do what Service says: at most one device acts on a request, with its       *)
(* argument, and the answer the core finds is what that device did.           *)
ImplementsService == Remote!Spec

-----------------------------------------------------------------------------
(* Action properties.                                                         *)

(* dispatch_loop never changes data_send_type, data_recv_type or              *)
(* req_gain_ctrl while the thread that reads it has work pending or started.  *)
JobStable ==
    [][/\ job'.send # job.send => pc["send"] \in {"loop", "wait"} /\ "send" \notin sig
       /\ job'.recv # job.recv => pc["recv"] \in {"loop", "wait"} /\ "recv" \notin sig
       /\ job'.gain # job.gain => pc["pow"] \in {"loop", "wait"} /\ "pow" \notin sig]_vars

(* The debug thread is woken when the user types debug. *)
(* Not what the code does: README.md, "Known disagreements". *)
DebugOnlyOnCommand ==
    [][pc["debug"] = "wait" /\ pc'["debug"] = "run" => loc["main"].val = "debug"]_vars

-----------------------------------------------------------------------------
(* Liveness.                                                                  *)

(* Every request of the core is acknowledged, unless the user quits or an     *)
(* access of the JTAG driver fails and its thread panics.                     *)
RequestAcked ==
    core.type \in AllTypes ~>
        (core.type = "none" \/ alive # Threads \/ faults # MaxFaults)

(* A panic powers the core down and terminates. *)
PanicPowersDown ==
    (\E t \in Threads : pc[t] = "p_lock") ~> (halted /\ ~power)

(* Once the user has typed quit the core loses its power. *)
(* Not what the code does: README.md, "Known disagreements". *)
QuitPowersDown == pc["main"] = "m_kill" ~> ~power
=============================================================================
