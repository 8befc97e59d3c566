# Verification of the Expedition mbed firmware

The firmware in `src/src/` runs on an mbed (LPC1768, RTX kernel) next to a Cortex-M3 test chip on the
Ferrari board. It powers the chip, loads a program into it over JTAG and then serves the requests that
program posts in a piece of RAM both sides can reach: print to the terminal, read a line, send and receive
over Ethernet or WiFi, read the power sensor. The repository carries the kernel and the network stack it
is built with. This directory holds TLA+ modules of all of these, TLC configurations that check them on
small instances, and TLAPS proofs that hold for every value of the constants.

Contents: 1 the system; 2 the modules; 3 the runs; 4 the proofs; 5 known disagreements; 6 what is left.

## 1. The system

| Part | Source | State | Operations | Correct when |
|---|---|---|---|---|
| main | `main.cpp:39-104` | the command line, five threads | start-up, command loop, `quit` | the chip is powered down with nobody else on its pins |
| request interrupt | `main.cpp:106-116` | a static `init` flag | reset the debug port once, wake the dispatcher | no request is lost |
| dispatcher | `main.cpp:118-166` | three global job words | read and clear IO_TYPE, hand the job on | a job pending at a worker is not changed |
| workers | `main.cpp:168-287` | locals | serve, write value and type, pulse the pin | the answer is that of the request, and it comes |
| terminal I/O | `basic_io.cpp` | two static buffers | print, scan, dump | a buffer is not overwritten before it is used |
| mutexes | `locks.cpp`, `rt_Mutex.c` | owner, level, waiting list | lock, unlock | sections exclude each other, nobody waits in a circle |
| shared RAM | `shared_buf.cpp`, `mmap.h` | WRITEBUF, READBUF | copy in, copy out | the other side finds the text |
| supplies | `power.cpp`, `dac.cpp`, `init_hw.cpp` | a voltage per supply, the pins | `power_up`, `power_core`, `power_down` | 1.8 V before 3.3 V, no input above DVDD |
| JTAG driver | `jtag.cpp` | the TAP, the debug port | scans, memory access, `loadProgram` | a word read is the word in memory, WAIT or not |
| network services | `Ethernet.cpp`, `wireless_wifi.cpp`, `EthernetInterface`, `WiflyInterface` | sockets, a serial ring | init with retries, send, receive | streams are exact, no descriptor is lost |
| RTX kernel | `mbed-rtos/rtx` | task, event, semaphore, mailbox, mutex and timer blocks | calls of tasks and interrupts, the tick | the ready task of highest priority runs, no wake-up or message is lost, delays and timers are exact |
| TCP | `lwip/core/tcp*.c` | a control block per end | input, output, timers, close | the stream arrives, in order, once; windows are kept |
| sequential API, sockets | `lwip/api` | netconns, mailboxes, select list | calls that wait for the tcpip thread | every call is answered once, reads are exact, select wakes |
| PPP | `lwip/netif/ppp` | automata, link phase, addresses | negotiate, authenticate, close | both ends agree, nobody without the secret gets in |
| DHCP, ARP | `lwip/core/dhcp.c`, `netif/etharp.c` | lease and timers; a table | discover to release; learn, query, age | an address in use is leased; one entry per address |
| SNMP agent | `lwip/core/snmp` | slots, pools, index trees, counters | get, get-next, set, traps | tables follow the stack, walks are ordered, answers are readable |

How they interact: the core raises an interrupt; the handler sets a signal of the dispatcher; the
dispatcher reads the request over JTAG and sets a global word and a signal of one worker; the worker does
the work under a terminal or sensor mutex, moves the data over JTAG under `JTAG_mutex`, and acknowledges.
Beside it `main` reads commands from the same terminal and wakes the debug thread, which dumps the RAM
over the same pins. Below, the network services call sockets, these post messages to the tcpip thread,
which runs TCP, ARP, DHCP and SNMP and posts buffers back; all threads wait on kernel objects.

What is hard: six threads and an interrupt handler share one TAP, two static buffers, three job words and
one-bit signals; locks nest; some JTAG accesses take no lock; the driver may panic in the middle of an access
with mutexes held; `quit` terminates threads wherever they are and RTX releases none of their mutexes. In
the kernel, an interrupt only queues a request that is served later, when the state it looked at has
changed. In the stack, events are counted before or after what they announce, segments and packets are lost,
repeated and late, timers race answers, and mailboxes, pools and tables fill up. `PROJECT.json` lists the
hazards with their lines and the properties that cover them, and every component with its status.

## 2. Modules

| Module | Models |
|---|---|
| `Firmware` (extends `RtxMutex`) | main, the five workers, the interrupt handler, panic, the core and the user |
| `Service` | abstract: one request at a time, served once by its own device and answered with what that did |
| `RtxMutex` | the control block of a mutex for threads of one priority |
| `Power` | every write of the supply sequences, pins, panics and restarts |
| `DebugPort` | JTAG driver scan by scan: pipelined reads, WAIT, faults, memory blocks, `loadProgram` |
| `SharedBuf` | the word and byte loops of `shared_buf.cpp` |
| `EthSocket` | start of the wired network, connect with retries, `send_all` and `receive_all` |
| `Wifly`, `WifiStream` | command mode, join and connect of the WiFly module; its serial ring and `receive_all` |
| `RtxKernel`, `RtxMail`, `RtxTimers` | scheduler, lists, delays, events, semaphores, mailboxes, mutexes with inheritance; mail queues; timers |
| `Tcp` | two ends of a connection over a network that loses, repeats and reorders |
| `Netconn`, `Sockets`, `SockRecv` | the sequential API with the tcpip thread; socket table and select; `lwip_recvfrom` |
| `PppFsm`, `PppFsmClose`, `PppLcp`, `PppAuth`, `PppIpcp` | the automaton, link control, authentication, addresses |
| `Dhcp`, `Etharp` | the client with its servers; the ARP table |
| `SnmpAgent`, `SnmpAsn1`, `SnmpTree`, `SnmpIndex`, `SnmpObjects` | requests, encoding, tree walk, index tables, objects |
| `MCFirmware`, `MCService`, `MCBoard`, `MCKernel`, `MCStreams`, `MCLink`, `MCSnmp`, `MCApi`, `MCProgress` | what TLC runs |
| `FirmwareProofs`, `PowerProofs`, `EthSocketProofs`, `WifiStreamProofs`, `SockRecvProofs`, `RtxTimersProofs`, `PppAuthProofs`, `EtharpProofs` | lemmas and theorems |

The `map` of `PROJECT.json` gives the lines of each definition. Definitions keep the names of the functions
they model. Where a handler is one step of the processor for everyone else (a kernel call with interrupts
off, a callback on the tcpip thread), it is one action; where others can notice the middle of it, it is cut there.
A definition whose name ends in `_Something` after the name of another is a plausible wrong version of that
one, used to see that the properties notice it.

### `Firmware` and the code

`pc[t]` is the point where thread `t` stands. A step is what a thread does between two points where
another thread can notice something: one lock call, one transfer over JTAG, filling or sending a buffer,
waiting for or setting a signal. Labels start with the function they belong to: `m_` main, `d_` dispatch,
`tp_` term_printf, `ts_` term_scanf, `es_`/`er_` enet_send/enet_recv, `pw_` read_pow, `a_` the
acknowledgement, `g_` debug, `p_` panic. `Lock` moves the thread behind the call in any case; a thread in the
waiting list of a mutex is not `Runnable`, and `rt_mut_release` of another thread makes it so again.

| Variable | Code |
|---|---|
| `mtx` | `JTAG_mutex` "jtag", `term_write_mutex` "tw", `term_read_mutex` "tr", `pow_sensr_mutex` "pow" |
| `sig`, `alive` | the event flag of each thread; not terminated |
| `loc` | locals: request type and value of a service; `line` of main |
| `job` | `data_send_type`, `data_recv_type`, `req_gain_ctrl` |
| `fresh` | the static `init` flags of the handler and of `debug_loop` |
| `words` | how many words `debug_print` still has to read |
| `tx`, `rx` | the two terminal buffers |
| `ram` | the shared RAM: request type, WRITEBUF, READBUF, the acknowledgement |
| `core`, `irq`, `ack_irq` | the program on the core (external) and the two interrupt lines |
| `served` | ghost: what the last service did to a device |
| `line` | the line the user has typed |
| `power`, `halted` | supplies up; `exit` called |
| `hurt`, `faults` | threads whose access has been overlapped; how many accesses may still fail |

All threads of the firmware have one priority, so the priority-ordered waiting list of a mutex is a queue and
inheritance changes nothing; `RtxKernel` has both. A text, a line or a word is a member of a small set, and
the length a service returns is represented by the text. An access to the RAM is one step from the lock call
to the end of the transfer; if two overlap and `Garbles` is TRUE, a read may return junk or, for IO_TYPE, any
type in use, and a write may be lost. Up to `MaxFaults` accesses end in a panic with the mutexes of the
thread still locked. A panic in the interrupt handler finds the mutex calls refused by the kernel, so it
prints, powers down and exits in one step. `wireless_open` is always false: the call of `init_wifi` is
commented out. External: the core posts one request at a time; the user types lines; sockets succeed or fail.

### Abstractions in the other modules

* Octets of a stream are their positions in it, so that order, loss and repetition are visible and contents are not
  needed (`EthSocket`, `WifiStream`, `SockRecv`, `Tcp`).
* Sequence numbers and the kernel's clock keep their wrap-around with a smaller modulus (`SEQ`, `TimeWrap`);
  counters of MIB-II likewise (`Wrap`).
* Time is the tick of the timer in question; a timer that is set may expire at any tick where the code allows it.
* Packets are records of the fields the code looks at; options and checksums that no property
  tells apart are left out. The SNMP encoding is modelled by what it does, octet by octet.
* Allocation fails nondeterministically, within the bound `MaxFail`, wherever the code checks for it.
* `EthSocket` hands a text to the core as it came; that `jtag_readbuffer` stops at the first zero octet is in `SharedBuf`. `netif_add` and
  the registration of the callbacks are one step: a link that comes up between the two would go unnoticed in the code.
* `WifiStream` numbers the characters as `handler_rx` takes them. `Wifly::send`, for commands and for data, detaches the handler and discards what the
  module passes on meanwhile (`Wifly.cpp:375-379`, `463-467`): these characters have no number, so that `NothingLost` speaks of what reaches the ring. A peer that
  sends while the mbed sends loses data; the code has no means against it.
* In `Netconn`, posting a buffer and counting it for select (`api_msg.c:251-259`) are one step; `SockRecv` and `Sockets` have the two apart.
* `Sockets` has one reader per socket: a `lastdata` that another thread's read left behind does not occur. The rest of a buffer is in `SockRecv`.
* A PCB in TIME_WAIT is freed by `tcp_slowtmr` (`tcp.c:967`) although a connection that was only shut down still points to it; `Tcp` has the program find a closed PCB then.

## 3. Runs

A configuration gives the constants of a run their values. Several runs put scenarios beside one another:
the variable `part` (or `second`) says which one a behaviour belongs to, and no step changes it, so that each scenario
is checked as if alone. The base module of a run is the one it extends; the other scenarios are instances of
their modules on the variables `v1`, `v2`, ...

| Run | Module | Scenarios | Properties | Deadlock |
|---|---|---|---|---|
| `serve` | `MCService` | terminal: print, scan and panic requests with two texts, a user who types, debug dumps; devices: print, Ethernet up or down, wireless, all gains | `TypeOK`, `BuffersIntact`, `AckMatches`, `JobStable`, `ImplementsService` | checked |
| `stop` | `MCService` | one failing access anywhere, overlapped accesses garbled; quit at any moment | `LockInv`, `MutualExclusion`, `NoCircularWait`, `QuitAlone` | may stop |
| `live` | `MCFirmware` | requests for a line, dumps, one failing access, with fairness | `RequestAcked` | may stop |
| `board` | `MCBoard` | power sequences from the constructor of the JTAG object on, with panics and two restarts; JTAG accesses of 1 to 3 words over a block of 2 with WAIT; buffers of 3 words of 2 characters (`BUF_SIZE` 4) with texts of up to 6 characters, which fill `BUF_SIZE` and all of WRITEBUF; WiFly with 4 lost answers; the serial ring when it overruns | `RailOrder`, `InputsBelowDVDD`, `AccessExact`, `TextsExact`, `WirelessExact` | may stop |
| `kernel` | `MCKernel` | 3 timers; delays, intervals, priorities, events, semaphores, mailboxes (tasks and interrupts), mutexes with inheritance, mail queues with waiters that give up | `TimersExact`, `DelaysExact`, `Scheduled`, `NoLostWakeup`, `MessagesOnce` | checked |
| `streams` | `MCStreams` | the serial ring while it does not overrun; TCP data with a full mailbox; opening and giving up; closing and shutting down at any moment, with unsent data, a mailbox of one and a send queue in which the FIN finds no place, so that `tcp_close` is tried again | `NothingLost`, `BytesRead`, `Accounts`, `AllArrived`, `EdgeKept` | may stop |
| `link` | `MCLink` | LCP between two ends, on a looped line, against any peer; CHAP with late responses, PAP, a wrong secret; IPCP likewise; DHCP with one and two servers and short and infinite leases | `EndsAgree`, `OnlyWithSecret`, `LeaseHeld` | may stop |
| `snmp` | `MCSnmp` | three hosts and an ARP table of two entries, without queues and with; index tables (also for pending ARP entries), walks, requests in one and two slots, encodings with lengths of one, two and three octets, sets, counters | `OneEntryPerAddress`, `RowsMatch`, `WalksInOrder`, `RequestsWhole`, `ResponseReadable` | may stop |
| `api` | `MCApi` | reads of a stream, a datagram socket and with peeks; netconn client (a connect may fail at once), server, non-blocking, UDP, half-closed; select in two threads | `ReadsExact`, `AnsweredOnce`, `NoLostWakeup` | may stop |
| `progress` | `MCProgress` | wired network with two attempts, and twelve small scenarios with fairness | `NoFdLeak`, `StreamsExact`, `EveryoneServed`, `ComesUp` | may stop |
| `jtag_overlap` | `MCFirmware` | print and a debug dump | violates `JtagExclusive` | |
| `panic_stuck` | `MCFirmware` | print, a debug dump, one fault, with fairness | violates `PanicPowersDown` | |

"May stop": the budget of calls, messages or restarts is finite, or the firmware has quit or exited. A thread
that waits for ever is then found by an invariant (`NoLostWakeup`, `AnsweredOnce`, `NoCircularWait`) or by a
liveness property instead.

Bounds. In `Firmware` the core has one request outstanding, which is all the interface can hold; two texts
tell one request's data from another's and from the previous one's; one word per buffer of the dump
(`DebugWords = 1`) still gives two reads, the blank line and three prints, and the number of dumps is not
bounded. `MaxFaults = 1` allows a panic at any access of any thread. Elsewhere buffers, tables, mailboxes
and pools have one to three places, so that "full" happens; sequence numbers start next to their wrap; budgets
(`MaxCalls`, `MaxFail`, `MaxLost`, ...) are large enough that every action and every alternative of the modules is
taken in some run. All state spaces are explored completely. Limits: `serve` assumes `Garbles = FALSE`; `live` has the
scan service only, because print and scan together with a fault exceed what is practical.

`ImplementsService` is the refinement of `Service`: its request, service and answer are mapped to `core`, `served` and
the acknowledgement, and every step of the firmware must be one of its steps or a stutter.

Fairness. `Firmware!Fairness` is weak fairness of every thread's code, because RTX runs threads of one priority
round robin and a thread that can run keeps being able to; of the interrupt, which the hardware delivers; of the
core taking its acknowledgement; and of the user, who keeps typing (a scan cannot be served otherwise). Requests
and faults are not fair. No strong fairness is needed since the mutexes hand over in FIFO order.
`MCProgress` assumes weak fairness of the thread or timer that each scenario depends on, of the tcpip thread, of
the servers that answer and of timers that are set; in the negotiations, that a line which is never empty delivers and
that a timer which stays set expires. Loss is bounded there, since against a line that loses everything nothing comes up.

## 4. Proofs

Every theorem holds for all values of the constants, under the assumptions of the modules, which only say what kind
of thing each constant is: `ConstantsAssumption`, `EthAssumption`, `StreamAssumption`, `RecvAssumption` (lengths of buffers are
positive, as in lwIP, where an empty buffer is the end of the stream), `TimersAssumption`, `LineAssumption` and `SettingsAssumption` (each end of
a PPP line is the peer of its peer), `SizeAssumption` and `AddressAssumption` (the address of a host is neither none, the broadcast address nor a group). Two further hypotheses are stated in the
theorems themselves. `~Garbles`, for what depends on the contents of the RAM: the debug dump and the first interrupt drive
the pins without the lock (`jtag_overlap`), and what an overlapped access returns is unknown. `~Overruns`, for the serial ring:
a ring that is asked to hold more than its capacity drops characters by design.

| Theorem | States | Invariant |
|---|---|---|
| `FirmwareProofs!TypeCorrect` | `TypeOK` | `IInv` |
| `FirmwareProofs!LocksCorrect` | `LockInv` | `IInv` |
| `FirmwareProofs!Exclusion` | `MutualExclusion` | `IInv` |
| `FirmwareProofs!BuffersSafe` | `BuffersIntact` | `IInv` |
| `FirmwareProofs!NoCircle` | `NoCircularWait` | `IInv` |
| `FirmwareProofs!PowerDownSafe` | `QuitAlone` | `IInv`, `QuitInv` |
| `FirmwareProofs!RequestKnown` | where the one request is and what is known there | `IInv`, `RequestInv`, `QuitInv`, `StartInv` |
| `FirmwareProofs!AnswersRequest` | `AckMatches` | the same |
| `FirmwareProofs!JobsSafe` | `JobStable` | the same |
| `FirmwareProofs!Refinement` | `ImplementsService` | the same |
| `PowerProofs!SuppliesOrdered` | `RailOrder` | `OrderInv` |
| `PowerProofs!InputsSafe` | `InputsBelowDVDD` | `PinsInv` |
| `EthSocketProofs!NoDescriptorLost` | `NoFdLeak` | `SockInv` |
| `EthSocketProofs!BytesInOrder` | `StreamsExact` | `SockInv` |
| `WifiStreamProofs!RingKeepsAll` | `NothingLost` | `RingInv` |
| `WifiStreamProofs!RingInOrder` | `InOrder` (part of `WirelessExact`), overruns included | `OverInv` |
| `SockRecvProofs!ReadsRight` | `ReadsExact` | `RecvInv` |
| `RtxTimersProofs!TimersRight` | `TimersExact` | `TInv` |
| `PppAuthProofs!SecretNeeded` | `OnlyWithSecret` | `AuthInv` |
| `EtharpProofs!TableRight` | `OneEntryPerAddress` | `ArpInv` |

* **`IInv`** = `SchedOK /\ DataOK /\ LockInv /\ WordsInv /\ BufInv`. Mutual exclusion alone is not inductive: a hand-over
  makes a waiting thread the owner without a step of its own, so one has to know that whoever is in the list stands
  directly behind its lock call (`BehindLock`), appears in it once and is not the owner. A thread that has called panic may own
  mutexes at any depth, and a terminated thread may own one for ever, so both are excepted. `WordsInv` says that the debug
  thread has a word left wherever it is going to read one. `BufInv` is preserved because whoever writes a
  terminal buffer owns the mutex (`OnlyOwner`); the interrupt handler writes without, but only on its way to `exit`. The first lemmas of `FirmwareProofs`
  say what each kernel operation does to a control block; the next show that each kind of step preserves `LockInv`; then there is
  one lemma per operation. `NoCircle` needs in addition that a thread which holds one mutex and waits waits for `JTAG_mutex`.
* **`RequestInv`**. `AckMatches` relates the first step of a request to its last. The invariant follows the request like a
  token: it is on the interrupt line, with the dispatcher, at one worker or on the acknowledge line, and nowhere
  else (`Token`); the RAM, the job words, the locals and the ghost agree with the core's request at each of these places. Without the
  uniqueness a second worker could change the job or the acknowledgement. `QuitInv` and `StartInv` say what main has done
  before it serves and after it stops: terminated workers are off the path, and there is no request before the start.
  The refinement uses the invariant before and after a step: each action is one step of `Service` (`Ask`, `Take`, `Perform`, `Write`, `Answer`, `PowerOff`) or leaves its variables alone.
* **`OrderInv`, `PinsInv`**. The order of the supplies does not follow from their values: what matters is the rest of the sequence
  each thread is in. A thread that goes down has each 3.3 V supply at zero or still before it in its list, and all of them before a
  1.8 V one; going up it is the other way round. Main and a panicking worker may run two sequences at once, and a restart
  starts one in any state of the supplies. `PinsInv` adds that the pins are high only where main drives them and that DVDD is up there. The constructor of the JTAG object, which runs before
  `init_hw`, drives them too and is excepted (section 5); it leaves them low.
* **`SockInv`**. A descriptor that lwIP has in use is the one the socket object knows or the one an attempt is about to store; what a
  call has moved, what is left of its buffer and the position of the stream add up.
* **`RingInv`**. The ring has no lock and `read` is outside the ring for a moment between two instructions. The invariant says where the
  oldest character is at each point of the thread and that the slots behind it hold what arrived, in order.
* **`OverInv`**. With overruns `read` no longer says what has been taken: the handler moves it forward and the thread, which had loaded it
  before, stores it back. What stays true is a distance: the slots behind `write` hold the last characters that arrived, and the place the thread goes on from
  is behind `write` by no more than what has arrived since the character it took last (`Newer`).
* **`RecvInv`**. What a call has copied, what is left of the buffer in hand and what waits in the mailbox are neighbouring pieces of the
  stream (`Copying`, `InHand`, `Boxed`). The event counter of the socket is the length of the mailbox up to the buffer that was fetched but not
  yet counted and the one posted but not yet announced (`Counted`): this is what makes it safe to go on reading when the counter is
  positive. An empty buffer is in the mailbox only after the end or a reset (`Ended`), and the call that meets it has taken all before it (`Ends`). The window has been opened by what was taken, except for
  the octets of the call in progress, and by one octet more once the end was met (section 5); with `MSG_PEEK` that is false (section 5), so this part excludes peeks.
* **`TInv`**. `TimersExact` adds up differences, and the tick is a loop; the provers do no induction over either. `Exact` relates each difference
  to the times of two neighbours instead, which each operation preserves without a sum (`InsertExact`, `RemoveExact`). The sums, the place
  where a timer is put in and the loop then follow by least counterexamples: a set of natural numbers that is not empty has a least element
  (`Least`, from the well-foundedness of `<`), so the first step where the claim fails would come behind one where it holds. `RunAt` says what the loop
  has done after `j` steps: the first `j` of the timers that expire have been served, and the others still stand at the head of the list.
* **`AuthInv`**. That the network phase needs the secret is not inductive: late packets of an earlier link, both protocols and a link
  that comes up again all reach `auth_withpeer_success` and `link_established`. What travels is typed by its sender (`Packets`): the digest
  in a response holds the secret of the end that sent it, whichever challenge it answers, so the one `ChapReceiveResponse` expects is not among them. An end that has demanded CHAP
  of a peer with another secret has `<<"chap", "peer">>` in `auth_pending` from its first `link_established` on, also while the link is down, when a late
  Success can still complete the other half (section 5, `NetworkOnLink`). Before that it is `Untouched`: in phase INITIALIZE or ESTABLISH, without a timer, so that no
  packet and no timeout reaches PAP or CHAP. A digest is the triple it is computed from: the theorem is about the protocol, not about MD5.
* **`ArpInv`** = `Good /\ Known /\ SentToOwner /\ InOrder`. That a packet goes to the hardware address its hop announced last says nothing about the table it
  is read from, and the cached index may point to any entry. So the invariant says it of the table (`Good`): an entry in use belongs to a unicast address and is
  younger than the limit, a stable one holds what that address announced last, two entries in use differ in their address, and the packets of a queue
  are ascending and were all meant for the address of their entry. With that, a hit of the
  cached index is a hit of the right entry, however it was recycled in between. The packets held and the queue elements in use are exactly the
  waiting ones, so that recycling, replacing, timing out and sending give back each one once. Claiming an entry, settling it, queueing and freeing are functions on the table with a lemma each,
  and every handler is a chain of them.

Only model-checked, and why. Liveness under fairness (`RequestAcked`, `EveryoneServed`, `ComesUp`, `PanicPowersDown`) is out of the
prover's reach. What a recursion over data computes (encodings in `SnmpAsn1`, the walk in `SnmpTree`, the sums of deltas in the
delay list, `SharedBuf`) needs induction over sequences: the library's theorems cannot be used for it, and the detour by least counterexamples (`RtxTimersProofs`) has not been made for these. The larger protocols (`Tcp`, `Netconn`, `Sockets`, `PppFsm`, `PppLcp`, `PppIpcp`, `Dhcp`,
`RtxKernel`, `DebugPort`) have invariants that are checked but not yet strengthened to inductive ones.

## 5. Known disagreements

Places where the code does something else than a comment, a document or an assertion of the repository says. The first two
are shown by a run. For the ones with a definition in brackets the module states the promise, so that TLC can be asked for
a behaviour that breaks it; it is not among the properties of the passing runs, and the scenarios of those keep clear of
the situations below where these would break their properties.

The firmware:
* `basic_io.cpp:112`: `debug_print` reads the RAM without `JTAG_mutex`, so its transactions interleave with those of the workers (run `jtag_overlap`).
* `panic.cpp:18`: panic locks `term_write_mutex` in a thread that may hold `JTAG_mutex`, `term_printf` the other way round; `power_down` is not reached (run `panic_stuck`).
* `main.cpp:86`: a stray semicolon; every line other than quit wakes the debug thread; `signal.h:28` says "user type debug" [`Firmware!DebugOnlyOnCommand`].
* `main.cpp:92`: a terminated worker keeps `term_write_mutex`, and main waits for it at line 99 with the core powered [`Firmware!QuitPowersDown`].
* `panic.cpp:25`: panic powers down without stopping the other threads, which may raise pins that `power.cpp:122` wants low.
* `main.cpp:66`: a worker that panics while main runs `power_core` leaves supplies up [`Power!PanicLeavesCoreOff`].
* `jtag.cpp:150`: the second pass of `loadProgram` stands behind `!feof(fp)` of a file that is not rewound and compares nothing; line 141 says "Check prog in Imem" [`DebugPort!LoadVerified`].
* `main.cpp:40`, `jtag.cpp:508`: the constructor of the JTAG object resets the TAP, raising TMS and TCK, before `init_hw` has raised DVDD; `power.cpp:122` wants the inputs "not above DVDD" [`Power!InputsNeverAboveDVDD`].
* `shared_buf.cpp:18`: a WRITEBUF without a terminator gives 124 characters and a zero for a buffer of 120 (`BUF_SIZE`); `Ethernet.cpp:93` puts the zero one behind the buffer when `BUF_SIZE` characters came [`SharedBuf!WithinBuffer`].
* `mmap.h:19`: ACK_RETURN_VAL is the last word of READBUF: a text of `BUF_SIZE` characters loses its terminator [`SharedBuf!TextEnded`].
* `TCPSocketConnection.cpp:152` (WiFly): each round of `receive_all` takes up to `length`, not `length - idx`, characters [`WifiStream!WithinLength`].

The RTX kernel:
* `rt_Mutex.c:177`: a waiter is compared with the priority the owner had, not has; a second waiter can lower it.
* `rt_Mutex.c:116`: a second mutex remembers an inherited priority; released in the other order, the task keeps it.
* `rt_Mailbox.c:209`: `isr_mbx_receive` trusts a state that a sender which timed out leaves behind, and a null message appears.
* `rt_Time.c:74`: the end of an interval is kept in `delta_time`, which the delay list uses too: a delay or a timed wait between `rt_itv_set` and
  `rt_itv_wait` overwrites it (with "mixed" among `Ops` such calls are made and `DelaysExact` fails).
* `rt_CMSIS.c:931`: restarting a running periodic timer keeps its old period.
* `rt_CMSIS.c:1671`: the timers of one tick all see room in the queue, which overflows afterwards.
* `rt_CMSIS.c:1845`, `:1803`: the state of a mail queue outlives the waiting task; a block waiter behind a mail waiter is given a mail, and a
  block can be lost or a null pointer taken for a task [`RtxMail!BlocksNeverLost`].

TCP, DHCP and PPP:
* `tcp_in.c:778`: in LAST_ACK an acknowledgement of `snd_nxt` frees the PCB with data and FIN unsent, and `:739`, `:753`, `:770` take one for that of the FIN in FIN_WAIT_1
  and CLOSING; `tcp.c:228` promises to send it [`Tcp!CloseDelivers`].
* `tcp_in.c:382`: a refused end of the stream is not kept, and the reader waits for ever [`Tcp!EndAlwaysTold`].
* `tcp_in.c:341`: `acked` keeps its value when `tcp_process` returns early, and the same bytes are reported again [`Tcp!SentOnce`].
* `tcp_out.c:921`: when the Nagle algorithm holds the data back, the ACK that was due is not sent either [`Tcp!AckSent`].
* `dhcp.c:465`: timers of an earlier lease renew one that is gone [`Dhcp!RenewsExisting`]; `:1591`: a renewal's lease time is dropped [`Dhcp!LeaseRemembered`];
  `:1188`: a release names neither server nor lease [`Dhcp!ReleaseEnds`]; `:538`: without a T2 option rebinding starts when the lease is over; `:1604`: an offer
  without a Server-ID stops the timer of the discovery.
* `fsm.c:716`: a Terminate-Ack in OPENED takes the layers down but stays OPENED [`PppLcp!OpenedIsUp`, `PppIpcp!CountsInterfaces`]; `fsm.c:237`: a port that
  ended in STOPPED does not negotiate again [`PppLcp!StartNegotiates`].
* `chap.c:434`: a challenge is answered with the lower layer down [`PppAuth!NetworkOnLink`]; `auth.c:675`: a second Success counts a protocol twice [`PppAuth!OpenedCounted`].

SNMP and the programming interfaces:
* `msg_out.c:148`: after a lack of memory the announced lengths are those of another list [`SnmpAgent!LengthsMatch`]; `msg_in.c:735`: an object that vanishes
  during a set has no branch [`SnmpAgent!NeverLost`]; `msg_in.c:715` sets all values "atomically", but with an object gone in between (`:599`) the ones in front of it are set and genErr is
  answered, and tooBig may follow a complete set [`SnmpAgent!SetAtomic`].
* `mib2.c:1168`, `udp.c:774`, `mib2.c:1505`: index rows that outlive a renumbering or a rebind, and an empty route table that is announced as filled.
* `asn1_enc.c:162`, `asn1_dec.c:440`: sub-identifiers from 2^31 on are counted as one octet; an empty identifier at the end of a message is refused.
* `mib2.c:2512`: the values of ifAdminStatus and ifOperStatus are swapped.
* `api_lib.c:376`: the end of a stream asks for room of one octet; `tcp_in.c:377`: "the application won't call tcp_recved() for the FIN's seqno", so the window is opened twice for it
  [`SockRecv!NoRoomForEnd`].
* `api_msg.c:784`: after a shutdown for writing, arriving data fails the assertion at line 225; `api_lib.c:732`: a failed callback leaves the resolver's caller waiting.
* `sockets.c:1255`: an error reported before the accepted connection has its socket is dropped [`Sockets!ErrorSeen`]; `sockets.c:727`: a peek opens the window too
  (`api_lib.c:505`: "this must be accurate!").

## 6. Not modelled, and the plan

Left out: pin declarations, the clock set-up macros, stack frames and memory boxes of the kernel, the C++ wrappers, digests and
compression of PPP, IP forwarding and reassembly, the name resolver's own state, packet buffers and pools (models count what
they use), the Ethernet driver and the K64F port. `PROJECT.json` gives the reason for each.

Next, in this order:
1. Proofs: the lists of `RtxKernel` (`Scheduled`, `NoLostWakeup`); the copy loops of `SharedBuf` position by position.
2. Models: IP reassembly, which keeps state over lost fragments, and the descriptor rings of the Ethernet driver.
