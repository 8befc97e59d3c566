----------------------------- MODULE EthSocket -----------------------------
(***************************************************************************)
(* The wired network as the firmware uses it: init_ethernet (Ethernet.cpp), *)
(* the interface and its callbacks (EthernetInterface.cpp) and the socket   *)
(* classes (Ethernet_Socket/).  main brings the interface up and tries to   *)
(* connect; afterwards the send and the receive thread use the same socket  *)
(* at the same time.  lwIP is external here: what its calls may return.     *)
(* Bytes of a stream are numbered, so a sequence of numbers is a text.      *)
(***************************************************************************)
EXTENDS Integers, Sequences

CONSTANTS
    Attempts,    \* attempts to connect (8 in the code)
    BUF_SIZE,    \* bytes a call moves
    PeerBytes,   \* bytes the peer sends
    MaxCalls     \* calls of each thread

ASSUME EthAssumption ==
    /\ Attempts \in Nat \ {0} /\ BUF_SIZE \in Nat \ {0}
    /\ PeerBytes \in Nat /\ MaxCalls \in Nat

NoFd == -1
Fds == 0 .. 1
Callers == {"send", "recv"}

VARIABLES
    pc,          \* of main, the tcpip thread and the callers
    sem,         \* tokens of tcpip_inited, netif_linked and netif_up
    netif,       \* the interface: added, up, link, callbacks set
    counter,     \* attempts left
    ethernet_open,
    sock,        \* the socket object: _sock_fd, _is_connected, _blocking
    lwip,        \* lwIP: descriptors in use, peer accepted, closed by the peer, bytes taken
    call,        \* of each caller: bytes done, what it has moved, its result
    toCore,      \* what the core got
    lost,        \* a call failed after it had taken bytes
    calls

vars == <<pc, sem, netif, counter, ethernet_open, sock, lwip, call, toCore, lost, calls>>
net == <<sem, netif, counter, ethernet_open>>
io == <<call, toCore, lost, calls>>

Init ==
    /\ pc = [main |-> "init", tcpip |-> "none", send |-> "none", recv |-> "none"]
    /\ sem = [inited |-> 0, linked |-> 0, up |-> 0]
    /\ netif = [added |-> FALSE, up |-> FALSE, link |-> FALSE, callbacks |-> FALSE]
    /\ counter = Attempts
    /\ ethernet_open = FALSE
    /\ sock = [fd |-> NoFd, connected |-> FALSE, blocking |-> TRUE]
    /\ lwip = [used |-> {}, peer |-> FALSE, closed |-> FALSE, taken |-> 0]
    /\ call = [t \in Callers |-> [n |-> 0, moved |-> <<>>, result |-> 0]]
    /\ toCore = <<>> /\ lost = FALSE
    /\ calls = [t \in Callers |-> 0]

To(t, l) == pc' = [pc EXCEPT ![t] = l]

-----------------------------------------------------------------------------
(* EthernetInterface.cpp                                                      *)

(* init and init_netif: tcpip_init starts the thread of lwIP. *)
EthernetInterface_init ==
    /\ pc["main"] = "init"
    /\ pc' = [pc EXCEPT !["main"] = "wait_inited", !["tcpip"] = "starting"]
    /\ UNCHANGED <<net, sock, lwip, io>>

tcpip_init_done ==
    /\ pc["tcpip"] = "starting"
    /\ sem' = [sem EXCEPT !.inited = @ + 1]
    /\ To("tcpip", "run")
    /\ UNCHANGED <<netif, counter, ethernet_open, sock, lwip, io>>

init_netif ==
    /\ pc["main"] = "wait_inited" /\ sem.inited > 0
    /\ sem' = [sem EXCEPT !.inited = @ - 1]
    /\ netif' = [netif EXCEPT !.added = TRUE, !.callbacks = TRUE]
    /\ To("main", "connect")
    /\ UNCHANGED <<counter, ethernet_open, sock, lwip, io>>

(* connect without DHCP: the interface is set up, netif_status_callback       *)
(* copies the addresses and releases netif_up, main waits for the link.       *)
EthernetInterface_connect ==
    /\ pc["main"] = "connect"
    /\ netif' = [netif EXCEPT !.up = TRUE]
    /\ sem' = [sem EXCEPT !.up = IF netif.callbacks THEN @ + 1 ELSE @]
    /\ To("main", "wait_link")
    /\ UNCHANGED <<counter, ethernet_open, sock, lwip, io>>

(* The cable is plugged in or pulled: the tcpip thread calls back. *)
netif_link_callback ==
    /\ pc["tcpip"] = "run" /\ netif.added
    /\ netif' = [netif EXCEPT !.link = ~@]
    /\ sem.linked < 2
    /\ sem' = [sem EXCEPT !.linked = IF netif'.link /\ netif.callbacks THEN @ + 1 ELSE @]
    /\ UNCHANGED <<pc, counter, ethernet_open, sock, lwip, io>>

LinkUp ==
    /\ pc["main"] = "wait_link" /\ sem.linked > 0
    /\ sem' = [sem EXCEPT !.linked = @ - 1]
    /\ To("main", "try")
    /\ UNCHANGED <<netif, counter, ethernet_open, sock, lwip, io>>

Started == pc' = [pc EXCEPT !["main"] = "done", !["send"] = "idle", !["recv"] = "idle"]

(* The wait for the link times out: init_ethernet gives up, main goes on. *)
LinkTimeout ==
    /\ pc["main"] = "wait_link" /\ sem.linked = 0
    /\ Started
    /\ UNCHANGED <<net, sock, lwip, io>>

-----------------------------------------------------------------------------
(* init_ethernet: the attempts to connect.                                    *)

(* Mutant of CloseSocket: a failed attempt keeps its descriptor. *)
CloseSocket_Forgotten ==
    /\ sock' = [sock EXCEPT !.fd = NoFd]
    /\ UNCHANGED lwip
CloseSocket ==
    /\ sock' = [sock EXCEPT !.fd = NoFd]
    /\ lwip' = [lwip EXCEPT !.used = @ \ {sock.fd}]

TakeAttempt == counter' = counter - 1

(* connect: init_socket takes a descriptor, or fails without one.  The        *)
(* address is in dotted notation and needs no name server.                    *)
init_socket ==
    /\ pc["main"] = "try" /\ counter > 0
    /\ TakeAttempt
    /\ \/ /\ sock.fd = NoFd
          /\ \E fd \in Fds \ lwip.used :
                /\ lwip' = [lwip EXCEPT !.used = @ \cup {fd}]
                /\ sock' = [sock EXCEPT !.fd = fd]
          /\ To("main", "connecting")
       \/ UNCHANGED <<pc, sock, lwip>>      \* lwip_socket fails
    /\ UNCHANGED <<sem, netif, ethernet_open, io>>

SetBlocking(s) == [s EXCEPT !.blocking = FALSE]

lwip_connect ==
    /\ pc["main"] = "connecting"
    /\ \/ /\ netif.link
          /\ lwip' = [lwip EXCEPT !.peer = TRUE]
          /\ sock' = SetBlocking([sock EXCEPT !.connected = TRUE])
          /\ ethernet_open' = TRUE
          /\ Started
       \/ /\ CloseSocket
          /\ To("main", "try")
          /\ UNCHANGED ethernet_open
    /\ UNCHANGED <<sem, netif, counter, io>>

GiveUp ==
    /\ pc["main"] = "try" /\ counter = 0
    /\ Started
    /\ UNCHANGED <<net, sock, lwip, io>>

-----------------------------------------------------------------------------
(* Ethernet_TCPSocketConnection and its callers enet_send and enet_recv.      *)

Usable == sock.fd # NoFd /\ sock.connected

Begin(t) ==
    /\ pc[t] = "idle" /\ calls[t] < MaxCalls
    /\ calls' = [calls EXCEPT ![t] = @ + 1]
    /\ IF ethernet_open /\ Usable
       THEN /\ call' = [call EXCEPT ![t] = [n |-> 0, moved |-> <<>>, result |-> 0]]
            /\ To(t, "loop")
       ELSE /\ call' = [call EXCEPT ![t] = [n |-> 0, moved |-> <<>>,
                                            result |-> IF ethernet_open THEN -1 ELSE 0]]
            /\ UNCHANGED pc
    /\ UNCHANGED <<net, sock, lwip, toCore, lost>>

Result(t, r) == call' = [call EXCEPT ![t].result = r]

(* wait_writable and wait_readable time out: what was moved so far counts. *)
Timeout(t) ==
    /\ pc[t] = "loop" /\ call[t].n < BUF_SIZE /\ ~sock.blocking
    /\ Result(t, call[t].n)
    /\ To(t, "return")
    /\ UNCHANGED <<net, sock, lwip, toCore, lost, calls>>

Full(t) ==
    /\ pc[t] = "loop" /\ call[t].n = BUF_SIZE
    /\ Result(t, call[t].n)
    /\ To(t, "return")
    /\ UNCHANGED <<net, sock, lwip, toCore, lost, calls>>

(* lwip_send or lwip_recv reports an error. *)
Fails(t) ==
    /\ pc[t] = "loop" /\ call[t].n < BUF_SIZE
    /\ Result(t, -1)
    /\ lost' = (lost \/ (t = "recv" /\ call[t].n > 0))
    /\ To(t, "return")
    /\ UNCHANGED <<net, sock, lwip, toCore, calls>>

(* The peer has closed: zero bytes.  For the receiver only when every byte    *)
(* was read.                                                                  *)
Closed(t) ==
    /\ pc[t] = "loop" /\ call[t].n < BUF_SIZE /\ lwip.closed
    /\ t = "recv" => lwip.taken = PeerBytes
    /\ sock' = [sock EXCEPT !.connected = FALSE]
    /\ Result(t, call[t].n)
    /\ To(t, "return")
    /\ UNCHANGED <<net, lwip, toCore, lost, calls>>

(* lwIP takes some of the bytes of the text from data + writtenLen on. *)
send_all ==
    /\ pc["send"] = "loop" /\ call["send"].n < BUF_SIZE
    /\ \E ret \in 1 .. BUF_SIZE - call["send"].n :
          call' = [call EXCEPT !["send"].n = @ + ret,
                               !["send"].moved = @ \o [k \in 1 .. ret |-> call["send"].n + k]]
    /\ UNCHANGED <<pc, net, sock, lwip, toCore, lost, calls>>

(* Mutant of receive_all: every round stores at the start of the buffer. *)
receive_all_AtStart ==
    /\ pc["recv"] = "loop" /\ call["recv"].n < BUF_SIZE
    /\ \E ret \in 1 .. BUF_SIZE - call["recv"].n :
          /\ lwip.taken + ret <= PeerBytes
          /\ lwip' = [lwip EXCEPT !.taken = @ + ret]
          /\ call' = [call EXCEPT !["recv"].n = @ + ret,
                                  !["recv"].moved = [k \in 1 .. ret |-> lwip.taken + k]]
    /\ UNCHANGED <<pc, net, sock, toCore, lost, calls>>

(* lwIP delivers the next bytes of the peer to data + readLen. *)
receive_all ==
    /\ pc["recv"] = "loop" /\ call["recv"].n < BUF_SIZE
    /\ \E ret \in 1 .. BUF_SIZE - call["recv"].n :
          /\ lwip.taken + ret <= PeerBytes
          /\ lwip' = [lwip EXCEPT !.taken = @ + ret]
          /\ call' = [call EXCEPT !["recv"].n = @ + ret,
                                  !["recv"].moved = @ \o [k \in 1 .. ret |-> lwip.taken + k]]
    /\ UNCHANGED <<pc, net, sock, toCore, lost, calls>>

(* enet_send returns size as it is; enet_recv hands the bytes to the core     *)
(* only when there are any.                                                   *)
Return(t) ==
    /\ pc[t] = "return"
    /\ toCore' = IF t = "recv" /\ call[t].result > 0 THEN toCore \o call[t].moved ELSE toCore
    /\ call' = [call EXCEPT ![t].n = 0, ![t].moved = <<>>]
    /\ To(t, "idle")
    /\ UNCHANGED <<net, sock, lwip, lost, calls>>

PeerCloses ==
    /\ lwip.peer /\ ~lwip.closed
    /\ lwip' = [lwip EXCEPT !.closed = TRUE]
    /\ UNCHANGED <<pc, net, sock, io>>

Next ==
    \/ EthernetInterface_init \/ tcpip_init_done \/ init_netif \/ EthernetInterface_connect
    \/ netif_link_callback \/ LinkUp \/ LinkTimeout
    \/ init_socket \/ lwip_connect \/ GiveUp
    \/ \E t \in Callers : Begin(t) \/ Timeout(t) \/ Full(t) \/ Fails(t) \/ Closed(t) \/ Return(t)
    \/ send_all \/ receive_all \/ PeerCloses

Spec == Init /\ [][Next]_vars

-----------------------------------------------------------------------------
(* However many attempts fail, lwIP has at most the one descriptor in use     *)
(* that the socket object knows, and the network counts as open only while it *)
(* has one that is connected or that the peer has closed.                     *)
NoFdLeak ==
    /\ lwip.used = IF sock.fd = NoFd THEN {} ELSE {sock.fd}
    /\ ethernet_open => sock.fd # NoFd /\ lwip.peer /\ (sock.connected \/ lwip.closed)

(* A call that reports n >= 0 bytes has sent the first n bytes of the text,   *)
(* each once and in order, however the sends, timeouts and the close of the   *)
(* peer fall.                                                                 *)
SentExact ==
    pc["send"] = "return" /\ call["send"].result >= 0 =>
        call["send"].moved = [k \in 1 .. call["send"].result |-> k]

(* What the core gets is the stream of the peer without gaps or repetition,   *)
(* unless a call failed in the middle.                                        *)
ReceivedInOrder ==
    ~lost => \A k \in 1 .. Len(toCore) : toCore[k] = k

(* The streams of both directions are exact (send_all, receive_all). *)
StreamsExact == SentExact /\ ReceivedInOrder

=============================================================================
