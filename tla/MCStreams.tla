----------------------------- MODULE MCStreams ------------------------------
(***************************************************************************)
(* The two ways a stream comes in: over the serial line of the wireless    *)
(* module, whose state is that of WifiStream, which this module extends,   *)
(* and over a TCP connection of the EthernetInterface in four scenarios:   *)
(* one end sends more than the window holds; the connection is opened and  *)
(* abandoned; it is closed or shut at any time, with data unsent or        *)
(* unacknowledged, above a mailbox of one place; and it is closed while    *)
(* the send queue has no room for the FIN, so that tcp_close fails and is  *)
(* tried again. Sequence numbers wrap within each of them.                 *)
(***************************************************************************)
EXTENDS WifiStream

(* What is the same in all scenarios. *)
SEQ == 32
TCP_MSS == 2
SYN_MSS == 1
TCP_WND == 4
TCP_SND_BUF == 4
CWND_MAX == 12

(* The writes of the program at "a"; the one at "b" only reads. *)
Writes(w) == [e \in {"a", "b"} |-> IF e = "a" THEN w ELSE <<>>]

VARIABLES
    part,   \* which scenario a behaviour belongs to
    pcb, conn, net, iss, ticks, faults   \* its state

all == <<part, vars, pcb, conn, net, iss, ticks, faults>>

Data == INSTANCE Tcp WITH
    MaxFaults <- 1, TCP_SND_QUEUELEN <- 4, ISS <- 29, MBOX <- 1,
    TCP_MAXRTX <- 3, TCP_SYNMAXRTX <- 2, Bytes <- Writes(<<3, 2>>),
    Closers <- {}, Shutters <- {}, Hasty <- FALSE, Unread <- FALSE,
    Early <- TRUE, Expire <- FALSE, Keepalive <- FALSE, MaxTicks <- 1,
    MaxNet <- 3

Open == INSTANCE Tcp WITH
    MaxFaults <- 1, TCP_SND_QUEUELEN <- 4, ISS <- 31, MBOX <- 2,
    TCP_MAXRTX <- 2, TCP_SYNMAXRTX <- 1, Bytes <- Writes(<<1>>),
    Closers <- {"a", "b"}, Shutters <- {}, Hasty <- TRUE, Unread <- TRUE,
    Early <- TRUE, Expire <- TRUE, Keepalive <- TRUE, MaxTicks <- 1,
    MaxNet <- 2

Close == INSTANCE Tcp WITH
    MaxFaults <- 1, TCP_SND_QUEUELEN <- 2, ISS <- 29, MBOX <- 1,
    TCP_MAXRTX <- 3, TCP_SYNMAXRTX <- 2, Bytes <- Writes(<<3>>),
    Closers <- {"a", "b"}, Shutters <- {"b"}, Hasty <- TRUE, Unread <- FALSE,
    Early <- TRUE, Expire <- FALSE, Keepalive <- FALSE, MaxTicks <- 1,
    MaxNet <- 2

Full == INSTANCE Tcp WITH
    MaxFaults <- 0, TCP_SND_QUEUELEN <- 2, ISS <- 29, MBOX <- 2,
    TCP_MAXRTX <- 3, TCP_SYNMAXRTX <- 2, Bytes <- Writes(<<4>>),
    Closers <- {"a", "b"}, Shutters <- {"b"}, Hasty <- TRUE, Unread <- FALSE,
    Early <- FALSE, Expire <- FALSE, Keepalive <- FALSE, MaxTicks <- 1,
    MaxNet <- 2

MCInit ==
    /\ Init
    /\ \/ part = "serial" /\ pcb = 0 /\ conn = 0 /\ net = 0 /\ iss = 0 /\ ticks = 0
            /\ faults = 0
       \/ part = "data" /\ Data!Init
       \/ part = "open" /\ Open!Init
       \/ part = "close" /\ Close!Init
       \/ part = "full" /\ Full!Init

MCNext ==
    \/ part = "serial" /\ Next
         /\ UNCHANGED <<part, pcb, conn, net, iss, ticks, faults>>
    \/ part = "data" /\ Data!Next /\ UNCHANGED <<part, vars>>
    \/ part = "open" /\ Open!Next /\ UNCHANGED <<part, vars>>
    \/ part = "close" /\ Close!Next /\ UNCHANGED <<part, vars>>
    \/ part = "full" /\ Full!Next /\ UNCHANGED <<part, vars>>

MCSpec == MCInit /\ [][MCNext]_all

(* The program reads the bytes the other one wrote, in order, none skipped  *)
(* and none twice, whatever the network loses, repeats and overtakes, and   *)
(* the receive window counts exactly what is not yet read, also for data    *)
(* that a full mailbox has refused (tcp_receive, recv_tcp).                 *)
BytesRead ==
    /\ part = "data" => Data!InOrder /\ Data!WindowWhole

(* The queues of a control block and its counters agree, through            *)
(* retransmissions and acknowledgements of parts (tcp_receive, tcp_rexmit); *)
(* while a connection opens its SYN stays in one of them, and a connection  *)
(* that is accepted is one both ends know.                                  *)
Accounts ==
    /\ part = "data" => Data!Accounts
    /\ part = "open" => Open!SynKept /\ Open!AcceptKnown

(* A connection that was closed, whatever was unsent or unacknowledged then *)
(* and however often tcp_close had to be tried, has delivered every byte    *)
(* that was written and its end, unless an acknowledgement was taken for    *)
(* that of a FIN still unsent (tcp_in.c:743, 778); and the program at the   *)
(* other end is told of the end behind the last byte, unless its mailbox    *)
(* was full at that moment (tcp_in.c:382).                                  *)
AllArrived ==
    /\ part = "close" => Close!AllArrived /\ Close!EofTold
    /\ part = "full" => Full!AllArrived /\ Full!EofTold

(* The right edge of the window that was announced never moves to the left. *)
EdgeKept == [][part = "data" => Data!EdgeKept]_all
=============================================================================
