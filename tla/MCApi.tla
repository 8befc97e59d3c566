------------------------------- MODULE MCApi --------------------------------
(***************************************************************************)
(* The programming interfaces of the TCP/IP stack: the calls of the        *)
(* sequential API that wait for the tcpip thread, the select of the        *)
(* sockets, and the reading of a stream from a socket, whose state is that *)
(* of SockRecv, which this module extends. A behaviour is one of the       *)
(* scenarios below; v1 .. v7 are the state of the one it belongs to.       *)
(***************************************************************************)
EXTENDS SockRecv

VARIABLES
    part,   \* which scenario a behaviour belongs to
    v1, v2, v3, v4, v5, v6, v7   \* its state

all == <<part, vars, v1, v2, v3, v4, v5, v6, v7>>

Client == INSTANCE Netconn WITH
    n <- v1, call <- v2, dns <- v3, spent <- v4,
    Conns <- {1, 2}, Pcbs <- {1, 2}, Types <- {"TCP"}, NonBlocking <- {},
    BoxSize <- 1, Room <- 2, WriteLen <- 3, Halves <- {}, MaxNew <- 2,
    MaxCall <- 3, MaxEvent <- 2, MaxFail <- 1, MaxDns <- 0,
    Ops <- {"connect", "write", "recv", "close", "getaddr"}

Server == INSTANCE Netconn WITH
    n <- v1, call <- v2, dns <- v3, spent <- v4,
    Conns <- {1, 2, 3}, Pcbs <- {1, 2, 3}, Types <- {"TCP"},
    NonBlocking <- {}, BoxSize <- 1, Room <- 2, WriteLen <- 3, Halves <- {},
    MaxNew <- 1, MaxCall <- 4, MaxEvent <- 3, MaxFail <- 1, MaxDns <- 0,
    Ops <- {"listen", "accept", "recv", "close", "timeout"}

NonBlock == INSTANCE Netconn WITH
    n <- v1, call <- v2, dns <- v3, spent <- v4,
    Conns <- {1}, Pcbs <- {1}, Types <- {"TCP"}, NonBlocking <- {1},
    BoxSize <- 1, Room <- 3, WriteLen <- 2, Halves <- {}, MaxNew <- 1,
    MaxCall <- 4, MaxEvent <- 2, MaxFail <- 2, MaxDns <- 0,
    Ops <- {"connect", "write", "close"}

Udp == INSTANCE Netconn WITH
    n <- v1, call <- v2, dns <- v3, spent <- v4,
    Conns <- {1}, Pcbs <- {1, 2}, Types <- {"UDP"}, NonBlocking <- {},
    BoxSize <- 1, Room <- 2, WriteLen <- 3, Halves <- {}, MaxNew <- 1,
    MaxCall <- 3, MaxEvent <- 2, MaxFail <- 1, MaxDns <- 0,
    Ops <- {"bind", "send", "recv", "connect", "disconnect", "getaddr", "join", "timeout"}

\* one half of a connection is shut
Half == INSTANCE Netconn WITH
    n <- v1, call <- v2, dns <- v3, spent <- v4,
    Conns <- {1}, Pcbs <- {1}, Types <- {"TCP"}, NonBlocking <- {},
    BoxSize <- 1, Room <- 2, WriteLen <- 3, Halves <- {"RD", "WR"},
    MaxNew <- 1, MaxCall <- 4, MaxEvent <- 2, MaxFail <- 1, MaxDns <- 0,
    Ops <- {"connect", "write", "recv", "close"}

Select == INSTANCE Sockets WITH
    sk <- v1, cn <- v2, sel <- v3, ev <- v4, list <- v5, ctr <- v6,
    spent <- v7,
    Socks <- {0, 1}, Conns <- {1, 2}, Threads <- {"t1", "t2"},
    Tcpip <- "tcpip", NULL <- "null", Types <- {"UDP"}, Kinds <- {"r"},
    Timeouts <- {"none"}, BoxSize <- 1, MaxFail <- 0, MaxCall <- 3,
    MaxSelect <- 2, MaxEvent <- 2

\* every kind of select and timeout
Mixed == INSTANCE Sockets WITH
    sk <- v1, cn <- v2, sel <- v3, ev <- v4, list <- v5, ctr <- v6,
    spent <- v7,
    Socks <- {0}, Conns <- {1}, Threads <- {"t1", "t2"}, Tcpip <- "tcpip",
    NULL <- "null", Types <- {"TCP"}, Kinds <- {"r", "w", "x"},
    Timeouts <- {"none", "some", "zero"}, BoxSize <- 1, MaxFail <- 1,
    MaxCall <- 4, MaxSelect <- 1, MaxEvent <- 2

\* connections get their socket after data has arrived
Accept == INSTANCE Sockets WITH
    sk <- v1, cn <- v2, sel <- v3, ev <- v4, list <- v5, ctr <- v6,
    spent <- v7,
    Socks <- {0, 1}, Conns <- {1, 2, 3}, Threads <- {"t1", "t2"},
    Tcpip <- "tcpip", NULL <- "null", Types <- {"TCP"}, Kinds <- {"r"},
    Timeouts <- {"none"}, BoxSize <- 2, MaxFail <- 0, MaxCall <- 5,
    MaxSelect <- 0, MaxEvent <- 3

Datagram == INSTANCE SockRecv WITH
    box <- v1, net <- v2, sock <- v3, rd <- v4, spent <- v5,
    Tcp <- FALSE, Lens <- {1, 2}, Reads <- {1, 3}, Peeks <- {TRUE, FALSE},
    Donts <- {TRUE, FALSE}, BoxSize <- 2, MaxOctets <- 4, MaxReads <- 4

\* reads that leave the data in place
Peek == INSTANCE SockRecv WITH
    box <- v1, net <- v2, sock <- v3, rd <- v4, spent <- v5,
    Tcp <- TRUE, Lens <- {1, 2}, Reads <- {1, 3}, Peeks <- {TRUE, FALSE},
    Donts <- {TRUE, FALSE}, BoxSize <- 2, MaxOctets <- 4, MaxReads <- 3

MCInit ==
    /\ Init
    /\ \/ part = "recv" /\ v1 = 0 /\ v2 = 0 /\ v3 = 0 /\ v4 = 0 /\ v5 = 0 /\ v6 = 0
            /\ v7 = 0
       \/ part = "client" /\ Client!Init /\ v5 = 0 /\ v6 = 0 /\ v7 = 0
       \/ part = "server" /\ Server!Init /\ v5 = 0 /\ v6 = 0 /\ v7 = 0
       \/ part = "nonblock" /\ NonBlock!Init /\ v5 = 0 /\ v6 = 0 /\ v7 = 0
       \/ part = "udp" /\ Udp!Init /\ v5 = 0 /\ v6 = 0 /\ v7 = 0
       \/ part = "halves" /\ Half!Init /\ v5 = 0 /\ v6 = 0 /\ v7 = 0
       \/ part = "select" /\ Select!Init
       \/ part = "mixed" /\ Mixed!Init
       \/ part = "accept" /\ Accept!Init
       \/ part = "datagram" /\ Datagram!Init /\ v6 = 0 /\ v7 = 0
       \/ part = "peek" /\ Peek!Init /\ v6 = 0 /\ v7 = 0

MCNext ==
    \/ part = "recv" /\ Next /\ UNCHANGED <<part, v1, v2, v3, v4, v5, v6, v7>>
    \/ part = "client" /\ Client!Next /\ UNCHANGED <<part, vars, v5, v6, v7>>
    \/ part = "server" /\ Server!Next /\ UNCHANGED <<part, vars, v5, v6, v7>>
    \/ part = "nonblock" /\ NonBlock!Next
         /\ UNCHANGED <<part, vars, v5, v6, v7>>
    \/ part = "udp" /\ Udp!Next /\ UNCHANGED <<part, vars, v5, v6, v7>>
    \/ part = "halves" /\ Half!Next /\ UNCHANGED <<part, vars, v5, v6, v7>>
    \/ part = "select" /\ Select!Next /\ UNCHANGED <<part, vars>>
    \/ part = "mixed" /\ Mixed!Next /\ UNCHANGED <<part, vars>>
    \/ part = "accept" /\ Accept!Next /\ UNCHANGED <<part, vars>>
    \/ part = "datagram" /\ Datagram!Next /\ UNCHANGED <<part, vars, v6, v7>>
    \/ part = "peek" /\ Peek!Next /\ UNCHANGED <<part, vars, v6, v7>>

MCSpec == MCInit /\ [][MCNext]_all

(* Every call of the sequential API is answered once, also when the         *)
(* connection is reset under it or memory is short (api_msg.c); a control   *)
(* block points to the netconn that points to it, no control block or       *)
(* buffer is lost, the events count what is in the mailboxes, a write hands *)
(* over whole messages, and what is read from a socket, also without being  *)
(* taken out, comes in order.                                               *)
AnsweredOnce ==
    /\ part = "client" =>
          /\ Client!AnsweredOnce
          /\ Client!RightPcb
          /\ Client!EventsCount
          /\ Client!WriteWhole
    /\ part = "server" =>
          /\ Server!AnsweredOnce
          /\ Server!RightPcb
          /\ Server!NothingLost
          /\ Server!EventsCount
    /\ part = "nonblock" => NonBlock!AnsweredOnce /\ NonBlock!WriteWhole
    /\ part = "udp" =>
          /\ Udp!AnsweredOnce
          /\ Udp!NothingLost
          /\ Udp!EventsCount
          /\ Udp!TypeOK
    /\ part = "halves" => Half!AnsweredOnce /\ Half!EventsCount
    /\ part = "datagram" => Datagram!ReadsExact
    /\ part = "peek" => Peek!ReadsExact

(* A thread in select sleeps only while nothing it asks for is ready and    *)
(* not on its way (lwip_select, event_callback): an entry of select_cb_list *)
(* belongs to a select that has not returned, select_waiting counts the     *)
(* selects, rcvevent counts what was received, also before the connection   *)
(* has a socket, and a socket and its netconn name each other.              *)
NoLostWakeup ==
    /\ part = "select" =>
          /\ Select!NoLostWakeup
          /\ Select!EntryAlive
          /\ Select!WaitingCounts
    /\ part = "mixed" =>
          /\ Mixed!NoLostWakeup
          /\ Mixed!ReceivedCounted
          /\ Mixed!TypeOK
    /\ part = "accept" => Accept!ReceivedCounted /\ Accept!Paired
=============================================================================
