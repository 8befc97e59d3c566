----------------------------- MODULE MCProgress -----------------------------
(***************************************************************************)
(* What must happen in the end, under the fairness the scheduling of the   *)
(* code gives: the kernel runs the thread that is ready, a timer that is   *)
(* set expires, a line delivers what it does not lose, an application      *)
(* answers. A behaviour is one of the scenarios below, "eth" being         *)
(* EthSocket itself; v1 .. v9 are the state of the other ones.             *)
(***************************************************************************)
EXTENDS EthSocket, TLC

-----------------------------------------------------------------------------
(* A station "a" and a server "b". *)
Pair == "a" :> "b" @@ "b" :> "a"
Of(x, y) == "a" :> x @@ "b" :> y

(* Options of the link: the station as lcp_init sets it up; a server that     *)
(* wants to authenticate its peer, has a character escaped and does not       *)
(* compress addresses.                                                        *)
Options(neg, mru, chars) ==
    [neg |-> neg, mru |-> mru, asyncmap |-> chars, magic |-> 0, numloops |-> 0]
LcpWant == Of(Options({"mru", "asyncmap", "magic", "pcomp", "accomp"}, 4, {}),
              Options({"mru", "asyncmap", "chap", "upap", "magic", "pcomp"}, 3, {"xon"}))
LcpAllow == Of(Options({"mru", "asyncmap", "upap", "magic", "pcomp", "accomp"}, 5, {}),
               Options({"mru", "asyncmap", "magic", "pcomp"}, 5, {"xoff"}))

(* The first magic numbers of the two ends are equal, later ones sometimes. *)
MagicPair(e, n) == IF e = "a" THEN n ELSE 2 * n - 1

(* Options of the addresses: a station that wants compression and name        *)
(* servers; a server that knows both addresses.                               *)
Vj(slots, c) == [proto |-> "vj", old |-> FALSE, slots |-> slots, cflag |-> c]
Plain == [neg_addr |-> TRUE, old_addrs |-> FALSE, req_addr |-> FALSE, our |-> 0, his |-> 0,
          accept_local |-> FALSE, accept_remote |-> FALSE, neg_vj |-> FALSE, vj |-> Vj(3, FALSE),
          dns |-> <<0, 0>>, req_dns |-> {}]
IpWant == Of([Plain EXCEPT !.neg_vj = TRUE, !.vj = Vj(3, TRUE)], [Plain EXCEPT !.our = 1, !.his = 2])
IpAllow == Of([Plain EXCEPT !.neg_vj = TRUE, !.vj = Vj(3, TRUE)],
              [Plain EXCEPT !.neg_vj = TRUE, !.vj = Vj(1, FALSE), !.dns = <<9, 0>>])

(* Addresses of the DHCP server. *)
Two(v) == {10 * v + 1, 10 * v + 2}

(* Requests to the agent that wait for an external object. *)
Var(x) == [name |-> x, id |-> TRUE, val |-> FALSE, good |-> TRUE]
Val(x) == [name |-> x, id |-> TRUE, val |-> TRUE, good |-> TRUE]
FewRequests == {[rt |-> "get", vbs |-> <<Var(2)>>], [rt |-> "next", vbs |-> <<Var(1), Var(3)>>],
                [rt |-> "set", vbs |-> <<Val(1), Val(2)>>]}

-----------------------------------------------------------------------------

VARIABLES
    part,   \* which scenario a behaviour belongs to
    v1, v2, v3, v4, v5, v6, v7, v8, v9, v10   \* its state

all == <<part, vars, v1, v2, v3, v4, v5, v6, v7, v8, v9, v10>>

Wifi == INSTANCE Wifly WITH
    op <- v1, script <- v2, phase <- v3, cmd_mode <- v4, module <- v5,
    tries <- v6, joins <- v7, wireless_open <- v8, leaked <- v9, lost <- v10,
    MAX_TRY <- 3, MAX_TRY_JOIN <- 3, MaxLost <- 4

Supplies == INSTANCE Power WITH
    todo <- v1, at <- v2, dac <- v3, pins <- v4, power_indicator <- v5,
    restarts <- v6,
    Panics <- FALSE, MaxRestarts <- 2

Turns == INSTANCE RtxKernel WITH
    k <- v1, left <- v2, grid <- v3, taken <- v4, issued <- v5,
    Tasks <- {"a", "b", "c"}, Prio <- [t \in {"a", "b", "c"} |-> 1],
    Ops <- {"delay", "pass"}, Flags <- {}, Mutexes <- {}, MaxTimeout <- 2,
    Tout <- 2, TimeWrap <- 5, BoxSize <- 1, MaxMsgs <- 0, QueueSize <- 2

Lcp == INSTANCE PppLcp WITH
    link <- v1, line <- v2, spent <- v3,
    Ends <- {"a", "b"}, PeerOf <- Pair, Want <- LcpWant, Allow <- LcpAllow,
    HasSecret <- {"b"}, AuthRequired <- {}, MaxConf <- 4, MaxTerm <- 2,
    MaxNakLoops <- 2, LoopbackFail <- 3, EchoInterval <- 0, EchoFails <- 1,
    MagicOf <- MagicPair, Foreign <- {}, MaxStart <- 2, MaxStop <- 0,
    MaxHup <- 0, MaxLose <- 2, MaxFire <- 0, MaxForeign <- 0, MaxLine <- 3

Auth == INSTANCE PppAuth WITH
    unit <- v1, line <- v2, spent <- v3,
    Ends <- {"a", "b"}, PeerOf <- Pair, Demands <- Of("upap", "chap"),
    Secret <- Of("key", "key"), MaxTransmits <- 2, ReqTimeout <- TRUE,
    ChalInterval <- FALSE, MaxConnect <- FALSE, MaxOpen <- 2, MaxClose <- 0,
    MaxLose <- 2, MaxFire <- 1, MaxAgain <- 0, MaxNp <- 0

Ipcp == INSTANCE PppIpcp WITH
    unit <- v1, line <- v2, spent <- v3,
    Ends <- {"a", "b"}, PeerOf <- Pair, Want <- IpWant, Allow <- IpAllow,
    UsePeerDns <- {"a"}, MaxConf <- 3, MaxTerm <- 2, MaxNakLoops <- 3,
    Foreign <- {}, MaxUp <- 2, MaxDown <- 0, MaxLose <- 1, MaxFire <- 0,
    MaxForeign <- 0

Client == INSTANCE Dhcp WITH
    cli <- v1, clock <- v2, tosrv <- v3, tocli <- v4, late <- v5, lease <- v6,
    taken <- v7, told <- v8, spent <- v9,
    Servers <- {1}, Pool <- Two, Leases <- {240}, GivesT2 <- TRUE,
    NamesItself <- TRUE, Coarse <- 60, U16 <- 8, Infinite <- 1000,
    MaxTime <- 0, MaxLose <- 1, MaxDelay <- 0, MaxConflict <- 1,
    MaxNoMem <- 1, MaxChange <- 0, MaxRelease <- 0, MaxStop <- 0,
    MaxTake <- 0, Step <- 30, Xids <- 8

Agent == INSTANCE SnmpAgent WITH
    g <- v1, dst <- v2, spent <- v3,
    Slots <- {0, 1}, Objects <- {1, 2, 3, 4}, External <- {2, 4},
    Writable <- {1, 2}, Unreadable <- {4}, Empty <- {3}, Hot <- {4},
    Requests <- FewRequests, NumVarbinds <- 4, NumValues <- 8,
    TrapDsts <- {1}, Buffers <- {"ok", "small", "none"}, MaxReq <- 3,
    MaxBad <- 0, MaxHot <- 0

Arp == INSTANCE Etharp WITH
    a <- v1, ours <- v2, told <- v3, dst <- v4, spent <- v5,
    TableSize <- 1, MaxAge <- 3, MaxPending <- 2, Queueing <- FALSE,
    QueueSize <- 2, Static <- FALSE, TrustIpMac <- FALSE, Hosts <- {1, 2},
    Own <- 7, Gateway <- 2, Remote <- {9}, Broadcast <- 255, Multicast <- {5},
    Macs <- {11}, MaxOut <- 3, MaxIn <- 1, MaxFail <- 1, MaxStatic <- 0,
    MaxAddr <- 0

Conn == INSTANCE Netconn WITH
    n <- v1, call <- v2, dns <- v3, spent <- v4,
    Conns <- {1}, Pcbs <- {1}, Types <- {"TCP"}, NonBlocking <- {},
    BoxSize <- 1, Room <- 2, WriteLen <- 3, Halves <- {},
    Ops <- {"connect", "write", "close"}, MaxNew <- 2, MaxCall <- 4,
    MaxEvent <- 2, MaxFail <- 1, MaxDns <- 0

\* a netconn that does not block
Again == INSTANCE Netconn WITH
    n <- v1, call <- v2, dns <- v3, spent <- v4,
    Conns <- {1}, Pcbs <- {1}, Types <- {"TCP"}, NonBlocking <- {1},
    BoxSize <- 1, Room <- 2, WriteLen <- 2, Halves <- {},
    Ops <- {"connect", "write"}, MaxNew <- 1, MaxCall <- 4, MaxEvent <- 1,
    MaxFail <- 0, MaxDns <- 1

Sel == INSTANCE Sockets WITH
    sk <- v1, cn <- v2, sel <- v3, ev <- v4, list <- v5, ctr <- v6,
    spent <- v7,
    Socks <- {0}, Conns <- {1}, Threads <- {"a", "b"}, Tcpip <- "tcpip",
    NULL <- "null", Types <- {"UDP"}, Kinds <- {"r"}, Timeouts <- {"none"},
    BoxSize <- 1, MaxCall <- 2, MaxSelect <- 2, MaxEvent <- 2, MaxFail <- 0

MCInit ==
    /\ Init
    /\ \/ part = "eth" /\ v1 = 0 /\ v2 = 0 /\ v3 = 0 /\ v4 = 0 /\ v5 = 0 /\ v6 = 0
            /\ v7 = 0 /\ v8 = 0 /\ v9 = 0 /\ v10 = 0
       \/ part = "wifly" /\ Wifi!Init
       \/ part = "power" /\ Supplies!Init /\ v7 = 0 /\ v8 = 0 /\ v9 = 0
            /\ v10 = 0
       \/ part = "turns" /\ Turns!Init /\ v6 = 0 /\ v7 = 0 /\ v8 = 0 /\ v9 = 0
            /\ v10 = 0
       \/ part = "lcp" /\ Lcp!Init /\ v4 = 0 /\ v5 = 0 /\ v6 = 0 /\ v7 = 0
            /\ v8 = 0 /\ v9 = 0 /\ v10 = 0
       \/ part = "auth" /\ Auth!Init /\ v4 = 0 /\ v5 = 0 /\ v6 = 0 /\ v7 = 0
            /\ v8 = 0 /\ v9 = 0 /\ v10 = 0
       \/ part = "ipcp" /\ Ipcp!Init /\ v4 = 0 /\ v5 = 0 /\ v6 = 0 /\ v7 = 0
            /\ v8 = 0 /\ v9 = 0 /\ v10 = 0
       \/ part = "dhcp" /\ Client!Init /\ v10 = 0
       \/ part = "snmp" /\ Agent!Init /\ v4 = 0 /\ v5 = 0 /\ v6 = 0 /\ v7 = 0
            /\ v8 = 0 /\ v9 = 0 /\ v10 = 0
       \/ part = "arp" /\ Arp!Init /\ v6 = 0 /\ v7 = 0 /\ v8 = 0 /\ v9 = 0
            /\ v10 = 0
       \/ part = "netconn" /\ Conn!Init /\ v5 = 0 /\ v6 = 0 /\ v7 = 0
            /\ v8 = 0 /\ v9 = 0 /\ v10 = 0
       \/ part = "writable" /\ Again!Init /\ v5 = 0 /\ v6 = 0 /\ v7 = 0
            /\ v8 = 0 /\ v9 = 0 /\ v10 = 0
       \/ part = "select" /\ Sel!Init /\ v8 = 0 /\ v9 = 0 /\ v10 = 0

MCNext ==
    \/ part = "eth" /\ Next
         /\ UNCHANGED <<part, v1, v2, v3, v4, v5, v6, v7, v8, v9, v10>>
    \/ part = "wifly" /\ Wifi!Next /\ UNCHANGED <<part, vars>>
    \/ part = "power" /\ Supplies!Next
         /\ UNCHANGED <<part, vars, v7, v8, v9, v10>>
    \/ part = "turns" /\ Turns!Next
         /\ UNCHANGED <<part, vars, v6, v7, v8, v9, v10>>
    \/ part = "lcp" /\ Lcp!Next
         /\ UNCHANGED <<part, vars, v4, v5, v6, v7, v8, v9, v10>>
    \/ part = "auth" /\ Auth!Next
         /\ UNCHANGED <<part, vars, v4, v5, v6, v7, v8, v9, v10>>
    \/ part = "ipcp" /\ Ipcp!Next
         /\ UNCHANGED <<part, vars, v4, v5, v6, v7, v8, v9, v10>>
    \/ part = "dhcp" /\ Client!Next /\ UNCHANGED <<part, vars, v10>>
    \/ part = "snmp" /\ Agent!Next
         /\ UNCHANGED <<part, vars, v4, v5, v6, v7, v8, v9, v10>>
    \/ part = "arp" /\ Arp!Next
         /\ UNCHANGED <<part, vars, v6, v7, v8, v9, v10>>
    \/ part = "netconn" /\ Conn!Next
         /\ UNCHANGED <<part, vars, v5, v6, v7, v8, v9, v10>>
    \/ part = "writable" /\ Again!Next
         /\ UNCHANGED <<part, vars, v5, v6, v7, v8, v9, v10>>
    \/ part = "select" /\ Sel!Next /\ UNCHANGED <<part, vars, v8, v9, v10>>

-----------------------------------------------------------------------------
(* What a scenario leaves alone. *)
V == <<v1, v2, v3, v4, v5, v6, v7, v8, v9, v10>>
After10 == vars
After9 == <<After10, v10>>
After7 == <<After9, v8, v9>>
After6 == <<After7, v7>>
After5 == <<After6, v6>>
After4 == <<After5, v5>>
After3 == <<After4, v4>>
In(p, rest) == part = p /\ UNCHANGED <<part, rest>>

(* Fairness.  The first thread or timer of every scenario goes on: main       *)
(* brings the network up, main runs a power sequence (the DACs acknowledge in *)
(* the end), the tcpip thread takes its messages, the timer of the ARP table  *)
(* comes.                                                                     *)
MainStep ==
    \/ In("eth", V) /\ (\/ EthernetInterface_init \/ tcpip_init_done \/ init_netif
                        \/ EthernetInterface_connect \/ LinkUp \/ LinkTimeout
                        \/ init_socket \/ lwip_connect \/ GiveUp)
    \/ In("wifly", After10) /\ Wifi!Next
    \/ In("power", After6) /\ (Supplies!power_chan("main") \/ Supplies!Off("main"))
    \/ In("dhcp", After9) /\ Client!Start
    \/ In("arp", After5) /\ Arp!Tmr
    \/ In("netconn", After4) /\ Conn!tcpip_thread(TRUE, TRUE)
    \/ In("writable", After4) /\ Again!tcpip_thread(TRUE, TRUE)
    \/ In("select", After7) /\ Sel!Callback("tcpip")

(* What comes from a timer or from outside: the timers of the DHCP client and *)
(* the answers of its server, the events of a TCP connection and its timer.   *)
ClockStep ==
    \/ In("dhcp", After9) /\ Client!Tick(TRUE)
    \/ In("netconn", After4) /\ Conn!LateEvent
    \/ In("writable", After4) /\ Again!LateEvent
ServerStep ==
    \/ In("dhcp", After9) /\ Client!ServersHear(240)
    \/ In("netconn", After4) /\ Conn!Connected(1)
    \/ In("writable", After4) /\ Again!Connected(1)
AnswerStep ==
    \/ In("dhcp", After9) /\ \E m \in v4 : Client!Receive(m)
    \/ In("netconn", After4) /\ Conn!Acked(1, TRUE)
    \/ In("writable", After4) /\ Again!Acked(1, TRUE)
PollStep ==
    \/ In("netconn", After4) /\ Conn!Poll(1, TRUE)
    \/ In("writable", After4) /\ Again!Poll(1, TRUE)
ReturnStep ==
    \/ In("netconn", After4) /\ Conn!Return(1)
    \/ In("writable", After4) /\ Again!Return(1)
DnsStep ==
    In("writable", After4) /\ (Again!do_gethostbyname(TRUE) \/ Again!do_dns_found \/ Again!DnsReturn)

(* One of two ends, callers, requests or threads goes on. *)
EndStep(e) ==
    \/ In("eth", V) /\ LET t == Of("send", "recv")[e] IN Timeout(t) \/ Full(t) \/ Return(t)
    \/ In("auth", After3) /\ Auth!Receive(e)
    \/ In("snmp", After3) /\ \E buf \in {"ok", "small", "none"} : Agent!ExtAnswer(Of(0, 1)[e], buf)
    \/ In("select", After7) /\ Sel!Callback(e)
ThreadStep(e) ==
    \/ In("auth", After3) /\ Auth!LcpTimeout(e)
    \/ In("select", After7) /\ (\/ Sel!lwip_selscan(e) \/ Sel!Enlist(e) \/ Sel!Count(e, "inc", 1)
                                \/ Sel!Counted(e) \/ Sel!Scan2Done(e) \/ Sel!SelectWoken(e)
                                \/ Sel!Count(e, "dec", -1) \/ Sel!Delist(e) \/ Sel!SelectReturn(e)
                                \/ (v3[e].found # {} /\ Sel!SelectAtOnce(e)))

(* The timers of the authentication protocols of one end. *)
AuthTimers(e) ==
    /\ WF_all(In("auth", After3) /\ Auth!PapTimeout(e))
    /\ WF_all(In("auth", After3) /\ Auth!PapReqTimeout(e))
    /\ WF_all(In("auth", After3) /\ Auth!ChallengeTimeout(e))
    /\ WF_all(In("auth", After3) /\ Auth!ResponseTimeout(e))

(* A packet on the line of a negotiation arrives unless it is lost, and the   *)
(* tick timer of the kernel is periodic.                                      *)
Coming(e) == \/ part \in {"lcp", "ipcp"} /\ v2[e] # <<>>
             \/ part = "turns"
Comes(e) == \/ In("lcp", After3) /\ Lcp!Receive(e)
            \/ In("ipcp", After3) /\ Ipcp!Receive(e)
            \/ part = "turns" /\ v1'.time # v1.time

(* A negotiation timer that stays set expires.  It expires while the line is  *)
(* empty only, so weak fairness of the expiry would not say so.               *)
TimerSet(e) == part \in {"lcp", "ipcp"} /\ v1[e].timer
Expires(e) == \/ In("lcp", After3) /\ Lcp!Timeout(e)
              \/ In("ipcp", After3) /\ Ipcp!Timeout(e)

MCFairness ==
    /\ WF_all(MainStep) /\ WF_all(ClockStep) /\ WF_all(ServerStep) /\ WF_all(AnswerStep)
    /\ WF_all(PollStep) /\ WF_all(ReturnStep) /\ WF_all(DnsStep)
    /\ \A e \in {"a", "b"} :
          /\ WF_all(EndStep(e)) /\ WF_all(ThreadStep(e)) /\ AuthTimers(e)
          /\ []<>(~Coming(e)) \/ []<><<Comes(e)>>_all
          /\ []<>(~TimerSet(e)) \/ []<><<Expires(e)>>_all

MCSpec == MCInit /\ [][MCNext]_all /\ MCFairness


-----------------------------------------------------------------------------
(* Everyone who waits is served in the end:                                   *)
(*  - a call of the socket layer, of the sequential API or of the resolver    *)
(*    returns, and a select once something it asks for stays ready;           *)
(*  - a netconn that was reported as not writable becomes writable again;     *)
(*  - a request for an external object gives its slot back, and a packet does *)
(*    not wait for ever for a host that does not answer;                      *)
(*  - a power_down that no restart cuts short ends with every supply at zero, *)
(*    however often the DAC refuses a write;                                  *)
(*  - a task that is ready runs: equal tasks take turns (rt_chk_robin).       *)
EveryoneServed ==
    /\ \A t \in Callers : []<>~(part = "eth" /\ pc[t] = "loop")
    /\ []<>~(\/ part \in {"netconn", "writable"} /\ v2[1].at = "wait"
             \/ part = "writable" /\ v3 # "idle")
    /\ []<>~(part = "writable" /\ ~v1.c[1].snd)
    /\ \A t \in {"a", "b"} : []<>~(part = "select" /\ Sel!Oversleeps(t))
    /\ \A r \in {0, 1} : []<>~(part = "snmp" /\ v1.slot[r].state # "EMPTY")
    /\ []<>~(part = "arp" /\ v1.tab[1].q # <<>>)
    /\ []<>(part = "power" => \/ v2["main"] \notin {"id_down", "load_down", "serve_down", "off"}
                              \/ v2["main"] = "off" /\ \A r \in DOMAIN v3 : v3[r] = 0)
    /\ \A t \in {"a", "b", "c"} : []<>~(part = "turns" /\ v1.state[t] = "READY")

(* Two ends that are open, with more requests left to send than the line can  *)
(* still lose; two ends that are up.                                          *)
MayComeUp ==
    \/ part = "lcp" /\ \A e \in {"a", "b"} : v1[e].open /\ v1[e].retransmits > 2
    \/ part = "ipcp" /\ \A e \in {"a", "b"} : v1[e].link /\ v1[e].retransmits > 1
BothUp ==
    \/ part = "lcp" /\ \A e \in {"a", "b"} : v1[e].up
    \/ part = "ipcp" /\ \A e \in {"a", "b"} : v1[e].iface.up

(* The network comes up in the end:                                           *)
(*  - main reaches the end of init_ethernet whatever the link and the server  *)
(*    do, and of init_wifi however often the module does not answer;          *)
(*  - two ends of a line that may come up do so and stay up, whatever they    *)
(*    have to talk each other out of (fsm.c, lcp_nakci, lcp_rejci,            *)
(*    ipcp_nakci); authentication ends, whatever is lost;                     *)
(*  - a DHCP client that is started gets an address, although messages are    *)
(*    lost, an address is refused and buffers are missing.                    *)
ComesUp ==
    /\ <>(\/ part = "eth" /\ pc["main"] = "done"
          \/ part = "wifly" /\ v1 = "over"
          \/ part \notin {"eth", "wifly"})
    /\ MayComeUp ~> []BothUp
    /\ \A e \in {"a", "b"} : []<>~(part = "auth" /\ v1[e].phase = "AUTHENTICATE")
    /\ (part = "dhcp" /\ v1.pcb) ~> (part = "dhcp" /\ v1.state = "BOUND")
=============================================================================
