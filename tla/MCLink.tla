------------------------------- MODULE MCLink -------------------------------
(***************************************************************************)
(* What brings an interface up and keeps its addresses: link control,      *)
(* authentication and address negotiation of PPP, and the DHCP client. The *)
(* scenarios are those below and one of PppAuth, which this module         *)
(* extends, where the station does not know the secret; v1 .. v9 are the   *)
(* state of the scenario a behaviour belongs to otherwise.                 *)
(***************************************************************************)
EXTENDS PppAuth, TLC

-----------------------------------------------------------------------------
(* A station "a" and a server "b". *)
Pair == "a" :> "b" @@ "b" :> "a"
Wants(a, b) == "a" :> a @@ "b" :> b

(* A station that does not know the secret, of which the server demands CHAP. *)
WrongDemands == Wants("upap", "chap")
WrongSecret == Wants("guess", "key")

(* Options of the link: the station as lcp_init sets it up; a server that     *)
(* wants to authenticate its peer, has a character escaped and does not       *)
(* compress addresses.                                                        *)
Options(neg, mru, chars) ==
    [neg |-> neg, mru |-> mru, asyncmap |-> chars, magic |-> 0, numloops |-> 0]
DEFMRU == 4
LcpWant == Wants(Options({"mru", "asyncmap", "magic", "pcomp", "accomp"}, DEFMRU, {}),
                 Options({"mru", "asyncmap", "chap", "upap", "magic", "pcomp"}, 3, {"xon"}))
LcpAllow == Wants(Options({"mru", "asyncmap", "upap", "magic", "pcomp", "accomp"}, 5, {}),
                  Options({"mru", "asyncmap", "magic", "pcomp"}, 5, {"xoff"}))

(* The first magic numbers of the two ends are equal, later ones sometimes. *)
MagicPair(e, n) == IF e = "a" THEN n ELSE 2 * n - 1

(* Packets of a different program. *)
P(c, b) == [code |-> c, body |-> b]
LcpPackets ==
    {P("CONFREQ", <<>>), P("CONFREQ", "junk" :> 0), P("CONFREQ", "mru" :> 0),
     P("CONFREQ", "auth" :> "other"), P("CONFACK", <<>>), P("CONFNAK", "mru" :> 2),
     P("CONFNAK", "magic" :> 1), P("CONFREJ", "asyncmap" :> {}), P("TERMREQ", "none"),
     P("TERMACK", "none"), P("CODEREJ", "none"), P("PROTREJ", "lcp"), P("ECHOREQ", 0),
     P("ECHOREP", 0), P("RESETREQ", "none")}

(* Options of the addresses: a station that wants compression and name        *)
(* servers; a server that knows both addresses, wants no compression and      *)
(* allows two slots without compressed ids; two ends without any address.     *)
Vj(slots, c) == [proto |-> "vj", old |-> FALSE, slots |-> slots, cflag |-> c]
VjOld == [proto |-> "vjold", old |-> TRUE, slots |-> 0, cflag |-> FALSE]
Plain == [neg_addr |-> TRUE, old_addrs |-> FALSE, req_addr |-> FALSE, our |-> 0, his |-> 0,
          accept_local |-> FALSE, accept_remote |-> FALSE, neg_vj |-> FALSE, vj |-> Vj(3, FALSE),
          dns |-> <<0, 0>>, req_dns |-> {}]
IpWant == Wants([Plain EXCEPT !.neg_vj = TRUE, !.vj = Vj(3, TRUE)],
                [Plain EXCEPT !.our = 1, !.his = 2])
IpAllow == Wants([Plain EXCEPT !.neg_vj = TRUE, !.vj = Vj(3, TRUE)],
                 [Plain EXCEPT !.neg_vj = TRUE, !.vj = Vj(1, FALSE), !.dns = <<9, 0>>])
NoAddress == Wants(Plain, Plain)
AnyAddress == [e \in {"a", "b"} |-> [Plain EXCEPT !.vj = Vj(3, TRUE)]]
IpPackets ==
    {P("CONFREQ", "addr" :> 7), P("CONFREQ", "addrs" :> <<7, 8>>), P("CONFACK", "own"),
     P("CONFREQ", "vj" :> VjOld @@ "addr" :> 7), P("CONFNAK", "addr" :> 5),
     P("CONFREJ", "addr" :> 0), P("TERMREQ", "none"), P("PROTREJ", "ipcp"),
     P("CONFNAK", "vj" :> VjOld)}

(* Addresses of the DHCP servers. *)
One(v) == {10 * v + 1}
Two(v) == {10 * v + 1, 10 * v + 2}

-----------------------------------------------------------------------------

VARIABLES
    part,   \* which scenario a behaviour belongs to
    v1, v2, v3, v4, v5, v6, v7, v8, v9   \* its state

all == <<part, vars, v1, v2, v3, v4, v5, v6, v7, v8, v9>>

Lcp == INSTANCE PppLcp WITH
    link <- v1, line <- v2, spent <- v3,
    Ends <- {"a", "b"}, PeerOf <- Pair, Want <- LcpWant, Allow <- LcpAllow,
    HasSecret <- {"b"}, AuthRequired <- {}, MaxConf <- 3, MaxTerm <- 2,
    MaxNakLoops <- 2, LoopbackFail <- 3, EchoInterval <- 0, EchoFails <- 1,
    MagicOf <- MagicPair, Foreign <- {}, MaxStart <- 3, MaxStop <- 1,
    MaxHup <- 0, MaxLose <- 1, MaxFire <- 1, MaxForeign <- 0, MaxLine <- 3

\* the line is looped back
Loop == INSTANCE PppLcp WITH
    link <- v1, line <- v2, spent <- v3,
    Ends <- {"a"}, PeerOf <- "a" :> "a", Want <- LcpWant, Allow <- LcpAllow,
    HasSecret <- {"b"}, AuthRequired <- {}, MaxConf <- 3, MaxTerm <- 2,
    MaxNakLoops <- 2, LoopbackFail <- 3, EchoInterval <- 0, EchoFails <- 1,
    MagicOf <- MagicPair, Foreign <- {}, MaxStart <- 2, MaxStop <- 0,
    MaxHup <- 0, MaxLose <- 1, MaxFire <- 3, MaxForeign <- 0, MaxLine <- 3

\* the peer is a different program
LcpAny == INSTANCE PppLcp WITH
    link <- v1, line <- v2, spent <- v3,
    Ends <- {"a"}, PeerOf <- "a" :> "none", Want <- LcpWant,
    Allow <- LcpAllow, HasSecret <- {"b"}, AuthRequired <- {}, MaxConf <- 3,
    MaxTerm <- 2, MaxNakLoops <- 2, LoopbackFail <- 3, EchoInterval <- 1,
    EchoFails <- 1, MagicOf <- MagicPair, Foreign <- LcpPackets,
    MaxStart <- 2, MaxStop <- 1, MaxHup <- 1, MaxLose <- 1, MaxFire <- 1,
    MaxForeign <- 4, MaxLine <- 3

Chap == INSTANCE PppAuth WITH
    unit <- v1, line <- v2, spent <- v3,
    Ends <- {"a", "b"}, PeerOf <- Pair, Secret <- Wants("key", "key"),
    MaxTransmits <- 2, ReqTimeout <- TRUE, ChalInterval <- TRUE,
    MaxConnect <- FALSE, MaxOpen <- 2, MaxClose <- 1, MaxLose <- 1,
    MaxFire <- 1, MaxAgain <- 1, MaxNp <- 0, Demands <- Wants("none", "chap")

Pap == INSTANCE PppAuth WITH
    unit <- v1, line <- v2, spent <- v3,
    Ends <- {"a", "b"}, PeerOf <- Pair, Secret <- Wants("key", "key"),
    MaxTransmits <- 2, ReqTimeout <- TRUE, ChalInterval <- FALSE,
    MaxConnect <- TRUE, MaxOpen <- 2, MaxClose <- 1, MaxLose <- 1,
    MaxFire <- 1, MaxAgain <- 0, MaxNp <- 2, Demands <- Wants("none", "upap")

Ipcp == INSTANCE PppIpcp WITH
    unit <- v1, line <- v2, spent <- v3,
    Ends <- {"a", "b"}, PeerOf <- Pair, Want <- IpWant, Allow <- IpAllow,
    UsePeerDns <- {"a"}, MaxConf <- 3, MaxTerm <- 2, MaxNakLoops <- 3,
    Foreign <- {}, MaxUp <- 4, MaxDown <- 1, MaxLose <- 1, MaxFire <- 0,
    MaxForeign <- 0

\* the peer is a different program
IpcpAny == INSTANCE PppIpcp WITH
    unit <- v1, line <- v2, spent <- v3,
    Ends <- {"a"}, PeerOf <- "a" :> "nobody", Want <- IpWant,
    Allow <- IpAllow, UsePeerDns <- {"a"}, MaxConf <- 3, MaxTerm <- 2,
    MaxNakLoops <- 3, Foreign <- IpPackets, MaxUp <- 2, MaxDown <- 1,
    MaxLose <- 1, MaxFire <- 0, MaxForeign <- 4

\* neither end has an address
IpcpNone == INSTANCE PppIpcp WITH
    unit <- v1, line <- v2, spent <- v3,
    Ends <- {"a", "b"}, PeerOf <- Pair, Want <- NoAddress,
    Allow <- AnyAddress, UsePeerDns <- {"a"}, MaxConf <- 3, MaxTerm <- 2,
    MaxNakLoops <- 3, Foreign <- {}, MaxUp <- 2, MaxDown <- 0, MaxLose <- 1,
    MaxFire <- 0, MaxForeign <- 0

Lease == INSTANCE Dhcp WITH
    cli <- v1, clock <- v2, tosrv <- v3, tocli <- v4, late <- v5, lease <- v6,
    taken <- v7, told <- v8, spent <- v9,
    Servers <- {1}, Pool <- One, Leases <- {240, 100000}, GivesT2 <- TRUE,
    NamesItself <- TRUE, Coarse <- 60, U16 <- 65536, Infinite <- 100000,
    MaxTime <- 5, MaxLose <- 20, MaxDelay <- 0, MaxConflict <- 0,
    MaxNoMem <- 0, MaxChange <- 0, MaxRelease <- 0, MaxStop <- 0,
    MaxTake <- 1, Step <- 30, Xids <- 1000000

\* late answers, conflicts, another network
TwoServers == INSTANCE Dhcp WITH
    cli <- v1, clock <- v2, tosrv <- v3, tocli <- v4, late <- v5, lease <- v6,
    taken <- v7, told <- v8, spent <- v9,
    Servers <- {1, 2}, Pool <- One, Leases <- {240}, GivesT2 <- TRUE,
    NamesItself <- TRUE, Coarse <- 60, U16 <- 65536, Infinite <- 100000,
    MaxTime <- 2, MaxLose <- 0, MaxDelay <- 1, MaxConflict <- 1,
    MaxNoMem <- 0, MaxChange <- 1, MaxRelease <- 1, MaxStop <- 0,
    MaxTake <- 0, Step <- 15, Xids <- 1000000

MCInit ==
    /\ Init
    /\ \/ part = "wrong" /\ v1 = 0 /\ v2 = 0 /\ v3 = 0 /\ v4 = 0 /\ v5 = 0 /\ v6 = 0
            /\ v7 = 0 /\ v8 = 0 /\ v9 = 0
       \/ part = "lcp" /\ Lcp!Init /\ v4 = 0 /\ v5 = 0 /\ v6 = 0 /\ v7 = 0
            /\ v8 = 0 /\ v9 = 0
       \/ part = "loop" /\ Loop!Init /\ v4 = 0 /\ v5 = 0 /\ v6 = 0 /\ v7 = 0
            /\ v8 = 0 /\ v9 = 0
       \/ part = "lcp_any" /\ LcpAny!Init /\ v4 = 0 /\ v5 = 0 /\ v6 = 0
            /\ v7 = 0 /\ v8 = 0 /\ v9 = 0
       \/ part = "chap" /\ Chap!Init /\ v4 = 0 /\ v5 = 0 /\ v6 = 0 /\ v7 = 0
            /\ v8 = 0 /\ v9 = 0
       \/ part = "pap" /\ Pap!Init /\ v4 = 0 /\ v5 = 0 /\ v6 = 0 /\ v7 = 0
            /\ v8 = 0 /\ v9 = 0
       \/ part = "ipcp" /\ Ipcp!Init /\ v4 = 0 /\ v5 = 0 /\ v6 = 0 /\ v7 = 0
            /\ v8 = 0 /\ v9 = 0
       \/ part = "ipcp_any" /\ IpcpAny!Init /\ v4 = 0 /\ v5 = 0 /\ v6 = 0
            /\ v7 = 0 /\ v8 = 0 /\ v9 = 0
       \/ part = "ipcp_none" /\ IpcpNone!Init /\ v4 = 0 /\ v5 = 0 /\ v6 = 0
            /\ v7 = 0 /\ v8 = 0 /\ v9 = 0
       \/ part = "dhcp" /\ Lease!Init
       \/ part = "dhcp_two" /\ TwoServers!Init

MCNext ==
    \/ part = "wrong" /\ Next
         /\ UNCHANGED <<part, v1, v2, v3, v4, v5, v6, v7, v8, v9>>
    \/ part = "lcp" /\ Lcp!Next
         /\ UNCHANGED <<part, vars, v4, v5, v6, v7, v8, v9>>
    \/ part = "loop" /\ Loop!Next
         /\ UNCHANGED <<part, vars, v4, v5, v6, v7, v8, v9>>
    \/ part = "lcp_any" /\ LcpAny!Next
         /\ UNCHANGED <<part, vars, v4, v5, v6, v7, v8, v9>>
    \/ part = "chap" /\ Chap!Next
         /\ UNCHANGED <<part, vars, v4, v5, v6, v7, v8, v9>>
    \/ part = "pap" /\ Pap!Next
         /\ UNCHANGED <<part, vars, v4, v5, v6, v7, v8, v9>>
    \/ part = "ipcp" /\ Ipcp!Next
         /\ UNCHANGED <<part, vars, v4, v5, v6, v7, v8, v9>>
    \/ part = "ipcp_any" /\ IpcpAny!Next
         /\ UNCHANGED <<part, vars, v4, v5, v6, v7, v8, v9>>
    \/ part = "ipcp_none" /\ IpcpNone!Next
         /\ UNCHANGED <<part, vars, v4, v5, v6, v7, v8, v9>>
    \/ part = "dhcp" /\ Lease!Next /\ UNCHANGED <<part, vars>>
    \/ part = "dhcp_two" /\ TwoServers!Next /\ UNCHANGED <<part, vars>>

MCSpec == MCInit /\ [][MCNext]_all

(* Two ends that are up agree: each sends frames as the other one reads     *)
(* them and configures the addresses the other one knows it by (lcp_up,     *)
(* ipcp_up). An end does not come up against its own echo, is up only in    *)
(* state OPENED, an interface is up exactly while its protocol is and it    *)
(* has an address, an end that negotiates has its timer set, a peer with    *)
(* the right secret is not refused for a late response to an earlier        *)
(* challenge (ChapReceiveResponse), and a link that is down has forgotten   *)
(* its network protocols (link_down).                                       *)
EndsAgree ==
    /\ part = "lcp" => Lcp!FramesAlike /\ Lcp!TypeOK
    /\ part = "loop" => Loop!LoopNeverUp
    /\ part = "lcp_any" => LcpAny!UpOnlyOpened /\ LcpAny!WaitsWithTimer
    /\ part = "ipcp" => Ipcp!EndsAgree /\ Ipcp!TypeOK
    /\ part = "ipcp_any" => IpcpAny!InterfaceServed /\ IpcpAny!WaitsWithTimer
    /\ part = "ipcp_none" => IpcpNone!InterfaceServed
    /\ part = "chap" => Chap!WaitsWithTimer /\ Chap!NeverRefused
    /\ part = "pap" => Pap!DownIsZero /\ Pap!TypeOK

(* The address of the interface is one a server has leased to this client   *)
(* and the lease has not run out, with lost and late messages, two servers  *)
(* and failed renewals (dhcp_recv, dhcp_t2_timeout); a client that waits    *)
(* for a message has its timer set.                                         *)
LeaseHeld ==
    /\ part = "dhcp" => Lease!LeaseHeld /\ Lease!WaitsWithTimer /\ Lease!TypeOK
    /\ part = "dhcp_two" => TwoServers!LeaseHeld
=============================================================================
