------------------------------- MODULE MCSnmp -------------------------------
(***************************************************************************)
(* The SNMP agent and the ARP table, whose entries it lists: the index     *)
(* trees of the tables and the walk over them, the handling of a request,  *)
(* the encoding of messages and the objects of MIB-II. The scenarios are   *)
(* those below and one of Etharp, which this module extends, where three   *)
(* hosts share a table of two entries; v1 .. v9 are the state of the       *)
(* scenario a behaviour belongs to otherwise.                              *)
(***************************************************************************)
EXTENDS Etharp

-----------------------------------------------------------------------------
(* Messages with values on both sides of every limit of the encodings. *)
INTEG == 2
OC_STR == 4
NUL == 5
OBJ_ID == 6
IPADDR == 64
COUNTER == 65
TIMETICKS == 67
Edges == {0, 127, 128, 255, 256, 32767, 32768, 65535, 8388607, 8388608, 16777215,
          16777216, 2147483647}
Signed == Edges \cup {-1 - v : v \in Edges}
Ids == {<<1, 3, 6, 1>>, <<0, 39>>, <<1, 0, 127>>, <<2, 5, 128>>, <<1, 3, 16383, 16384>>,
        <<1, 3, 2097151, 2097152>>, <<1, 3, 268435455, 268435456>>, <<1, 3, 2147483647, 1>>, <<>>}
Octets(n) == [i \in 1 .. n |-> i % 256]
Values ==
    {[type |-> t, val |-> v] : t \in {INTEG, COUNTER, TIMETICKS}, v \in Signed}
    \cup {[type |-> OC_STR, val |-> Octets(n)] : n \in {0, 1, 90, 91, 127, 128}}
    \cup {[type |-> IPADDR, val |-> Octets(4)], [type |-> NUL, val |-> <<>>]}
    \cup {[type |-> OBJ_ID, val |-> i] : i \in Ids \ {<<>>}}
Vb(i, v) == [id |-> i, type |-> v.type, val |-> v.val]
Null == [type |-> NUL, val |-> <<>>]
Community == <<112, 117>>
Message(rid, status, eidx, vbs) ==
    [community |-> Community, rid |-> rid, status |-> status, eidx |-> eidx, vbs |-> vbs]
Name == <<1, 3, 6, 200>>
Responses ==
    {Message(1, 0, 0, <<Vb(Name, v)>>) : v \in Values}
    \cup {Message(1, 0, 0, <<Vb(i, Null), Vb(Name, [type |-> INTEG, val |-> -129])>>) : i \in Ids}
    \cup {Message(r, 0, 0, <<>>) : r \in Signed}
    \cup {Message(1, 2, 128, <<Vb(Name, Null)>>)}
    \cup {Message(1, 0, 0, <<Vb(Name, [type |-> OC_STR, val |-> Octets(127)]), Vb(Name, [type |-> OC_STR, val |-> Octets(127)])>>)}
AllTraps ==
    {[eid |-> <<1, 3, 6, 26381>>, addr |-> Octets(4), gen |-> g, spc |-> s, ts |-> t] :
        g \in {0, 6}, s \in {0, 200, 40000}, t \in {0, 128, -1}}

(* Requests for one or two of four objects, 9 being none of them. *)
Var(n) == [name |-> n, id |-> TRUE, val |-> FALSE, good |-> TRUE]
Val(n, ok) == [name |-> n, id |-> TRUE, val |-> TRUE, good |-> ok]
Asked == {1, 2, 3, 9}
Reads ==
    {[rt |-> t, vbs |-> <<Var(x)>>] : t \in {"get", "next"}, x \in Asked}
    \cup {[rt |-> t, vbs |-> <<Var(x), Var(y)>>] : t \in {"get", "next"}, x \in Asked, y \in Asked}
Writes ==
    {[rt |-> "set", vbs |-> <<Val(x, ok)>>] : x \in Asked, ok \in BOOLEAN}
    \cup {[rt |-> "set", vbs |-> <<Val(x, TRUE), Val(y, ok)>>] : x \in Asked, y \in Asked, ok \in BOOLEAN}
AllRequests == Reads \cup Writes \cup {[rt |-> "get", vbs |-> <<>>]}
FewRequests ==
    {[rt |-> "get", vbs |-> <<Var(2)>>], [rt |-> "next", vbs |-> <<Var(1), Var(3)>>],
     [rt |-> "set", vbs |-> <<Val(1, TRUE), Val(2, TRUE)>>]}

(* Interfaces of the object tables. *)
Nic(name, mac, net) ==
    [name |-> name, mac |-> mac, ip |-> net + 1, net |-> net, mask |-> 99, gw |-> net + 2,
     mtu |-> 1500, speed |-> 100]
Wired == Nic(<<"e", "n">>, "mac1", 10)
Wireless == Nic(<<"w", "l">>, "mac2", 20)

-----------------------------------------------------------------------------

VARIABLES
    part,   \* which scenario a behaviour belongs to
    v1, v2, v3, v4, v5, v6, v7, v8, v9   \* its state

all == <<part, vars, v1, v2, v3, v4, v5, v6, v7, v8, v9>>

\* the options of the ARP table that are off in this build
ArpQueue == INSTANCE Etharp WITH
    a <- v1, ours <- v2, told <- v3, dst <- v4, spent <- v5,
    TableSize <- 2, MaxAge <- 2, MaxPending <- 2, Queueing <- TRUE,
    QueueSize <- 2, Static <- TRUE, TrustIpMac <- TRUE, Hosts <- {1, 2, 3},
    Own <- 7, Gateway <- 0, Remote <- {9}, Broadcast <- 255, Multicast <- {5},
    Macs <- {11}, MaxOut <- 2, MaxIn <- 1, MaxFail <- 1, MaxStatic <- 1,
    MaxAddr <- 1

Rows == INSTANCE SnmpIndex WITH
    mib <- v1, list <- v2, nif <- v3, dflt <- v4, arp <- v5, udp_pcbs <- v6,
    tcps <- v7, calls <- v8,
    Masks <- {3}, Hosts <- {<<10, 0, 0, 5>>, <<10, 0, 0, 7>>}, Ports <- {7},
    MaxNodes <- 50, MaxRoots <- 30, Rebinds <- FALSE, ExtIds <- <<>>,
    Netifs <- {1}, Addrs <- {<<10, 0, 0, 1>>, <<10, 0, 9, 1>>},
    Pcbs <- {1, 2}, MaxCalls <- 5, Removes <- FALSE

\* an external subtree, and interfaces that go
Walk == INSTANCE SnmpIndex WITH
    mib <- v1, list <- v2, nif <- v3, dflt <- v4, arp <- v5, udp_pcbs <- v6,
    tcps <- v7, calls <- v8,
    Masks <- {3}, Hosts <- {<<10, 0, 0, 5>>, <<10, 0, 0, 7>>}, Ports <- {7},
    MaxNodes <- 50, MaxRoots <- 30, Rebinds <- FALSE,
    ExtIds <- <<<<2, 3>>, <<1, 5>>>>, Netifs <- {1, 2},
    Addrs <- {<<10, 0, 0, 1>>}, Pcbs <- {1}, MaxCalls <- 3, Removes <- TRUE

Request == INSTANCE SnmpAgent WITH
    g <- v1, dst <- v2, spent <- v3,
    Objects <- {1, 2, 3, 4}, External <- {2, 4}, Writable <- {1, 2},
    Unreadable <- {4}, Empty <- {3}, NumValues <- 8, TrapDsts <- {1},
    Slots <- {0}, Hot <- {}, Requests <- AllRequests, NumVarbinds <- 3,
    Buffers <- {"ok", "small", "none"}, MaxReq <- 2, MaxBad <- 1, MaxHot <- 0

\* two requests at once, and an object that comes and goes
TwoSlots == INSTANCE SnmpAgent WITH
    g <- v1, dst <- v2, spent <- v3,
    Objects <- {1, 2, 3, 4}, External <- {2, 4}, Writable <- {1, 2},
    Unreadable <- {4}, Empty <- {3}, NumValues <- 8, TrapDsts <- {1},
    Slots <- {0, 1}, Hot <- {2}, Requests <- FewRequests, NumVarbinds <- 4,
    Buffers <- {"ok"}, MaxReq <- 3, MaxBad <- 0, MaxHot <- 2

Asn1 == INSTANCE SnmpAsn1 WITH
    at <- v1, kind <- v2, spoilt <- v3, lost <- v4, msg <- v5, chain <- v6,
    tot <- v7, ofs <- v8, got <- v9,
    ObjIdLen <- 32, CommunityLen <- 64, Public <- Community,
    Messages <- Responses, Traps <- AllTraps,
    Cuts <- {<<5, 7>>, <<200, 100>>}, ReCuts <- {<<3, 5>>, <<300, 1>>},
    Losses <- {1, 2, 9}

Set == INSTANCE SnmpObjects WITH
    s <- v1, set <- v2, spent <- v3,
    Wrap <- 4, Start <- 3, Safe <- TRUE,
    Texts <- {<<>>, <<"x">>, <<"x", "y">>}, TextSize <- 2, DefaultTTL <- 255,
    ReassMaxAge <- 3, NumTcpPcb <- 2, SysServices <- 72,
    Interfaces <- <<Wired>>, Peers <- {12}, Ports <- {161},
    TcpStates <- {"ESTABLISHED"}, MaxInc <- 0, MaxSet <- 1, MaxStep <- 1

\* rows come and go
Steps == INSTANCE SnmpObjects WITH
    s <- v1, set <- v2, spent <- v3,
    Wrap <- 4, Start <- 3, Safe <- TRUE,
    Texts <- {<<>>, <<"x">>, <<"x", "y">>}, TextSize <- 2, DefaultTTL <- 255,
    ReassMaxAge <- 3, NumTcpPcb <- 2, SysServices <- 72,
    Interfaces <- <<Wired>>, Peers <- {12}, Ports <- {161, 162},
    TcpStates <- {"SYN_SENT", "ESTABLISHED"}, MaxInc <- 0, MaxSet <- 0,
    MaxStep <- 3

Count == INSTANCE SnmpObjects WITH
    s <- v1, set <- v2, spent <- v3,
    Wrap <- 4, Start <- 3, Safe <- TRUE,
    Texts <- {<<>>, <<"x">>, <<"x", "y">>}, TextSize <- 2, DefaultTTL <- 255,
    ReassMaxAge <- 3, NumTcpPcb <- 2, SysServices <- 72,
    Interfaces <- <<Wired, Wireless>>, Peers <- {12, 13}, Ports <- {161},
    TcpStates <- {"CLOSED", "SYN_SENT", "ESTABLISHED", "CLOSE_WAIT"},
    MaxInc <- 1, MaxSet <- 0, MaxStep <- 0

MCInit ==
    /\ Init
    /\ \/ part = "arp" /\ v1 = 0 /\ v2 = 0 /\ v3 = 0 /\ v4 = 0 /\ v5 = 0 /\ v6 = 0
            /\ v7 = 0 /\ v8 = 0 /\ v9 = 0
       \/ part = "arp_queue" /\ ArpQueue!Init /\ v6 = 0 /\ v7 = 0 /\ v8 = 0
            /\ v9 = 0
       \/ part = "rows" /\ Rows!Init /\ v9 = 0
       \/ part = "walk" /\ Walk!Init /\ v9 = 0
       \/ part = "request" /\ Request!Init /\ v4 = 0 /\ v5 = 0 /\ v6 = 0
            /\ v7 = 0 /\ v8 = 0 /\ v9 = 0
       \/ part = "slots" /\ TwoSlots!Init /\ v4 = 0 /\ v5 = 0 /\ v6 = 0
            /\ v7 = 0 /\ v8 = 0 /\ v9 = 0
       \/ part = "octets" /\ Asn1!Init
       \/ part = "set" /\ Set!Init /\ v4 = 0 /\ v5 = 0 /\ v6 = 0 /\ v7 = 0
            /\ v8 = 0 /\ v9 = 0
       \/ part = "steps" /\ Steps!Init /\ v4 = 0 /\ v5 = 0 /\ v6 = 0 /\ v7 = 0
            /\ v8 = 0 /\ v9 = 0
       \/ part = "count" /\ Count!Init /\ v4 = 0 /\ v5 = 0 /\ v6 = 0 /\ v7 = 0
            /\ v8 = 0 /\ v9 = 0

MCNext ==
    \/ part = "arp" /\ Next
         /\ UNCHANGED <<part, v1, v2, v3, v4, v5, v6, v7, v8, v9>>
    \/ part = "arp_queue" /\ ArpQueue!Next
         /\ UNCHANGED <<part, vars, v6, v7, v8, v9>>
    \/ part = "rows" /\ Rows!Next /\ UNCHANGED <<part, vars, v9>>
    \/ part = "walk" /\ Walk!Next /\ UNCHANGED <<part, vars, v9>>
    \/ part = "request" /\ Request!Next
         /\ UNCHANGED <<part, vars, v4, v5, v6, v7, v8, v9>>
    \/ part = "slots" /\ TwoSlots!Next
         /\ UNCHANGED <<part, vars, v4, v5, v6, v7, v8, v9>>
    \/ part = "octets" /\ Asn1!Next /\ UNCHANGED <<part, vars>>
    \/ part = "set" /\ Set!Next
         /\ UNCHANGED <<part, vars, v4, v5, v6, v7, v8, v9>>
    \/ part = "steps" /\ Steps!Next
         /\ UNCHANGED <<part, vars, v4, v5, v6, v7, v8, v9>>
    \/ part = "count" /\ Count!Next
         /\ UNCHANGED <<part, vars, v4, v5, v6, v7, v8, v9>>

MCSpec == MCInit /\ [][MCNext]_all

(* The index tables have a row for exactly the interfaces, addresses, hosts *)
(* and connections there are, while they come and go (an address or a       *)
(* binding that is changed in place is left out), no node of the tree leaks *)
(* (snmp_delete_arpidx_tree and the like), and an interface announces       *)
(* itself once (netif_set_up, netif_set_link_up). With queues of packets,   *)
(* static entries and learning from IP frames, which are off in this build, *)
(* the entries of the ARP table are right, too (etharp_query).              *)
RowsMatch ==
    /\ part = "rows" => Rows!RowsMatch /\ Rows!PoolsMatch /\ Rows!AnnouncedOnce
    /\ part = "walk" => Walk!PoolsMatch
    /\ part = "arp_queue" => ArpQueue!OneEntryPerAddress

(* Get-next visits every instance of the tree once and in the order of the  *)
(* names, from any name, present or not, over empty tables and an external  *)
(* subtree (snmp_expand_tree).                                              *)
WalksInOrder ==
    /\ part = "walk" => Walk!WalksInOrder /\ Walk!NextOfAnyName

(* A request is whole: a set writes nothing before everything was tested,   *)
(* then all of its objects, or those in front of the one that genErr names  *)
(* because it went away in between; a failure names the first variable that *)
(* failed, every binding and name is in one list or free, every packet is   *)
(* counted once (snmp_msg_event); a value that is read was written by this  *)
(* call, and an object that was set reads back (mib2.c).                    *)
RequestsWhole ==
    /\ part = "request" =>
          /\ Request!AllOrNothing
          /\ Request!FailureNamed
          /\ Request!MemoryBalanced
          /\ Request!PacketsCounted
    /\ part = "slots" =>
          /\ TwoSlots!AllOrNothing
          /\ TwoSlots!FailureNamed
          /\ TwoSlots!MemoryBalanced
    /\ part = "set" => Set!ValueWritten /\ Set!SetReadsBack
    /\ part = "steps" => Steps!ValueWritten
    /\ part = "count" => Count!ValueWritten /\ Count!TypeOK

(* What the agent sends can be read: every length announced is the number   *)
(* of octets that follow, every value decodes to the value that was         *)
(* encoded, over any cut of the message into buffers, and a message without *)
(* its end is refused (asn1_enc.c, asn1_dec.c).                             *)
ResponseReadable ==
    /\ part = "octets" =>
          /\ Asn1!ResponseReadable
          /\ Asn1!LengthsAnnounced
          /\ Asn1!RoundTrip
          /\ Asn1!RefusedAs
=============================================================================
