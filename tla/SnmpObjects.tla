----------------------------- MODULE SnmpObjects ----------------------------
(***************************************************************************)
(* The objects of MIB-II (lwip/core/snmp/mib2.c): for each group which     *)
(* objects there are, their access and type (.._get_object_def), their     *)
(* values (.._get_value), what may be set (.._set_test) and what a set     *)
(* does (.._set_value), over the counters the stack increments and the     *)
(* state of interfaces, ARP table and control blocks.  The names of rows   *)
(* and the search for them are in SnmpTree and SnmpIndex, requests in      *)
(* SnmpAgent.                                                              *)
(*                                                                         *)
(* s is the state the values come from:                                    *)
(*   up        sysuptime, a u32_t;  cnt  the counters, u32_t               *)
(*   text      sysDescr, sysContact, sysName, sysLocation: the buffer, how *)
(*             many octets of it are used, and whether the application     *)
(*             supplied it;  traps  snmpEnableAuthenTraps, likewise        *)
(*   ifs       netif_list;  arp, udp, tcp  entries and control blocks      *)
(* set is the last set request: the object, the value and whether it was   *)
(* accepted.  Counters begin at Start, where earlier traffic left them.    *)
(***************************************************************************)
EXTENDS Integers, Sequences, FiniteSets, FiniteSetsExt, SequencesExt

CONSTANTS Wrap, Start,       \* 2^32; the counters at the beginning
          Safe,              \* SNMP_SAFE_REQUESTS
          Texts,             \* octet strings of at most TextSize octets
          TextSize,          \* octets of a buffer of the application
          Interfaces,        \* netif_list: [name, mac, ip, mask, gw, mtu, speed]
          Peers, Ports, TcpStates,
          DefaultTTL, ReassMaxAge, NumTcpPcb, SysServices, \* IP_DEFAULT_TTL, IP_REASS_MAXAGE, MEMP_NUM_TCP_PCB, SNMP_SYSSERVICES
          MaxInc, MaxSet, MaxStep  \* bounds: increments, sets, other changes

VARIABLES s, set, spent
vars == <<s, set, spent>>

-----------------------------------------------------------------------------
(* Object definitions: access, type, octets of the value. *)

NONE == [access |-> "none"]
Def(access, type, n) == [access |-> access, type |-> type, len |-> n]
RO(type, n) == Def("ro", type, n)
RW(type, n) == Def("rw", type, n)

noleafs_get_object_def(id) == NONE
system_get_object_def(id) ==
  CASE id = 1 -> RO("OC_STR", s.text[1].len)
    [] id = 2 -> RO("OBJ_ID", 4 * s.objid)
    [] id = 3 -> RO("TIMETICKS", 4)
    [] id \in 4 .. 6 -> RW("OC_STR", s.text[id].len)
    [] id = 7 -> RO("INTEG", 4)
    [] OTHER -> NONE
interfaces_get_object_def(id) == RO("INTEG", 4)
ifentry_get_object_def(id) ==
  CASE id \in {1, 3, 4, 8} -> RO("INTEG", 4)
    [] id = 2 -> RO("OC_STR", 2)
    [] id \in {5, 21} -> RO("GAUGE", 4)
    [] id = 6 -> RO("OC_STR", 6)
    [] id = 7 -> RW("INTEG", 4)
    [] id = 9 -> RO("TIMETICKS", 4)
    [] id \in 10 .. 20 -> RO("COUNTER", 4)
    [] id = 22 -> RO("OBJ_ID", 8)
    [] OTHER -> NONE
atentry_get_object_def(id) ==
  CASE id = 1 -> RW("INTEG", 4) [] id = 2 -> RW("OC_STR", 6) [] id = 3 -> RW("IPADDR", 4) [] OTHER -> NONE
ip_get_object_def(id) ==
  CASE id \in {1, 2} -> RW("INTEG", 4)
    [] id \in (3 .. 12) \cup (14 .. 19) \cup {23} -> RO("COUNTER", 4)
    [] id = 13 -> RO("INTEG", 4)
    [] OTHER -> NONE
ip_addrentry_get_object_def(id) ==
  CASE id \in {1, 3} -> RO("IPADDR", 4) [] id \in {2, 4, 5} -> RO("INTEG", 4) [] OTHER -> NONE
ip_rteentry_get_object_def(id) ==
  CASE id \in {1, 7, 11} -> RW("IPADDR", 4)
    [] id \in {2, 3, 4, 5, 6, 8, 10, 12} -> RW("INTEG", 4)
    [] id = 9 -> RO("INTEG", 4)
    [] id = 13 -> RO("OBJ_ID", 8)
    [] OTHER -> NONE
ip_ntomentry_get_object_def(id) ==
  CASE id \in {1, 4} -> RW("INTEG", 4) [] id = 2 -> RW("OC_STR", 6) [] id = 3 -> RW("IPADDR", 4) [] OTHER -> NONE
icmp_get_object_def(id) == IF id \in 1 .. 26 THEN RO("COUNTER", 4) ELSE NONE
tcp_get_object_def(id) ==
  CASE id \in 1 .. 4 -> RO("INTEG", 4)
    [] id \in {5, 6, 7, 8, 10, 11, 12, 14, 15} -> RO("COUNTER", 4)
    [] id = 9 -> RO("GAUGE", 4)
    [] OTHER -> NONE
udp_get_object_def(id) == IF id \in 1 .. 5 THEN RO("COUNTER", 4) ELSE NONE
udpentry_get_object_def(id) == CASE id = 1 -> RO("IPADDR", 4) [] id = 2 -> RO("INTEG", 4) [] OTHER -> NONE
snmp_get_object_def(id) ==
  CASE id \in (1 .. 6) \cup (8 .. 22) \cup (24 .. 29) -> RO("COUNTER", 4) [] id = 30 -> RW("INTEG", 4) [] OTHER -> NONE

-----------------------------------------------------------------------------
(* Values, as the kind of write and what is written; Unset is what was in the memory before. *)

Unset == [kind |-> "unset", val |-> 0, len |-> 0]
Sint(v) == [kind |-> "s32", val |-> v, len |-> 4]
Uint(v) == [kind |-> "u32", val |-> v, len |-> 4]
Str(v) == [kind |-> "octets", val |-> v, len |-> Len(v)]
Addr(v) == [kind |-> "addr", val |-> v, len |-> 4]
Mac(v) == [kind |-> "octets", val |-> v, len |-> 6]
Oid(n) == [kind |-> "ids", val |-> n, len |-> 4 * n]
Counter(c) == Uint(s.cnt[c])
IsAny(ip) == ip = 0

IpCounters == [id \in (3 .. 12) \cup (14 .. 19) \cup {23} |->
  CASE id = 3 -> "ipinreceives" [] id = 4 -> "ipinhdrerrors" [] id = 5 -> "ipinaddrerrors" [] id = 6 -> "ipforwdatagrams"
    [] id = 7 -> "ipinunknownprotos" [] id = 8 -> "ipindiscards" [] id = 9 -> "ipindelivers" [] id = 10 -> "ipoutrequests"
    [] id = 11 -> "ipoutdiscards" [] id = 12 -> "ipoutnoroutes" [] id = 14 -> "ipreasmreqds" [] id = 15 -> "ipreasmoks"
    [] id = 16 -> "ipreasmfails" [] id = 17 -> "ipfragoks" [] id = 18 -> "ipfragfails" [] id = 19 -> "ipfragcreates"
    [] OTHER -> "iproutingdiscards"]
IcmpCounters ==
  <<"icmpinmsgs", "icmpinerrors", "icmpindestunreachs", "icmpintimeexcds", "icmpinparmprobs", "icmpinsrcquenchs",
    "icmpinredirects", "icmpinechos", "icmpinechoreps", "icmpintimestamps", "icmpintimestampreps", "icmpinaddrmasks",
    "icmpinaddrmaskreps", "icmpoutmsgs", "icmpouterrors", "icmpoutdestunreachs", "icmpouttimeexcds", "icmpoutparmprobs",
    "icmpoutsrcquenchs", "icmpoutredirects", "icmpoutechos", "icmpoutechoreps", "icmpouttimestamps", "icmpouttimestampreps",
    "icmpoutaddrmasks", "icmpoutaddrmaskreps">>
TcpCounters == [id \in (5 .. 8) \cup {10, 11, 12, 14, 15} |->
  CASE id = 5 -> "tcpactiveopens" [] id = 6 -> "tcppassiveopens" [] id = 7 -> "tcpattemptfails" [] id = 8 -> "tcpestabresets"
    [] id = 10 -> "tcpinsegs" [] id = 11 -> "tcpoutsegs" [] id = 12 -> "tcpretranssegs" [] id = 14 -> "tcpinerrs"
    [] OTHER -> "tcpoutrsts"]
UdpCounters == <<"udpindatagrams", "udpnoports", "udpinerrors", "udpoutdatagrams">>
SnmpCounters == [id \in (1 .. 6) \cup (8 .. 22) \cup (24 .. 29) |->
  CASE id = 1 -> "snmpinpkts" [] id = 2 -> "snmpoutpkts" [] id = 3 -> "snmpinbadversions" [] id = 4 -> "snmpinbadcommunitynames"
    [] id = 5 -> "snmpinbadcommunityuses" [] id = 6 -> "snmpinasnparseerrs" [] id = 8 -> "snmpintoobigs"
    [] id = 9 -> "snmpinnosuchnames" [] id = 10 -> "snmpinbadvalues" [] id = 11 -> "snmpinreadonlys" [] id = 12 -> "snmpingenerrs"
    [] id = 13 -> "snmpintotalreqvars" [] id = 14 -> "snmpintotalsetvars" [] id = 15 -> "snmpingetrequests"
    [] id = 16 -> "snmpingetnexts" [] id = 17 -> "snmpinsetrequests" [] id = 18 -> "snmpingetresponses" [] id = 19 -> "snmpintraps"
    [] id = 20 -> "snmpouttoobigs" [] id = 21 -> "snmpoutnosuchnames" [] id = 22 -> "snmpoutbadvalues" [] id = 24 -> "snmpoutgenerrs"
    [] id = 25 -> "snmpoutgetrequests" [] id = 26 -> "snmpoutgetnexts" [] id = 27 -> "snmpoutsetrequests"
    [] id = 28 -> "snmpoutgetresponses" [] OTHER -> "snmpouttraps"]
IfCounters == [id \in (10 .. 13) \cup (16 .. 19) |->
  CASE id = 10 -> "ifinoctets" [] id = 11 -> "ifinucastpkts" [] id = 12 -> "ifinnucastpkts" [] id = 13 -> "ifindiscards"
    [] id = 16 -> "ifoutoctets" [] id = 17 -> "ifoutucastpkts" [] id = 18 -> "ifoutnucastpkts" [] OTHER -> "ifoutdiscards"]

noleafs_get_value(id) == Unset
Used(t) == SubSeq(t.buf, 1, t.len)
system_get_value(id) ==
  CASE id \in {1, 4, 5, 6} -> Str(Used(s.text[id])) [] id = 2 -> Oid(s.objid) [] id = 3 -> Uint(s.up) [] id = 7 -> Sint(SysServices)
interfaces_get_value(id) == IF id = 1 THEN Sint(Len(s.ifs)) ELSE Unset
Status(n) == IF n.up THEN 1 ELSE 2
ifentry_get_value(id, row) ==
  LET n == s.ifs[row]
  IN CASE id = 1 -> Sint(row) [] id = 2 -> Str(n.name) [] id = 3 -> Sint(6) [] id = 4 -> Sint(n.mtu) [] id = 5 -> Uint(n.speed)
       [] id = 6 -> Mac(n.mac)
       [] id = 7 -> Sint(IF n.up /\ ~ n.link THEN 7 ELSE Status(n))
       [] id = 8 -> Sint(Status(n))
       [] id = 9 -> Uint(n.ts)
       [] id \in DOMAIN IfCounters -> Uint(n.cnt[IfCounters[id]])
       [] id \in {14, 15, 20, 21} -> Uint(0)
       [] id = 22 -> Oid(2)
(* A row of the ARP table: the interface and the address. *)
ArpValue(id, row) == CASE id = 1 -> Sint(row[1]) [] id = 2 -> Mac(s.arp[row]) [] id = 3 -> Addr(row[2]) [] OTHER -> Unset
atentry_get_value(id, row) == IF row \in DOMAIN s.arp THEN ArpValue(id, row) ELSE Unset
ip_get_value(id) ==
  CASE id = 1 -> Sint(2) [] id = 2 -> Sint(DefaultTTL) [] id = 13 -> Sint(ReassMaxAge) [] id \in DOMAIN IpCounters -> Counter(IpCounters[id])
IfWithAddr(ip) == {i \in DOMAIN s.ifs : s.ifs[i].ip = ip}
ip_addrentry_get_value(id, row) ==
  IF IfWithAddr(row) = {} THEN Unset
  ELSE LET i == Min(IfWithAddr(row))
       IN CASE id = 1 -> Addr(s.ifs[i].ip) [] id = 2 -> Sint(i) [] id = 3 -> Addr(s.ifs[i].mask) [] id = 4 -> Sint(1) [] id = 5 -> Sint(0)
(* Networks are numbered: the network of an interface is its mask field. *)
IfOfRoute(row) == IF IsAny(row) THEN (IF s.ifs = <<>> THEN {} ELSE {1}) ELSE {i \in DOMAIN s.ifs : s.ifs[i].net = row}
ip_rteentry_get_value(id, row) ==
  IF IfOfRoute(row) = {} THEN Unset
  ELSE LET i == Min(IfOfRoute(row))  n == s.ifs[i]
       IN CASE id = 1 -> Addr(row) [] id = 2 -> Sint(i)
            [] id = 3 -> Sint(IF IsAny(row) THEN 1 ELSE 0)
            [] id \in {4, 5, 6, 12} -> Sint(-1)
            [] id = 7 -> Addr(IF IsAny(row) THEN n.gw ELSE n.ip)
            [] id = 8 -> Sint(IF IsAny(row) THEN 4 ELSE 3)
            [] id = 9 -> Sint(2) [] id = 10 -> Sint(0)
            [] id = 11 -> Addr(IF IsAny(row) THEN 0 ELSE n.mask)
            [] id = 13 -> Oid(2)
ip_ntomentry_get_value(id, row) ==
  IF row \notin DOMAIN s.arp THEN Unset ELSE IF id = 4 THEN Sint(3) ELSE ArpValue(id, row)
icmp_get_value(id) == Counter(IcmpCounters[id])
tcp_get_value(id) ==
  CASE id = 1 -> Sint(4) [] id = 2 -> Sint(1000) [] id = 3 -> Sint(60000) [] id = 4 -> Sint(NumTcpPcb)
    [] id = 9 -> Uint(Cardinality({i \in DOMAIN s.tcp : s.tcp[i] \in {"ESTABLISHED", "CLOSE_WAIT"}}))
    [] id \in DOMAIN TcpCounters -> Counter(TcpCounters[id])
udp_get_value(id) == IF id \in 1 .. 4 THEN Counter(UdpCounters[id]) ELSE Unset
udpentry_get_value(id, row) ==
  IF row \notin Range(s.udp) THEN Unset ELSE CASE id = 1 -> Addr(row[1]) [] id = 2 -> Sint(row[2]) [] OTHER -> Unset
snmp_get_value(id) == IF id = 30 THEN Uint(s.traps.val) ELSE Counter(SnmpCounters[id])

-----------------------------------------------------------------------------
(* All objects: the leaves of the tree, one per row in the tables. *)

Groups == {"system", "interfaces", "ifentry", "atentry", "ip", "ip_addrentry", "ip_rteentry", "ip_ntomentry", "icmp", "tcp",
           "udp", "udpentry", "snmp"}
Leaves == [g \in Groups |->
  CASE g = "system" -> 1 .. 7 [] g = "interfaces" -> {1} [] g = "ifentry" -> 1 .. 22 [] g = "atentry" -> 1 .. 3
    [] g = "ip" -> (1 .. 19) \cup {23} [] g = "ip_addrentry" -> 1 .. 5 [] g = "ip_rteentry" -> 1 .. 13 [] g = "ip_ntomentry" -> 1 .. 4
    [] g = "icmp" -> 1 .. 26 [] g = "tcp" -> (1 .. 15) \ {13} [] g = "udp" -> 1 .. 4 [] g = "udpentry" -> {1, 2}
    [] g = "snmp" -> (1 .. 6) \cup (8 .. 22) \cup (24 .. 30)]
Rows(g) ==
  CASE g = "ifentry" -> DOMAIN s.ifs
    [] g \in {"atentry", "ip_ntomentry"} -> DOMAIN s.arp
    [] g = "ip_addrentry" -> {s.ifs[i].ip : i \in DOMAIN s.ifs}
    [] g = "ip_rteentry" -> {s.ifs[i].net : i \in DOMAIN s.ifs} \cup {0}
    [] g = "udpentry" -> Range(s.udp)
    [] OTHER -> {0}
Objects == UNION {{<<g, id, row>> : id \in Leaves[g], row \in Rows(g)} : g \in Groups}
ObjectDef(g, id) ==
  CASE g = "system" -> system_get_object_def(id) [] g = "interfaces" -> interfaces_get_object_def(id)
    [] g = "ifentry" -> ifentry_get_object_def(id) [] g = "atentry" -> atentry_get_object_def(id) [] g = "ip" -> ip_get_object_def(id)
    [] g = "ip_addrentry" -> ip_addrentry_get_object_def(id) [] g = "ip_rteentry" -> ip_rteentry_get_object_def(id)
    [] g = "ip_ntomentry" -> ip_ntomentry_get_object_def(id) [] g = "icmp" -> icmp_get_object_def(id)
    [] g = "tcp" -> tcp_get_object_def(id) [] g = "udp" -> udp_get_object_def(id) [] g = "udpentry" -> udpentry_get_object_def(id)
    [] g = "snmp" -> snmp_get_object_def(id)
Value(g, id, row) ==
  CASE g = "system" -> system_get_value(id) [] g = "interfaces" -> interfaces_get_value(id)
    [] g = "ifentry" -> ifentry_get_value(id, row) [] g = "atentry" -> atentry_get_value(id, row) [] g = "ip" -> ip_get_value(id)
    [] g = "ip_addrentry" -> ip_addrentry_get_value(id, row) [] g = "ip_rteentry" -> ip_rteentry_get_value(id, row)
    [] g = "ip_ntomentry" -> ip_ntomentry_get_value(id, row) [] g = "icmp" -> icmp_get_value(id)
    [] g = "tcp" -> tcp_get_value(id) [] g = "udp" -> udp_get_value(id) [] g = "udpentry" -> udpentry_get_value(id, row)
    [] g = "snmp" -> snmp_get_value(id)

-----------------------------------------------------------------------------
(* Setting: the test and the change. *)

noleafs_set_test(id, v) == FALSE
noleafs_set_value(t, id, v) == t
system_set_test(id, v) == id \in 4 .. 6 /\ s.text[id].own /\ Len(v) <= 255
ocstrncpy(dst, src, n) == [i \in DOMAIN dst |-> IF i <= n THEN src[i] ELSE dst[i]]
system_set_value(t, id, v) == [t EXCEPT !.text[id].buf = ocstrncpy(@, v, Len(v)), !.text[id].len = Len(v)]
netif_set_up(t, i) == IF t.ifs[i].up THEN t ELSE [t EXCEPT !.ifs[i].up = TRUE, !.ifs[i].ts = t.up]
netif_set_down(t, i) == IF ~ t.ifs[i].up THEN t ELSE [t EXCEPT !.ifs[i].up = FALSE, !.ifs[i].ts = t.up]
ifentry_set_test(id, v) == id = 7 /\ v \in {1, 2}
ifentry_set_value(t, row, v) == IF v = 1 THEN netif_set_up(t, row) ELSE netif_set_down(t, row)
ip_set_test(id, v) == (id = 1 /\ v = 2) \/ (id = 2 /\ v = DefaultTTL)
snmp_set_test(id, v) == id = 30 /\ IF s.traps.own THEN v \in {1, 2} ELSE v = 2
snmp_set_value(t, id, v) == IF id = 30 THEN [t EXCEPT !.traps.val = v % 256] ELSE t
SetTest(o, v) ==
  CASE o[1] = "system" -> system_set_test(o[2], v) [] o[1] = "ifentry" -> ~ Safe /\ ifentry_set_test(o[2], v)
    [] o[1] = "ip" -> ip_set_test(o[2], v) [] o[1] = "snmp" -> snmp_set_test(o[2], v) [] OTHER -> noleafs_set_test(o[2], v)
SetValue(o, v) ==
  CASE o[1] = "system" -> system_set_value(s, o[2], v) [] o[1] = "ifentry" -> ifentry_set_value(s, o[3], v)
    [] o[1] = "snmp" -> snmp_set_value(s, o[2], v) [] OTHER -> noleafs_set_value(s, o[2], v)

-----------------------------------------------------------------------------
(* The stack counts, configures and changes. *)

Spend(what, bound) == spent[what] < bound /\ spent' = [spent EXCEPT ![what] = @ + 1]
Step(new) == s' = new /\ set' = [set EXCEPT !.done = FALSE]
Up(c, n) == [s EXCEPT !.cnt[c] = (@ + n) % Wrap]
IncIp(c) == c \in Range(IpCounters) /\ Spend("inc", MaxInc) /\ Step(Up(c, 1))
IncIcmp(c) == c \in Range(IcmpCounters) /\ Spend("inc", MaxInc) /\ Step(Up(c, 1))
IncTcp(c) == c \in Range(TcpCounters) /\ Spend("inc", MaxInc) /\ Step(Up(c, 1))
IncUdp(c) == c \in Range(UdpCounters) /\ Spend("inc", MaxInc) /\ Step(Up(c, 1))
(* The agent adds the number of variables of a request; the other counters count one by one. *)
IncSnmp(c, n) ==
  /\ c \in Range(SnmpCounters) /\ n \in (IF c \in {"snmpintotalreqvars", "snmpintotalsetvars"} THEN {1, 2} ELSE {1})
  /\ Spend("inc", MaxInc) /\ Step(Up(c, n))
IncIf(i, c, n) ==
  /\ c \in Range(IfCounters) /\ n \in (IF c \in {"ifinoctets", "ifoutoctets"} THEN {1, 3} ELSE {1})
  /\ Spend("inc", MaxInc) /\ Step([s EXCEPT !.ifs[i].cnt[c] = (@ + n) % Wrap])
snmp_inc_sysuptime == Spend("step", MaxStep) /\ Step([s EXCEPT !.up = (@ + 1) % Wrap])
snmp_add_sysuptime(n) == Spend("step", MaxStep) /\ Step([s EXCEPT !.up = (@ + n) % Wrap])
(* The application supplies a buffer, its use and its contents. *)
Supply(id, buf, n) == Spend("step", MaxStep) /\ Step([s EXCEPT !.text[id] = [buf |-> buf, len |-> n, own |-> TRUE]])
snmp_set_sysdesr(buf, n) == Supply(1, buf, n)
snmp_set_syscontact(buf, n) == Supply(4, buf, n)
snmp_set_sysname(buf, n) == Supply(5, buf, n)
snmp_set_syslocation(buf, n) == Supply(6, buf, n)
snmp_set_sysobjid(n) == Spend("step", MaxStep) /\ Step([s EXCEPT !.objid = n])
snmp_set_snmpenableauthentraps(v) == Spend("step", MaxStep) /\ Step([s EXCEPT !.traps = [val |-> v, own |-> TRUE]])
AdminUp(i) == Spend("step", MaxStep) /\ Step(netif_set_up(s, i))
AdminDown(i) == Spend("step", MaxStep) /\ Step(netif_set_down(s, i))
Link(i) == Spend("step", MaxStep) /\ Step([s EXCEPT !.ifs[i].link = ~ @])
ArpAdd(i, peer, mac) == Spend("step", MaxStep) /\ Step([s EXCEPT !.arp = (<<i, peer>> :> mac) @@ @])
ArpDel(row) == row \in DOMAIN s.arp /\ Spend("step", MaxStep) /\ Step([s EXCEPT !.arp = [r \in DOMAIN @ \ {row} |-> @[r]]])
UdpBind(ip, port) == <<ip, port>> \notin Range(s.udp) /\ Spend("step", MaxStep) /\ Step([s EXCEPT !.udp = <<<<ip, port>>>> \o @])
UdpRemove(k) == k \in DOMAIN s.udp /\ Spend("step", MaxStep) /\ Step([s EXCEPT !.udp = RemoveAt(@, k)])
TcpState(k, st) == Spend("step", MaxStep) /\ Step([s EXCEPT !.tcp[k] = st])

(* snmp_msg_set_event for one variable: the object must be writable, the   *)
(* types equal and the test positive.                                      *)
SetObject(o, type, v) ==
  /\ ObjectDef(o[1], o[2]).access = "rw" /\ Spend("set", MaxSet)
  /\ \/ /\ ObjectDef(o[1], o[2]).type = type /\ SetTest(o, v)
        /\ s' = SetValue(o, v) /\ set' = [done |-> TRUE, ok |-> TRUE, obj |-> o, val |-> v]
     \/ /\ ObjectDef(o[1], o[2]).type = type => ~ SetTest(o, v)
        /\ UNCHANGED s /\ set' = [set EXCEPT !.done = FALSE, !.ok = FALSE]

Counted(C) == [c \in C |-> Start]
ScalarCounters == Range(IpCounters) \cup Range(IcmpCounters) \cup Range(TcpCounters) \cup Range(UdpCounters) \cup Range(SnmpCounters)
Default(buf) == [buf |-> buf, len |-> Len(buf), own |-> FALSE]
Init ==
  /\ s = [up |-> 0, objid |-> 7, cnt |-> Counted(ScalarCounters), traps |-> [val |-> 2, own |-> FALSE],
          text |-> [id \in {1, 4, 5, 6} |-> Default(IF id \in {1, 5} THEN <<"default">> ELSE <<>>)],
          ifs |-> [i \in DOMAIN Interfaces |->
                     [up |-> FALSE, link |-> FALSE, ts |-> 0, cnt |-> Counted(Range(IfCounters))] @@ Interfaces[i]],
          arp |-> <<>>, udp |-> <<>>, tcp |-> [k \in 1 .. NumTcpPcb |-> "CLOSED"]]
  /\ set = [done |-> FALSE, ok |-> FALSE, obj |-> <<"system", 1, 0>>, val |-> 0]
  /\ spent = [w \in {"inc", "set", "step"} |-> 0]
Buffer == [i \in 1 .. TextSize |-> "a"]
Next ==
  \/ \E c \in ScalarCounters \cup Range(IfCounters), n \in 1 .. 3 : IncIp(c) \/ IncIcmp(c) \/ IncTcp(c) \/ IncUdp(c) \/ IncSnmp(c, n)
                                     \/ \E i \in DOMAIN s.ifs : IncIf(i, c, n)
  \/ snmp_inc_sysuptime
  \/ snmp_add_sysuptime(Wrap - 1)
  \/ \E n \in 0 .. TextSize : snmp_set_sysdesr(Buffer, n) \/ snmp_set_syscontact(Buffer, n) \/ snmp_set_sysname(Buffer, n)
                             \/ snmp_set_syslocation(Buffer, n)
  \/ snmp_set_sysobjid(1)
  \/ \E v \in {1, 2} : snmp_set_snmpenableauthentraps(v)
  \/ \E i \in DOMAIN s.ifs : AdminUp(i) \/ AdminDown(i) \/ Link(i) \/ \E p \in Peers : ArpAdd(i, p, p)
  \/ \E row \in DOMAIN s.arp : ArpDel(row)
  \/ \E ip \in Peers, port \in Ports : UdpBind(ip, port)
  \/ \E k \in DOMAIN s.udp : UdpRemove(k)
  \/ \E k \in DOMAIN s.tcp, st \in TcpStates : TcpState(k, st)
  \/ \E o \in Objects : (\E v \in Texts : SetObject(o, "OC_STR", v)) \/ (\E v \in {1, 2, 3, DefaultTTL} : SetObject(o, "INTEG", v))
Spec == Init /\ [][Next]_vars

-----------------------------------------------------------------------------
(* Properties. *)

(* Types: counters wrap at their width, and no text is longer than its buffer. *)
TypeOK ==
  /\ s.up \in 0 .. Wrap - 1 /\ \A c \in DOMAIN s.cnt : s.cnt[c] \in 0 .. Wrap - 1
  /\ s.traps.val \in {1, 2} /\ \A id \in DOMAIN s.text : s.text[id].len <= Len(s.text[id].buf)
  /\ DOMAIN spent = {"inc", "set", "step"}

KindOf(type) ==
  CASE type = "INTEG" -> {"s32", "u32"} [] type \in {"COUNTER", "GAUGE", "TIMETICKS"} -> {"u32"}
    [] type = "OC_STR" -> {"octets"} [] type = "IPADDR" -> {"addr"} [] type = "OBJ_ID" -> {"ids"}
(* Every object the tree offers has a definition, and its value is written *)
(* with the type and the length the definition announced, whatever rows    *)
(* have come and gone: the agent sends the memory of the value whether     *)
(* get_value wrote it or not.                                              *)
ValueWritten == \A o \in Objects :
  LET d == ObjectDef(o[1], o[2])  v == Value(o[1], o[2], o[3])
  IN d.access # "none" /\ v.kind \in KindOf(d.type) /\ v.len = d.len

(* An accepted set reads back: the object then has the value that was set. *)
SetReadsBack == set.done => Value(set.obj[1], set.obj[2], set.obj[3]).val = set.val
=============================================================================
