------------------------------ MODULE SnmpIndex -----------------------------
(***************************************************************************)
(* The index trees of the SNMP tables (mib2.c) and what maintains them:    *)
(* the network interfaces (netif.c), the ARP table (etharp.c) and the UDP  *)
(* bindings (udp.c).  An address is a sequence of four octets, a netmask   *)
(* the number of its leading 255s.                                         *)
(***************************************************************************)
EXTENDS SnmpTree

CONSTANTS Netifs, Addrs, Masks,  \* interfaces, their addresses and netmasks
          Hosts,                 \* addresses of other hosts, for the ARP table
          Pcbs, Ports,           \* UDP control blocks and the ports they bind to
          MaxNodes, MaxRoots,    \* sizes of the pools MEMP_SNMP_NODE and MEMP_SNMP_ROOTNODE
          MaxCalls,              \* bound: calls of the environment
          Rebinds, Removes       \* whether a control block is bound again; whether interfaces go or fail to start

VARIABLES mib,      \* the object tree
          list,     \* netif_list, the head first
          nif,      \* per interface: address, netmask, flags, announcements sent since it came up
          dflt,     \* netif_default, or 0
          arp,      \* stable ARP entries: <<interface, address>>
          udp_pcbs, \* bound control blocks: pcb -> <<address, port>>
          tcps,     \* TCP control blocks: local address -> "active" | "listen"
          calls     \* calls left

vars == <<mib, list, nif, dflt, arp, udp_pcbs, tcps, calls>>

AnyAddr == <<0, 0, 0, 0>>
Network(ip, mask) == [i \in 1 .. 4 |-> IF i <= mask THEN ip[i] ELSE 0]    \* ip_addr_get_network

-----------------------------------------------------------------------------
(* Inserting and deleting an index: the loop over its levels. *)

RECURSIVE Insert(_, _, _, _, _)
Insert(m, t, idx, l, p) ==
  IF l > Len(idx) THEN m
  ELSE LET r == snmp_mib_node_insert(m, t, p, idx[l])  q == Append(p, idx[l])
       IN CASE r.ret = -1 \/ l = Len(idx) -> Insert(r.mib, t, idx, l + 1, p)
            [] r.ret # -1 /\ l < Len(idx) /\ q \in DOMAIN r.mib.tree[t] -> Insert(r.mib, t, idx, l + 1, q)
            [] r.ret # -1 /\ l < Len(idx) /\ q \notin DOMAIN r.mib.tree[t] ->
                 IF r.mib.roots = 0 THEN r.mib ELSE Insert(snmp_mib_lrn_alloc(r.mib, t, q), t, idx, l + 1, q)

RECURSIVE Marked(_, _, _, _, _, _)        \* the list nodes that are marked for deletion
Marked(m, t, idx, l, p, del) ==
  LET fc == snmp_mib_node_find(m, t, p, idx[l])  q == Append(p, idx[l])
      here == CASE fc = 0 -> <<>> [] fc = 1 -> Append(del, [list |-> p, id |-> idx[l]]) [] fc = 2 -> <<>>
  IN IF fc = 0 \/ l = Len(idx) \/ q \notin DOMAIN m.tree[t] THEN here ELSE Marked(m, t, idx, l + 1, q, here)

RECURSIVE DeleteMarked(_, _, _)
DeleteMarked(m, t, del) ==
  IF del = <<>> THEN m
  ELSE LET n == Last(del)  q == Append(n.list, n.id)  d == snmp_mib_node_delete(m, t, n.list, n.id)
       IN DeleteMarked(IF q \in DOMAIN m.tree[t] THEN snmp_mib_lrn_free(d, t, q) ELSE d, t, Front(del))

InsertIndex(m, t, idx) == Insert(m, t, idx, 1, <<>>)
DeleteIndex(m, t, idx) == DeleteMarked(m, t, Marked(m, t, idx, 1, <<>>, <<>>))

(* enable getnext traversal on filled tables, disable it on empty ones *)
Enable(m, table) == [m EXCEPT !.len[table] = 1]
DisableIfEmpty(m, table, t) == IF m.tree[t][<<>>] = <<>> THEN [m EXCEPT !.len[table] = 0] ELSE m

-----------------------------------------------------------------------------
(* The index functions of mib2.c. *)

snmp_iptooid(ip) == ip
snmp_netiftoifindex(lst, n) == LET i == SelectInSeq(lst, LAMBDA x : x = n) IN IF i = 0 THEN Len(lst) + 1 ELSE i

snmp_inc_iflist(m) ==
  Enable(snmp_mib_node_insert(m, "iflist", <<>>, Len(m.tree["iflist"][<<>>]) + 1).mib, "iftable")
snmp_dec_iflist(m) ==
  DisableIfEmpty(snmp_mib_node_delete(m, "iflist", <<>>, Last(m.tree["iflist"][<<>>])), "iftable", "iflist")

snmp_insert_arpidx_tree(m, lst, n, ip) ==
  LET idx == <<snmp_netiftoifindex(lst, n)>> \o snmp_iptooid(ip)
  IN Enable(Enable(InsertIndex(InsertIndex(m, "arp", idx), "ipntom", idx), "at"), "ipntomtable")
(* Only the row of the first of the two tables goes. *)
snmp_delete_arpidx_tree_One(m, lst, n, ip) ==
  LET idx == <<snmp_netiftoifindex(lst, n)>> \o snmp_iptooid(ip)
  IN DisableIfEmpty(DeleteIndex(m, "arp", idx), "at", "arp")
snmp_delete_arpidx_tree(m, lst, n, ip) ==
  LET idx == <<snmp_netiftoifindex(lst, n)>> \o snmp_iptooid(ip)
  IN DisableIfEmpty(DisableIfEmpty(DeleteIndex(DeleteIndex(m, "arp", idx), "ipntom", idx), "at", "arp"),
                    "ipntomtable", "ipntom")

snmp_insert_ipaddridx_tree(m, ip) == Enable(InsertIndex(m, "ipaddr", snmp_iptooid(ip)), "ipaddrtable")
snmp_delete_ipaddridx_tree(m, ip) == DisableIfEmpty(DeleteIndex(m, "ipaddr", snmp_iptooid(ip)), "ipaddrtable", "ipaddr")

RouteDest(dft, ip, mask) == IF dft THEN AnyAddr ELSE Network(ip, mask)
Routed(dft, ip, mask) == dft \/ Network(ip, mask) # AnyAddr
snmp_insert_iprteidx_tree(m, dft, ip, mask) ==
  Enable(IF Routed(dft, ip, mask) THEN InsertIndex(m, "iprte", snmp_iptooid(RouteDest(dft, ip, mask))) ELSE m, "iprtetable")
snmp_delete_iprteidx_tree(m, dft, ip, mask) ==
  DisableIfEmpty(IF Routed(dft, ip, mask) THEN DeleteIndex(m, "iprte", snmp_iptooid(RouteDest(dft, ip, mask))) ELSE m,
                 "iprtetable", "iprte")

snmp_insert_udpidx_tree(m, b) == Enable(InsertIndex(m, "udp", snmp_iptooid(b[1]) \o <<b[2]>>), "udptable")
snmp_delete_udpidx_tree(m, pcbs, b) ==
  LET bindings == Cardinality({p \in DOMAIN pcbs : pcbs[p] = b})
  IN DisableIfEmpty(IF bindings = 1 THEN DeleteIndex(m, "udp", snmp_iptooid(b[1]) \o <<b[2]>>) ELSE m, "udptable", "udp")


-----------------------------------------------------------------------------
(* The interfaces: st is [m, lst, ni, tc], the part of the state they change. *)

St == [m |-> mib, lst |-> list, ni |-> nif, tc |-> tcps]
Becomes(st) == mib' = st.m /\ list' = st.lst /\ nif' = st.ni /\ tcps' = st.tc

(* A new address: connections from the old one are aborted, listeners follow it. *)
MovePcbs(tc, old, new) ==
  IF old = new THEN tc
  ELSE {IF c.kind = "listen" /\ c.ip = old /\ old # AnyAddr THEN [c EXCEPT !.ip = new] ELSE c :
          c \in {d \in tc : ~ (d.kind = "active" /\ d.ip = old)}}
netif_set_ipaddr(st, n, ip) ==
  LET o == st.ni[n]
      gone == snmp_delete_iprteidx_tree(snmp_delete_ipaddridx_tree(st.m, o.ip), FALSE, o.ip, o.mask)
  IN [st EXCEPT !.tc = MovePcbs(@, o.ip, ip), !.ni[n].ip = ip,
                !.m = snmp_insert_iprteidx_tree(snmp_insert_ipaddridx_tree(gone, ip), FALSE, ip, o.mask)]
netif_set_netmask(st, n, mask) ==
  LET o == st.ni[n]
  IN [st EXCEPT !.ni[n].mask = mask,
                !.m = snmp_insert_iprteidx_tree(snmp_delete_iprteidx_tree(@, FALSE, o.ip, o.mask), FALSE, o.ip, mask)]
netif_set_addr(st, n, ip, mask) == netif_set_netmask(netif_set_ipaddr(st, n, ip), n, mask)


Fresh == [ip |-> AnyAddr, mask |-> 0, up |-> FALSE, link |-> FALSE, said |-> 0]
netif_add(st, n, ip, mask, ok) ==
  LET a == netif_set_addr([st EXCEPT !.ni[n] = Fresh], n, ip, mask)
  IN IF ok THEN [a EXCEPT !.lst = <<n>> \o @, !.m = snmp_inc_iflist(@)] ELSE a

(* A gratuitous ARP and a report of the multicast groups, once both flags are set. *)
Announce(o) == [o EXCEPT !.said = IF o.up /\ o.link THEN @ + 1 ELSE @]
netif_set_up(o) == IF o.up THEN o ELSE Announce([o EXCEPT !.up = TRUE])
netif_set_down(o) == [o EXCEPT !.up = FALSE, !.said = 0]
netif_set_link_up(o) == IF o.link THEN o ELSE Announce([o EXCEPT !.link = TRUE])
netif_set_link_down(o) == [o EXCEPT !.link = FALSE, !.said = 0]


netif_set_default(m, n) == IF n = 0 THEN snmp_delete_iprteidx_tree(m, TRUE, AnyAddr, 0)
                           ELSE snmp_insert_iprteidx_tree(m, TRUE, AnyAddr, 0)
netif_remove(st, n) ==
  LET d == [st EXCEPT !.ni[n] = netif_set_down(@), !.m = snmp_delete_ipaddridx_tree(@, st.ni[n].ip)]
  IN IF \E i \in DOMAIN st.lst : st.lst[i] = n
     THEN [d EXCEPT !.lst = SelectSeq(@, LAMBDA x : x # n),
                    !.m = IF dflt = n THEN netif_set_default(snmp_dec_iflist(@), 0) ELSE snmp_dec_iflist(@)]
     ELSE d

Added(n) == \E i \in DOMAIN list : list[i] = n
Call == calls > 0 /\ calls' = calls - 1
UnchangedOthers == UNCHANGED <<arp, udp_pcbs>>

AddIf(n, ip, mask) == /\ Call /\ ~ Added(n) /\ Becomes(netif_add(St, n, ip, mask, TRUE)) /\ UNCHANGED dflt /\ UnchangedOthers
AddFails(n, ip, mask) == /\ Removes /\ Call /\ ~ Added(n) /\ Becomes(netif_add(St, n, ip, mask, FALSE)) /\ UNCHANGED dflt /\ UnchangedOthers
RemoveIf(n) == /\ Removes /\ Call /\ Added(n) /\ Becomes(netif_remove(St, n)) /\ dflt' = (IF dflt = n THEN 0 ELSE dflt) /\ UnchangedOthers
SetAddr(n, ip, mask) == /\ Call /\ Added(n) /\ Becomes(netif_set_addr(St, n, ip, mask)) /\ UNCHANGED dflt /\ UnchangedOthers
SetDefault(n) == /\ Call /\ n # dflt /\ (n = 0 \/ Added(n)) /\ mib' = netif_set_default(mib, n) /\ dflt' = n
                 /\ UNCHANGED <<list, nif, tcps>> /\ UnchangedOthers
Flag(n, o) == /\ Call /\ Added(n) /\ o # nif[n] /\ nif' = [nif EXCEPT ![n] = o] /\ UNCHANGED <<mib, list, dflt, tcps>> /\ UnchangedOthers
Up(n) == Flag(n, netif_set_up(nif[n]))
Down(n) == Flag(n, netif_set_down(nif[n]))
LinkUp(n) == Flag(n, netif_set_link_up(nif[n]))
LinkDown(n) == Flag(n, netif_set_link_down(nif[n]))

-----------------------------------------------------------------------------
(* The ARP table and the control blocks. *)

UnchangedNetif == UNCHANGED <<list, nif, dflt>>

update_arp_entry(n, ip) ==      \* the entry becomes stable
  /\ Call /\ Added(n) /\ <<n, ip>> \notin arp
  /\ arp' = arp \cup {<<n, ip>>} /\ mib' = snmp_insert_arpidx_tree(mib, list, n, ip)
  /\ UNCHANGED <<udp_pcbs, tcps>> /\ UnchangedNetif
\* An entry that is still pending has no netif (0), and so no row.
free_entry(e) ==
  /\ Call /\ arp' = arp \ {e} /\ mib' = snmp_delete_arpidx_tree(mib, list, e[1], e[2])
  /\ UNCHANGED <<udp_pcbs, tcps>> /\ UnchangedNetif

InUse(p, ip, port) == \E q \in DOMAIN udp_pcbs \ {p} : /\ udp_pcbs[q][2] = port
                                                       /\ udp_pcbs[q][1] = AnyAddr \/ ip = AnyAddr \/ udp_pcbs[q][1] = ip
udp_bind(p, ip, port) ==
  /\ Call /\ ~ InUse(p, ip, port)
  /\ p \in DOMAIN udp_pcbs => (Rebinds /\ udp_pcbs[p] # <<ip, port>>)
  /\ mib' = snmp_insert_udpidx_tree(mib, <<ip, port>>)
  /\ udp_pcbs' = [q \in DOMAIN udp_pcbs \cup {p} |-> IF q = p THEN <<ip, port>> ELSE udp_pcbs[q]]
  /\ UNCHANGED <<arp, tcps>> /\ UnchangedNetif
udp_remove(p) ==
  /\ Call /\ p \in DOMAIN udp_pcbs
  /\ mib' = snmp_delete_udpidx_tree(mib, udp_pcbs, udp_pcbs[p])
  /\ udp_pcbs' = [q \in DOMAIN udp_pcbs \ {p} |-> udp_pcbs[q]]
  /\ UNCHANGED <<arp, tcps>> /\ UnchangedNetif

(* A TCP connection or listener on the address of an interface. *)
TcpOpen(n, kind) == /\ Call /\ Added(n) /\ nif[n].ip # AnyAddr /\ tcps' = tcps \cup {[ip |-> nif[n].ip, kind |-> kind]} /\ tcps' # tcps
                    /\ UNCHANGED <<mib, arp, udp_pcbs>> /\ UnchangedNetif

Init == /\ mib = [tree |-> [t \in Trees |-> [p \in {<<>>} |-> <<>>]], len |-> [a \in RamArrays |-> 0],
                  nodes |-> MaxNodes, roots |-> MaxRoots]
        /\ list = <<>> /\ nif = [n \in Netifs |-> Fresh] /\ dflt = 0 /\ arp = {} /\ tcps = {}
        /\ udp_pcbs = [p \in {} |-> <<>>] /\ calls = MaxCalls
Next == \/ \E n \in Netifs, ip \in Addrs, mask \in Masks : AddIf(n, ip, mask) \/ AddFails(n, ip, mask) \/ SetAddr(n, ip, mask)
        \/ \E n \in Netifs : RemoveIf(n) \/ Up(n) \/ Down(n) \/ LinkUp(n) \/ LinkDown(n)
        \/ \E n \in Netifs \cup {0} : SetDefault(n)
        \/ \E n \in Netifs, ip \in Hosts : update_arp_entry(n, ip)
        \/ \E e \in arp \cup {<<0, ip>> : ip \in Hosts} : free_entry(e)
        \/ \E p \in Pcbs, ip \in {AnyAddr} \cup Addrs, port \in Ports : udp_bind(p, ip, port)
        \/ \E p \in Pcbs : udp_remove(p)
        \/ \E n \in Netifs, kind \in {"active", "listen"} : TcpOpen(n, kind)
Spec == Init /\ [][Next]_vars

-----------------------------------------------------------------------------
(* Properties. *)

LeafRows(t) == LET T == mib.tree[t]
               IN UNION {{Append(p, T[p][i]) : i \in DOMAIN T[p]} : p \in DOMAIN T} \ DOMAIN T

(* Every index tree holds the indexes of what is there now: interfaces are numbered from one, ARP    *)
(* entries, addresses, networks and bindings have one row each, and nothing else has                 *)
(* (the insert and delete functions of mib2.c).                                                      *)
RowsMatch ==
  /\ LeafRows("iflist") = {<<i>> : i \in DOMAIN list}
  /\ LeafRows("ipaddr") = {nif[n].ip : n \in {m \in Netifs : Added(m)}}
  /\ LeafRows("iprte") = {Network(nif[n].ip, nif[n].mask) : n \in {m \in Netifs : Added(m)}} \cup (IF dflt = 0 THEN {} ELSE {AnyAddr})
  /\ LeafRows("arp") = {<<snmp_netiftoifindex(list, e[1])>> \o e[2] : e \in arp}
  /\ LeafRows("ipntom") = LeafRows("arp")
  /\ LeafRows("udp") = {udp_pcbs[p][1] \o <<udp_pcbs[p][2]>> : p \in DOMAIN udp_pcbs}

(* The list nodes and roots that are not free are the ones in the trees, and no list below a root is *)
(* left empty (snmp_mib_node_delete, snmp_mib_lrn_free).                                             *)
PoolsMatch ==
  LET all(f(_, _)) == [t \in Trees |-> [p \in DOMAIN mib.tree[t] |-> f(t, p)]]
      sum(g) == FoldFunction(+, 0, [t \in Trees |-> FoldFunction(+, 0, g[t])])
  IN /\ mib.nodes + sum(all(LAMBDA t, p : Len(mib.tree[t][p]))) = MaxNodes
     /\ mib.roots + sum(all(LAMBDA t, p : IF p = <<>> THEN 0 ELSE 1)) = MaxRoots
     /\ \A t \in Trees : \A p \in DOMAIN mib.tree[t] : p # <<>> => mib.tree[t][p] # <<>>

(* The instances of the tree in the order of their names. *)
RowLess(a, b) == \E i \in DOMAIN a : a[i] < b[i] /\ \A j \in 1 .. (i - 1) : a[j] = b[j]
TableWalk(oid, columns, t) ==
  LET rows == SetToSortSeq(LeafRows(t), RowLess)
  IN FlattenSeq([c \in 1 .. columns |-> [r \in 1 .. Len(rows) |-> oid \o <<1, c>> \o rows[r]]])
Scalars(oid, ids) == [i \in 1 .. Len(ids) |-> oid \o <<ids[i], 0>>]
mib2_oid == prefix \o <<2, 1>>
ExtWalk == IF ExtIds = <<>> THEN <<>>
           ELSE FlattenSeq([i \in 1 .. Len(ExtIds[1]) |-> [j \in 1 .. Len(ExtIds[2]) |-> prefix \o <<4, ExtIds[1][i], ExtIds[2][j]>>]])
Walk ==
  Scalars(mib2_oid \o <<1>>, Count(7)) \o Scalars(mib2_oid \o <<2>>, <<1>>) \o TableWalk(mib2_oid \o <<2, 2>>, 22, "iflist")
  \o TableWalk(mib2_oid \o <<3, 1>>, 3, "arp")
  \o Scalars(mib2_oid \o <<4>>, Count(19)) \o TableWalk(mib2_oid \o <<4, 20>>, 5, "ipaddr")
  \o TableWalk(mib2_oid \o <<4, 21>>, 13, "iprte") \o TableWalk(mib2_oid \o <<4, 22>>, 4, "ipntom") \o Scalars(mib2_oid \o <<4>>, <<23>>)
  \o Scalars(mib2_oid \o <<5>>, Count(26)) \o Scalars(mib2_oid \o <<6>>, Count(12) \o <<14, 15>>)
  \o Scalars(mib2_oid \o <<7>>, Count(4)) \o TableWalk(mib2_oid \o <<7, 5>>, 2, "udp")
  \o Scalars(mib2_oid \o <<11>>, snmp.ids) \o ExtWalk

(* A walk of the whole tree with GetNext, from the empty name on, visits every instance once, in     *)
(* order, and ends (snmp_expand_tree); Get finds each of them (snmp_search_tree).                    *)
WalksInOrder ==
  LET w == Walk
  IN /\ GetNext(mib, <<>>).oid = w[1]
     /\ \A i \in DOMAIN w : /\ Get(mib, w[i]).node.kind # "NULL"
                            /\ IF i < Len(w) THEN GetNext(mib, w[i]).oid = w[i + 1]
                               ELSE GetNext(mib, w[i]).node.kind = "NULL"

(* A name between two instances leads to the one that follows it: a proper prefix of it, or a name   *)
(* that branches off just before it (snmp_expand_tree).                                              *)
NextOfAnyName ==
  LET w == Walk
  IN \A i \in DOMAIN w : \A k \in 5 .. Len(w[i]) - 1 :
       (i = 1 \/ Len(w[i - 1]) < k \/ SubSeq(w[i - 1], 1, k) # SubSeq(w[i], 1, k))
         => /\ GetNext(mib, SubSeq(w[i], 1, k)).oid = w[i]
            /\ GetNext(mib, SubSeq(w[i], 1, k - 1) \o <<w[i][k] - 1, 300>>).oid = w[i]

(* An interface that is up and linked has announced itself exactly once since it became so, in      *)
(* whichever order the two happened (netif_set_up, netif_set_link_up).                               *)
AnnouncedOnce == \A n \in Netifs : Added(n) => nif[n].said = (IF nif[n].up /\ nif[n].link THEN 1 ELSE 0)

=============================================================================
