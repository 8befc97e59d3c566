------------------------------ MODULE SnmpTree ------------------------------
(***************************************************************************)
(* The object tree of the SNMP agent (lwip/core/snmp/mib_structs.c and the *)
(* node tables of mib2.c).                                                 *)
(*                                                                         *)
(* A node is [kind, name, path].  Array nodes (AR constant, RA with a      *)
(* length that changes) and scalars (SC) are known by name, a list root    *)
(* (LR) by the index tree it belongs to and the identifiers that lead to   *)
(* it, an external node (EX) by its level.                                 *)
(*                                                                         *)
(* An index tree is a function: its domain holds the paths of its list     *)
(* roots, and tree[p] is the sequence of identifiers in that list.  A list *)
(* node has a child (nptr) exactly when its path is in the domain.         *)
(*                                                                         *)
(* A MIB is [tree, len, nodes, roots]: the index trees, the lengths of the *)
(* RAM arrays, and the free elements of the two memory pools.              *)
(***************************************************************************)
EXTENDS Integers, Sequences, FiniteSets, SequencesExt

CONSTANT ExtIds  \* identifiers of each level below the external node; <<>> when there is none

Null == [kind |-> "NULL", name |-> "", path |-> <<>>]
N(kind, name) == [kind |-> kind, name |-> name, path |-> <<>>]
Count(n) == [i \in 1 .. n |-> i]

-----------------------------------------------------------------------------
(* The tables of mib2.c: identifiers and child nodes of the array nodes. *)

snmp == [ids |-> Count(6) \o [i \in 1 .. 15 |-> i + 7] \o [i \in 1 .. 7 |-> i + 23],
         kids |-> [i \in 1 .. 28 |-> N("SC", "snmp")]]
udpentry == [ids |-> Count(2), kids |-> [i \in 1 .. 2 |-> N("LR", "udp")]]
udptable == [ids |-> <<1>>, kids |-> <<N("AR", "udpentry")>>]
udp == [ids |-> Count(5), kids |-> [i \in 1 .. 4 |-> N("SC", "udp")] \o <<N("RA", "udptable")>>]
tcpconnentry == [ids |-> Count(5), kids |-> [i \in 1 .. 5 |-> N("LR", "tcpconn")]]
tcpconntable == [ids |-> <<1>>, kids |-> <<N("AR", "tcpconnentry")>>]
tcp == [ids |-> Count(15), kids |-> [i \in 1 .. 15 |-> IF i = 13 THEN N("RA", "tcpconntable") ELSE N("SC", "tcp")]]
icmp == [ids |-> Count(26), kids |-> [i \in 1 .. 26 |-> N("SC", "icmp")]]
ipntomentry == [ids |-> Count(4), kids |-> [i \in 1 .. 4 |-> N("LR", "ipntom")]]
ipntomtable == [ids |-> <<1>>, kids |-> <<N("AR", "ipntomentry")>>]
iprteentry == [ids |-> Count(13), kids |-> [i \in 1 .. 13 |-> N("LR", "iprte")]]
iprtetable == [ids |-> <<1>>, kids |-> <<N("AR", "iprteentry")>>]
ipaddrentry == [ids |-> Count(5), kids |-> [i \in 1 .. 5 |-> N("LR", "ipaddr")]]
ipaddrtable == [ids |-> <<1>>, kids |-> <<N("AR", "ipaddrentry")>>]
mib2_ip == [ids |-> Count(23),
            kids |-> [i \in 1 .. 23 |-> CASE i = 20 -> N("RA", "ipaddrtable") [] i = 21 -> N("RA", "iprtetable")
                                          [] i = 22 -> N("RA", "ipntomtable") [] OTHER -> N("SC", "ip")]]
atentry == [ids |-> Count(3), kids |-> [i \in 1 .. 3 |-> N("LR", "arp")]]
attable == [ids |-> <<1>>, kids |-> <<N("AR", "atentry")>>]
at == [ids |-> <<1>>, kids |-> <<N("AR", "attable")>>]
ifentry == [ids |-> Count(22), kids |-> [i \in 1 .. 22 |-> N("LR", "iflist")]]
iftable == [ids |-> <<1>>, kids |-> <<N("AR", "ifentry")>>]
interfaces == [ids |-> Count(2), kids |-> <<N("SC", "interfaces"), N("RA", "iftable")>>]
sys_tem == [ids |-> Count(7), kids |-> [i \in 1 .. 7 |-> N("SC", "system")]]
mib2 == [ids |-> Count(7) \o <<11>>,
         kids |-> <<N("AR", "system"), N("AR", "interfaces"), N("RA", "at"), N("AR", "ip"), N("AR", "icmp"),
                    N("AR", "tcp"), N("AR", "udp"), N("AR", "snmp")>>]
mgmt == [ids |-> <<1>>, kids |-> <<N("AR", "mib2")>>]
internet == IF ExtIds = <<>> THEN [ids |-> <<2>>, kids |-> <<N("AR", "mgmt")>>]
            ELSE [ids |-> <<2, 4>>, kids |-> <<N("AR", "mgmt"), N("EX", "private")>>]

Arrays == [snmp |-> snmp, udpentry |-> udpentry, udptable |-> udptable, udp |-> udp, tcpconnentry |-> tcpconnentry,
           tcpconntable |-> tcpconntable, tcp |-> tcp, icmp |-> icmp, ipntomentry |-> ipntomentry,
           ipntomtable |-> ipntomtable, iprteentry |-> iprteentry, iprtetable |-> iprtetable,
           ipaddrentry |-> ipaddrentry, ipaddrtable |-> ipaddrtable, ip |-> mib2_ip, atentry |-> atentry,
           attable |-> attable, at |-> at, ifentry |-> ifentry, iftable |-> iftable, interfaces |-> interfaces,
           system |-> sys_tem, mib2 |-> mib2, mgmt |-> mgmt, internet |-> internet]
Trees == {"iflist", "arp", "ipntom", "ipaddr", "iprte", "tcpconn", "udp"}
RamArrays == {"iftable", "at", "ipaddrtable", "iprtetable", "ipntomtable", "tcpconntable", "udptable"}

(* The identifiers of a node and its children, as the MIB stands. *)
Ids(m, n) == CASE n.kind = "AR" -> Arrays[n.name].ids
               [] n.kind = "RA" -> SubSeq(Arrays[n.name].ids, 1, m.len[n.name])
               [] n.kind = "LR" -> m.tree[n.name][n.path]
Child(m, n, i) == IF n.kind # "LR" THEN Arrays[n.name].kids[i]
                  ELSE LET p == Append(n.path, Ids(m, n)[i])
                       IN IF p \in DOMAIN m.tree[n.name] THEN [n EXCEPT !.path = p] ELSE Null

-----------------------------------------------------------------------------
(* List nodes: m is the MIB, t the tree, p the list, id the identifier. *)

snmp_mib_ln_alloc(m) == [m EXCEPT !.nodes = @ - 1]
snmp_mib_ln_free(m) == [m EXCEPT !.nodes = @ + 1]
snmp_mib_lrn_free(m, t, p) == [m EXCEPT !.roots = @ + 1,
                                        !.tree[t] = [q \in DOMAIN @ \ {p} |-> @[q]]]
snmp_mib_lrn_alloc(m, t, p) == IF m.roots = 0 THEN m
                               ELSE [m EXCEPT !.roots = @ - 1,
                                              !.tree[t] = [q \in DOMAIN @ \cup {p} |-> IF q = p THEN <<>> ELSE @[q]]]

(* Inserts id before the first identifier that is greater. *)
snmp_mib_node_insert(m, t, p, id) ==
  LET s == m.tree[t][p]  before == Cardinality({i \in DOMAIN s : s[i] < id})
  IN CASE \E i \in DOMAIN s : s[i] = id -> [ret |-> 2, mib |-> m]
       [] (\A i \in DOMAIN s : s[i] # id) /\ m.nodes = 0 -> [ret |-> -1, mib |-> m]
       [] OTHER -> [ret |-> 1,
                    mib |-> [snmp_mib_ln_alloc(m) EXCEPT
                               !.tree[t][p] = SubSeq(s, 1, before) \o <<id>> \o SubSeq(s, before + 1, Len(s))]]

snmp_mib_node_find(m, t, p, id) ==
  LET q == Append(p, id)
  IN CASE ~ \E i \in DOMAIN m.tree[t][p] : m.tree[t][p][i] = id -> 0
       [] (\E i \in DOMAIN m.tree[t][p] : m.tree[t][p][i] = id) /\ q \in DOMAIN m.tree[t] /\ Len(m.tree[t][q]) > 1 -> 2
       [] OTHER -> 1

snmp_mib_node_delete(m, t, p, id) ==
  LET s == m.tree[t][p]
  IN [snmp_mib_ln_free(m) EXCEPT !.tree[t][p] = SelectSeq(s, LAMBDA i : i # id)]

-----------------------------------------------------------------------------
(* snmp_search_tree: the node that holds the object, and the identifiers   *)
(* that remain for it; Null when there is none.                            *)

Found(n, ident) == [node |-> n, ident |-> ident]

RECURSIVE snmp_search_tree(_, _, _, _)

SearchIds(m, n, ident, lev) ==                             \* array and list nodes
  LET s == Ids(m, n)  i == SelectInSeq(s, LAMBDA x : x = Head(ident))
  IN CASE ident = <<>> -> Found(Null, <<>>)
       [] ident # <<>> /\ i = 0 -> Found(Null, <<>>)
       [] ident # <<>> /\ i > 0 /\ Child(m, n, i).kind = "NULL" -> Found(n, ident)
       [] OTHER -> snmp_search_tree(m, Child(m, n, i), Tail(ident), lev)

SearchExternal(m, n, ident, lev) ==
  IF ident = <<>> \/ ~ \E i \in DOMAIN ExtIds[lev + 1] : ExtIds[lev + 1][i] = Head(ident) THEN Found(Null, <<>>)
  ELSE IF lev + 1 = Len(ExtIds) THEN Found(n, ident)
       ELSE snmp_search_tree(m, n, Tail(ident), lev + 1)

SearchScalar(n, ident) == IF ident = <<0>> THEN Found(n, ident) ELSE Found(Null, <<>>)

snmp_search_tree(m, n, ident, lev) ==
  CASE n.kind \in {"AR", "RA", "LR"} -> SearchIds(m, n, ident, lev)
    [] n.kind = "EX" -> SearchExternal(m, n, ident, lev)
    [] n.kind = "SC" -> SearchScalar(n, ident)
    [] OTHER -> Found(Null, <<>>)

-----------------------------------------------------------------------------
(* snmp_expand_tree: the next object.  The state of its loop is w: the     *)
(* node, the identifiers left, the identifier built so far, the stack of   *)
(* right-hand neighbours and the level in an external node.                *)

empty_table(m, n) == (n.kind \in {"LR", "RA"} /\ Ids(m, n) = <<>>) \/ (n.kind = "EX" /\ ExtIds = <<>>)

push_node(w, right) == [w EXCEPT !.stack = Append(@, right)]
Right(node, id, lev) == [node |-> node, id |-> id, lev |-> lev]
NoRight == Right(Null, 0, 0)

Answer(w, id) == [node |-> w.node, oid |-> Append(w.oid, id)]
NoObject == [node |-> Null, oid |-> <<>>]

RECURSIVE snmp_expand_tree(_, _)

(* The name keeps the identifier of the level that is left. *)
Climb_KeepsName(m, w) ==
  LET k == SelectLastInSeq(w.stack, LAMBDA r : r.node.kind # "NULL")
  IN IF k = 0 THEN NoObject
     ELSE snmp_expand_tree(m, [node |-> w.stack[k].node, ident |-> <<>>, oid |-> Append(w.oid, w.stack[k].id),
                               stack |-> SubSeq(w.stack, 1, k - 1), lev |-> w.stack[k].lev])
(* The stack entries without a neighbour are dropped; each takes one identifier with it. *)
Climb(m, w) ==
  LET k == SelectLastInSeq(w.stack, LAMBDA r : r.node.kind # "NULL")
      left == Len(w.oid) - (Len(w.stack) - k) - 1
  IN IF k = 0 THEN NoObject
     ELSE snmp_expand_tree(m, [node |-> w.stack[k].node, ident |-> <<>>, oid |-> Append(SubSeq(w.oid, 1, left), w.stack[k].id),
                               stack |-> SubSeq(w.stack, 1, k - 1), lev |-> w.stack[k].lev])

(* Into child i, keeping the rest of the request only if the identifier is the requested one. *)
Descend(w, s, i, child) ==
  [w EXCEPT !.node = child, !.oid = Append(@, s[i]), !.ident = IF @ # <<>> /\ Head(@) = s[i] THEN Tail(@) ELSE <<>>]

NextTable(m, n, from) == LET J == {j \in from .. Len(Ids(m, n)) : ~ empty_table(m, Child(m, n, j))}
                         IN IF J = {} THEN 0 ELSE CHOOSE j \in J : \A k \in J : j <= k
Neighbour(m, n, s, j) == IF j = 0 THEN NoRight ELSE Right(Child(m, n, j), s[j], 0)

(* With identifiers left: the first child that is not smaller than the next of them. *)
ExpandGreater(m, w, s, i) ==
  IF i = 0 THEN Climb(m, w)
  ELSE IF Child(m, w.node, i).kind = "NULL"
       THEN IF s[i] > Head(w.ident) THEN Answer(w, s[i])
            ELSE IF i < Len(s) THEN Answer(w, s[i + 1]) ELSE Climb(m, w)
       ELSE snmp_expand_tree(m, Descend(push_node(w, Neighbour(m, w.node, s, NextTable(m, w.node, i + 1))), s, i, Child(m, w.node, i)))

(* Without: the first child that is not empty. *)
ExpandFirst(m, w, s, j) ==
  IF j = 0 THEN Climb(m, w)
  ELSE IF Child(m, w.node, j).kind = "NULL" THEN Answer(w, s[j])
       ELSE snmp_expand_tree(m, Descend(w, s, j, Child(m, w.node, j)))

ExpandArray(m, w) ==
  LET s == Ids(m, w.node)
  IN IF w.ident # <<>> THEN ExpandGreater(m, w, s, SelectInSeq(s, LAMBDA x : x >= Head(w.ident)))
     ELSE ExpandFirst(m, w, s, NextTable(m, w.node, 1))

ExpandList(m, w) ==
  LET s == Ids(m, w.node)
  IN IF w.ident # <<>> THEN ExpandGreater(m, w, s, SelectInSeq(s, LAMBDA x : x >= Head(w.ident)))
     ELSE ExpandFirst(m, w, s, NextTable(m, w.node, 1))

ExpandExternal(m, w) ==
  LET s == ExtIds[w.lev + 1]  last == w.lev + 1 = Len(ExtIds)
      i == IF w.ident = <<>> THEN 1 ELSE SelectInSeq(s, LAMBDA x : x >= Head(w.ident))
      down == [Descend(w, s, i, w.node) EXCEPT !.lev = w.lev + 1]
  IN CASE i = 0 -> Climb(m, w)
       [] i > 0 /\ last /\ (w.ident = <<>> \/ s[i] > Head(w.ident)) -> Answer(w, s[i])
       [] i > 0 /\ last /\ w.ident # <<>> /\ s[i] = Head(w.ident) -> IF i < Len(s) THEN Answer(w, s[i + 1]) ELSE Climb(m, w)
       [] i > 0 /\ ~ last /\ w.ident = <<>> -> snmp_expand_tree(m, down)
       [] OTHER -> snmp_expand_tree(m, push_node(down, IF i < Len(s) THEN Right(w.node, s[i + 1], w.lev + 1) ELSE NoRight))

ExpandScalar(m, w) == IF w.ident # <<>> THEN Climb(m, w) ELSE Answer(w, 0)

snmp_expand_tree(m, w) ==
  CASE w.node.kind \in {"AR", "RA"} -> ExpandArray(m, w)
    [] w.node.kind = "LR" -> ExpandList(m, w)
    [] w.node.kind = "EX" -> ExpandExternal(m, w)
    [] w.node.kind = "SC" -> ExpandScalar(m, w)
    [] OTHER -> NoObject

-----------------------------------------------------------------------------
(* The prefix .iso.org.dod.internet. *)

prefix == <<1, 3, 6, 1>>
snmp_iso_prefix_tst(oid) == Len(oid) > 3 /\ SubSeq(oid, 1, 4) = prefix
snmp_iso_prefix_expand(oid) == \A i \in 1 .. (IF Len(oid) < 4 THEN Len(oid) ELSE 4) : oid[i] <= prefix[i]

(* snmp_msg_get_event and snmp_msg_getnext_event: the node of a name, and of the next one. *)
Get(m, oid) == IF snmp_iso_prefix_tst(oid) THEN snmp_search_tree(m, N("AR", "internet"), SubSeq(oid, 5, Len(oid)), 0)
               ELSE Found(Null, <<>>)
GetNext(m, oid) ==
  IF snmp_iso_prefix_expand(oid)
  THEN snmp_expand_tree(m, [node |-> N("AR", "internet"), ident |-> SubSeq(oid, 5, Len(oid)), oid |-> prefix,
                            stack |-> <<>>, lev |-> 0])
  ELSE NoObject
=============================================================================
