------------------------------- MODULE Etharp -------------------------------
(***************************************************************************)
(* The ARP table and Ethernet output (lwip/netif/etharp.c): entries are    *)
(* empty, pending (a request is out, packets may wait) or stable; they are *)
(* learnt from received ARP, recycled when the table is full, and age.     *)
(*                                                                         *)
(* a is the state of the C module: tab is arp_table, hint                  *)
(* etharp_cached_entry, held the packets the table holds a reference to,   *)
(* elems the packets with an element of MEMP_ARP_QUEUE, out the frames     *)
(* passed to linkoutput by the last step.  An IP packet is a number.       *)
(* ours is the address of the interface, told what every host last         *)
(* announced, dst where each packet was to go.                             *)
(***************************************************************************)
EXTENDS Integers, Sequences, FiniteSets, FiniteSetsExt, SequencesExt

CONSTANTS TableSize, MaxAge, MaxPending, \* ARP_TABLE_SIZE, ARP_MAXAGE, ARP_MAXPENDING
          Queueing, QueueSize,           \* ARP_QUEUEING, MEMP_NUM_ARP_QUEUE
          Static, TrustIpMac,            \* ETHARP_SUPPORT_STATIC_ENTRIES, ETHARP_TRUST_IP_MAC
          Hosts, Own, Gateway, Remote, Broadcast, Multicast, \* addresses; Gateway and Own may be IpAny
          Macs,
          MaxOut, MaxIn, MaxFail, MaxStatic, MaxAddr         \* bounds on packets sent and received, failures, changes

ASSUME SizeAssumption ==
  /\ TableSize \in Nat \ {0} /\ MaxAge \in Nat \ {0} /\ MaxPending \in Nat /\ QueueSize \in Nat
  /\ Queueing \in BOOLEAN /\ Static \in BOOLEAN /\ TrustIpMac \in BOOLEAN
\* addresses are numbers, 0 being none; the addresses of hosts are unicast
ASSUME AddressAssumption ==
  /\ Hosts \subseteq Nat \ {0} /\ Remote \subseteq Nat /\ Multicast \subseteq Nat /\ Macs \subseteq Nat
  /\ Own \in Nat /\ Gateway \in Nat /\ Broadcast \in Nat
  /\ Hosts \cap ({Broadcast} \cup Multicast) = {}

VARIABLES a, ours, told, dst, spent
vars == <<a, ours, told, dst, spent>>

IpAny == 0
Entries == 1 .. TableSize
Empty == [state |-> "EMPTY", ip |-> IpAny, mac |-> IpAny, ctime |-> 0, static |-> FALSE, q |-> <<>>]
OK == "OK"

-----------------------------------------------------------------------------
(* Entries. *)

(* free_etharp_q: packets and, with queueing, their queue elements are given back. *)
free_etharp_q(st, pkts) == [st EXCEPT !.held = @ \ pkts, !.elems = @ \ pkts]
(* The address stays in a free entry. *)
Freed(e) == [e EXCEPT !.q = <<>>, !.state = "EMPTY", !.static = FALSE]
(* The packets that wait for a set of entries. *)
Waiting(tab, S) == UNION {Range(tab[i].q) : i \in S}
(* free_entry, for each of a set of entries. *)
free_entry(st, S) ==
  [free_etharp_q(st, Waiting(st.tab, S)) EXCEPT
     !.tab = [i \in Entries |-> IF i \in S THEN Freed(st.tab[i]) ELSE st.tab[i]]]

(* The oldest of a set of entries, the last one of equals. *)
Oldest(st, S) == Max({i \in S : \A j \in S : st.tab[j].ctime <= st.tab[i].ctime})
Matching(st, ip) == {i \in Entries : st.tab[i].state # "EMPTY" /\ st.tab[i].ip = ip}
Evictable(st) ==
  LET stable == {i \in Entries : st.tab[i].state = "STABLE" /\ ~ st.tab[i].static}
      pending == {i \in Entries : st.tab[i].state = "PENDING" /\ st.tab[i].q = <<>>}
      queue == {i \in Entries : st.tab[i].state = "PENDING" /\ st.tab[i].q # <<>>}
  IN IF stable # {} THEN stable ELSE IF pending # {} THEN pending ELSE queue
Put(st, i, e) == [st EXCEPT !.tab[i] = e]
Claimed(e, ip) == [e EXCEPT !.ip = ip, !.ctime = 0, !.static = FALSE]
Claim(st, i, ip) == [i |-> i, st |-> Put(st, i, Claimed(st.tab[i], ip))]
NoEntry(st) == [i |-> 0, st |-> st]
(* Mutant: the search ends at the first empty entry. *)
find_entry_First(st, ip, flags) ==
  LET empty == {i \in Entries : st.tab[i].state = "EMPTY"}
      seen == {i \in Matching(st, ip) : empty = {} \/ i < Min(empty)}
  IN CASE seen # {} -> [i |-> Min(seen), st |-> st]
       [] seen = {} /\ ("FIND_ONLY" \in flags \/ (empty = {} /\ "TRY_HARD" \notin flags)) -> NoEntry(st)
       [] OTHER -> IF empty # {} THEN Claim(st, Min(empty), ip)
                   ELSE IF Evictable(st) = {} THEN NoEntry(st)
                   ELSE Claim(free_entry(st, {Oldest(st, Evictable(st))}), Oldest(st, Evictable(st)), ip)
(* find_entry: the entry of the address; else, unless only to find, an     *)
(* empty one or, if asked to try hard, a recycled one.                     *)
find_entry(st, ip, flags) ==
  LET empty == {i \in Entries : st.tab[i].state = "EMPTY"}
  IN CASE Matching(st, ip) # {} -> [i |-> Min(Matching(st, ip)), st |-> st]
       [] Matching(st, ip) = {} /\ ("FIND_ONLY" \in flags \/ (empty = {} /\ "TRY_HARD" \notin flags)) -> NoEntry(st)
       [] OTHER -> IF empty # {} THEN Claim(st, Min(empty), ip)
                   ELSE IF Evictable(st) = {} THEN NoEntry(st)
                   ELSE Claim(free_entry(st, {Oldest(st, Evictable(st))}), Oldest(st, Evictable(st)), ip)

Frame(kind, ip, mac, pkt) == [kind |-> kind, ip |-> ip, mac |-> mac, pkt |-> pkt]
etharp_send_ip(st, ip, mac, pkt) == [st EXCEPT !.out = Append(@, Frame("IP", ip, mac, pkt))]
IsSpecial(ip) == ip \in {IpAny, Broadcast} \cup Multicast
(* A group's frames go to 01:00:5e and the low 23 bits of its address. *)
GroupMac(ip) == 10000000 + (ip % 8388608)

(* What waits for the entry is sent in its order and given back. *)
SendQueued(st, i, ip, mac) ==
  LET q == st.tab[i].q
  IN [free_etharp_q(Put(st, i, [st.tab[i] EXCEPT !.q = <<>>]), Range(q)) EXCEPT
        !.out = @ \o [k \in DOMAIN q |-> Frame("IP", ip, mac, q[k])]]
Settled(e, mac, flags) == [e EXCEPT !.state = "STABLE", !.mac = mac, !.ctime = 0, !.static = @ \/ "STATIC" \in flags]
Settle(found, ip, mac, flags) ==
  IF found.i = 0 THEN found.st
  ELSE SendQueued(Put(found.st, found.i, Settled(found.st.tab[found.i], mac, flags)), found.i, ip, mac)
update_arp_entry(st, ip, mac, flags) == IF IsSpecial(ip) THEN st ELSE Settle(find_entry(st, ip, flags), ip, mac, flags)

-----------------------------------------------------------------------------
(* Output. *)

etharp_raw(st, ip, mac, mem, op) == IF mem THEN [st EXCEPT !.out = Append(@, Frame(op, ip, mac, 0))] ELSE st
etharp_request(st, ip, mem) == etharp_raw(st, ip, Broadcast, mem, "REQUEST")

(* A packet waits: a copy of it, or a reference if it is all in ROM; without queueing it takes the place of an older one. *)
Enqueue(st, i, pkt) ==
  IF Queueing
  THEN IF Cardinality(st.elems) = QueueSize THEN st
       ELSE [Put(st, i, [st.tab[i] EXCEPT !.q = Append(@, pkt)]) EXCEPT !.held = @ \cup {pkt}, !.elems = @ \cup {pkt}]
  ELSE [Put(st, i, [st.tab[i] EXCEPT !.q = <<pkt>>]) EXCEPT !.held = (@ \ Range(st.tab[i].q)) \cup {pkt}]
Pend(st, i) == IF st.tab[i].state = "EMPTY" THEN Put(st, i, [st.tab[i] EXCEPT !.state = "PENDING"]) ELSE st
(* memR and memC: is there memory for the request and for the copy of the packet. *)
QuerySend(st, i, ip, pkt, memC) ==
  IF st.tab[i].state = "STABLE"
  THEN etharp_send_ip([st EXCEPT !.hint = i], ip, st.tab[i].mac, pkt)
  ELSE IF memC THEN Enqueue(st, i, pkt) ELSE st
QueryFound(st, i, ip, pkt, memR, memC) ==
  LET asked == IF st.tab[i].state = "PENDING" \/ pkt = 0 THEN etharp_request(st, ip, memR) ELSE st
  IN IF pkt = 0 THEN asked ELSE QuerySend(asked, i, ip, pkt, memC)
Queried(found, ip, pkt, memR, memC) ==
  IF found.i = 0 THEN found.st ELSE QueryFound(Pend(found.st, found.i), found.i, ip, pkt, memR, memC)
etharp_query(st, ip, pkt, memR, memC) ==
  IF IsSpecial(ip) THEN st ELSE Queried(find_entry(st, ip, {"TRY_HARD"}), ip, pkt, memR, memC)

NextHop(ip) == IF ip \in Remote THEN Gateway ELSE ip
HintHits(st, ip) == st.tab[st.hint].state = "STABLE" /\ st.tab[st.hint].ip = ip
etharp_output(st, ip, pkt, memR, memC) ==
  CASE ip = Broadcast -> etharp_send_ip(st, ip, Broadcast, pkt)
    [] ip \in Multicast -> etharp_send_ip(st, ip, GroupMac(ip), pkt)
    [] ip \notin {Broadcast} \cup Multicast /\ NextHop(ip) = IpAny -> st
    [] OTHER -> IF HintHits(st, NextHop(ip)) THEN etharp_send_ip(st, NextHop(ip), st.tab[st.hint].mac, pkt)
                ELSE etharp_query(st, NextHop(ip), pkt, memR, memC)

-----------------------------------------------------------------------------
(* Input and time. *)

ForUs(dip) == ours # IpAny /\ dip = ours
Reply(st, sip, smac, dip, op) ==
  IF op = "REQUEST" /\ ForUs(dip) THEN [st EXCEPT !.out = Append(@, Frame("REPLY", sip, smac, 0))] ELSE st
etharp_arp_input(st, sip, smac, dip, op) ==
  Reply(update_arp_entry(st, sip, smac, IF ForUs(dip) THEN {"TRY_HARD"} ELSE {"FIND_ONLY"}), sip, smac, dip, op)
etharp_ip_input(st, sip, smac) == IF sip \in Hosts THEN update_arp_entry(st, sip, smac, {"FIND_ONLY"}) ELSE st
(* An Ethernet frame: IP, ARP, or something else that is dropped. *)
ethernet_input(st, f) ==
  CASE f.type = "IP" -> IF TrustIpMac THEN etharp_ip_input(st, f.sip, f.smac) ELSE st
    [] f.type = "ARP" /\ f.valid -> etharp_arp_input(st, f.sip, f.smac, f.dip, f.op)
    [] OTHER -> st

Aged(e) == IF e.state = "EMPTY" \/ e.static THEN e ELSE [e EXCEPT !.ctime = @ + 1]
Expired(e) == e.state # "EMPTY" /\ ~ e.static /\ (e.ctime >= MaxAge \/ (e.state = "PENDING" /\ e.ctime >= MaxPending))
AgeAll(st) == [st EXCEPT !.tab = [i \in Entries |-> Aged(st.tab[i])]]
FreeExpired(st) == free_entry(st, {i \in Entries : Expired(st.tab[i])})
etharp_tmr(st) == FreeExpired(AgeAll(st))
etharp_find_addr(st, ip) ==
  LET f == find_entry(st, ip, {"FIND_ONLY"}) IN IF f.i # 0 /\ st.tab[f.i].state = "STABLE" THEN f.i ELSE 0
etharp_add_static_entry(st, ip, mac) == update_arp_entry(st, ip, mac, {"TRY_HARD", "STATIC"})
etharp_remove_static_entry(st, ip) ==
  LET f == find_entry(st, ip, {"FIND_ONLY"})
  IN IF f.i = 0 \/ st.tab[f.i].state # "STABLE" \/ ~ st.tab[f.i].static THEN st ELSE free_entry(st, {f.i})

-----------------------------------------------------------------------------
(* Behaviour: the stack sends, frames arrive, the timer runs. *)

Spend(what, bound) == spent[what] < bound /\ spent' = [spent EXCEPT ![what] = @ + 1]
Fresh == [a EXCEPT !.out = <<>>]
(* Memory fails at most MaxFail times. *)
Memory(mems) == \/ \A m \in mems : m
                \/ (\E m \in mems : ~ m) /\ spent.fail < MaxFail
Charge(what, bound, mems) ==
  /\ spent[what] < bound /\ Memory(mems)
  /\ spent' = [spent EXCEPT ![what] = @ + 1, !["fail"] = IF FALSE \in mems THEN @ + 1 ELSE @]
Output(ip, memR, memC) ==
  /\ Charge("out", MaxOut, {memR, memC})
  /\ a' = etharp_output(Fresh, ip, spent.out + 1, memR, memC)
  /\ dst' = Append(dst, NextHop(ip)) /\ UNCHANGED <<ours, told>>
(* A query without a packet: the check of an offered address. *)
Query(ip, memR) ==
  /\ Charge("out", MaxOut, {memR}) /\ a' = etharp_query(Fresh, ip, 0, memR, TRUE)
  /\ dst' = Append(dst, IpAny) /\ UNCHANGED <<ours, told>>
Announces(f) == (f.type = "ARP" /\ f.valid) \/ (f.type = "IP" /\ TrustIpMac /\ f.sip \in Hosts)
Input(f) ==
  /\ Spend("in", MaxIn) /\ a' = ethernet_input(Fresh, f)
  /\ told' = IF Announces(f) THEN [told EXCEPT ![f.sip] = f.smac] ELSE told
  /\ UNCHANGED <<ours, dst>>
Tmr == a' = etharp_tmr(Fresh) /\ UNCHANGED <<ours, told, dst, spent>>
AddStatic(ip, mac) ==
  /\ Static /\ Spend("static", MaxStatic) /\ a' = etharp_add_static_entry(Fresh, ip, mac)
  /\ told' = [told EXCEPT ![ip] = mac] /\ UNCHANGED <<ours, dst>>
RemoveStatic(ip) ==
  /\ Static /\ Spend("static", MaxStatic) /\ a' = etharp_remove_static_entry(Fresh, ip) /\ UNCHANGED <<ours, told, dst>>
(* The interface gets or loses its address. *)
Address == Spend("addr", MaxAddr) /\ ours' = (IF ours = IpAny THEN Own ELSE IpAny) /\ a' = Fresh /\ UNCHANGED <<told, dst>>

Frames ==
  [type : {"ARP"}, valid : {TRUE}, sip : Hosts, smac : Macs, dip : Hosts \cup {Own}, op : {"REQUEST", "REPLY"}]
  \cup [type : {"IP"}, valid : {TRUE}, sip : Hosts, smac : Macs]
  \cup {[type |-> "ARP", valid |-> FALSE]}
Init ==
  /\ a = [tab |-> [i \in Entries |-> Empty], hint |-> 1, held |-> {}, elems |-> {}, out |-> <<>>]
  /\ ours = Own /\ told = [h \in Hosts |-> IpAny] /\ dst = <<>>
  /\ spent = [w \in {"out", "in", "fail", "static", "addr"} |-> 0]
Next ==
  \/ \E ip \in Hosts \cup Remote \cup {Broadcast} \cup Multicast, memR, memC \in BOOLEAN : Output(ip, memR, memC)
  \/ \E ip \in Hosts, memR \in BOOLEAN : Query(ip, memR)
  \/ \E f \in Frames : Input(f)
  \/ \E ip \in Hosts, mac \in Macs : AddStatic(ip, mac)
  \/ \E ip \in Hosts : RemoveStatic(ip)
  \/ Tmr
  \/ Address
Spec == Init /\ [][Next]_vars

-----------------------------------------------------------------------------
(* Properties. *)

(* Types: the three states of an entry, its age within the limit of the      *)
(* timer, the cached index inside the table.                                *)
TypeOK ==
  /\ \A i \in Entries : a.tab[i].state \in {"EMPTY", "PENDING", "STABLE"} /\ a.tab[i].ctime \in 0 .. MaxAge
  /\ a.hint \in Entries /\ ours \in {IpAny, Own}

(* An address has one entry: find_entry goes on behind the first empty     *)
(* entry, since the address may be further down.                           *)
OneEntry == \A i, j \in Entries :
  a.tab[i].state # "EMPTY" /\ a.tab[j].state # "EMPTY" /\ a.tab[i].ip = a.tab[j].ip => i = j

(* Packets wait for pending entries only, as the assertion before a stable *)
(* entry is recycled says, each for one; the packets that are held are the *)
(* ones that wait, and with queueing they have the queue elements: what is *)
(* recycled, replaced, timed out or sent is given back.                    *)
QueueHeld ==
  /\ \A i \in Entries : a.tab[i].q # <<>> => a.tab[i].state = "PENDING"
  /\ \A i, j \in Entries : i # j => Range(a.tab[i].q) \cap Range(a.tab[j].q) = {}
  /\ a.held = Waiting(a.tab, Entries)
  /\ a.elems = IF Queueing THEN a.held ELSE {}
  /\ Cardinality(a.elems) <= QueueSize

(* A packet leaves for the next hop it was given, at the hardware address  *)
(* that hop announced last: not the one of an entry that was recycled      *)
(* behind the cached index, nor an older one.                              *)
SentToOwner == \A k \in DOMAIN a.out : LET f == a.out[k] IN
  f.kind = "IP" /\ f.ip \in Hosts => f.mac = told[f.ip] /\ f.ip = dst[f.pkt]

(* Packets for one hop leave in the order in which they were sent, and     *)
(* none twice: once a hop has got a packet, no older one for it waits.     *)
InOrder == \A k \in DOMAIN a.out : a.out[k].kind = "IP" =>
  /\ \A l \in DOMAIN a.out : l > k /\ a.out[l].kind = "IP" /\ a.out[l].ip = a.out[k].ip => a.out[l].pkt > a.out[k].pkt
  /\ \A i \in Entries : a.out[k].ip = a.tab[i].ip => \A n \in DOMAIN a.tab[i].q : a.tab[i].q[n] > a.out[k].pkt

(* The table, the queues and the frames are right, through any sequence of *)
(* queries, announcements, recycling and timeouts (find_entry,             *)
(* update_arp_entry, etharp_query, etharp_tmr).                            *)
OneEntryPerAddress == TypeOK /\ OneEntry /\ QueueHeld /\ SentToOwner /\ InOrder

=============================================================================
