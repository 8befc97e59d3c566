-------------------------------- MODULE Dhcp --------------------------------
(***************************************************************************)
(* The DHCP client of lwIP (core/dhcp.c): every state, its timers and      *)
(* retries, with the network interface it configures, against servers on a *)
(* network that loses and delays messages.                                 *)
(*                                                                         *)
(* Time passes in ticks of dhcp_fine_tmr, scaled to one second; a message  *)
(* takes no time unless it is delayed.  A message is a record of the       *)
(* options the client or a server acts on; 0 stands for an absent one and  *)
(* for the address 0.0.0.0.                                                *)
(***************************************************************************)
EXTENDS Integers, Sequences, FiniteSets

CONSTANTS Servers, Pool(_),      \* servers (numbers above 0), the addresses of each
          Leases,        \* lease times a server grants
          GivesT2,       \* do servers send T1 and T2?
          NamesItself,   \* do servers send their Server-ID with an offer?
          Coarse,        \* fine ticks between two calls of dhcp_coarse_tmr
          Step,          \* time advances by at most so many ticks at once
          Xids,          \* transaction identifiers before they repeat
          U16,           \* 2^16: t1_timeout and t2_timeout wrap
          Infinite,      \* 0xffffffff: a time that never ends
          MaxTime,       \* bound on coarse ticks; 0: none
          MaxLose, MaxDelay, MaxConflict, MaxNoMem, MaxChange, MaxRelease, MaxStop, MaxTake \* bounds

VARIABLES cli,     \* struct dhcp and the addresses and flags of its netif
          clock,   \* fine ticks since the last coarse tick
          tosrv,   \* messages of the client that the servers have not heard
          tocli,   \* answers on their way, and those that are delayed
          late,
          lease,   \* per server and address: seconds this client may still use it
          taken,   \* addresses other hosts use
          told,    \* history: the last acknowledgement the client acted on
          spent

vars == <<cli, clock, tosrv, tocli, late, lease, taken, told, spent>>

------------------------------------------------------------------------------
(* Messages and timeouts. *)

dhcp_set_state(s, n) == IF s.state = n THEN s ELSE [s EXCEPT !.state = n, !.tries = 0, !.rto = 0]

(* dhcp_create_msg: a new transaction, from the static variable xid, unless *)
(* this is a retry; a buffer may be missing.  dhcp_delete_msg and the option *)
(* writers follow in a Send.                                               *)
CiAddr(s, type) ==
    IF type \in {"DECLINE", "INFORM"} \/ (type = "REQUEST" /\ s.state \in {"RENEWING", "REBINDING"})
    THEN s.ip ELSE 0
NewXid(s) == [s EXCEPT !.static = (@ + 1) % Xids]
SameXid(s) == [s EXCEPT !.xid = s.static]
dhcp_create_msg(s) == SameXid(IF s.tries = 0 THEN NewXid(s) ELSE s)
Message(s, type, to, req, sid) ==
    [type |-> type, xid |-> s.xid, to |-> to, ciaddr |-> CiAddr(s, type), req |-> req, sid |-> sid]
udp_sendto_if(s, m) == [s EXCEPT !.out = Append(@, m)]
Send(s, type, to, req, sid) ==
    IF ~s.mem THEN s
    ELSE LET t == dhcp_create_msg(s) IN udp_sendto_if(t, Message(t, type, to, req, sid))

(* One more try, and the seconds to wait for its answer. *)
Try(s, secs(_)) ==
    [s EXCEPT !.tries = (@ + 1) % 256, !.rto = secs((s.tries + 1) % 256)]
BackOff(n) == IF n < 6 THEN 2 ^ n ELSE 60
Linear(n) == IF n < 10 THEN n ELSE 10
Double(n) == IF n < 10 THEN 2 * n ELSE 20

SetDown(s) == [s EXCEPT !.up = FALSE]
NoAddress(s) == [s EXCEPT !.ip = 0]

dhcp_discover(s) ==
    Try(Send(dhcp_set_state([s EXCEPT !.offered = 0], "SELECTING"), "DISCOVER", 0, 0, 0), BackOff)
dhcp_select(s) ==
    Try(Send(dhcp_set_state(s, "REQUESTING"), "REQUEST", 0, s.offered, s.server), BackOff)
dhcp_renew(s) == Try(Send(dhcp_set_state(s, "RENEWING"), "REQUEST", s.server, 0, 0), Double)
dhcp_rebind(s) == Try(Send(dhcp_set_state(s, "REBINDING"), "REQUEST", 0, 0, 0), Linear)
dhcp_reboot(s) == Try(Send(dhcp_set_state(s, "REBOOTING"), "REQUEST", 0, s.offered, 0), Linear)
Wait10(n) == 10
dhcp_decline_Quiet(s) == Send(dhcp_set_state(s, "BACKING_OFF"), "DECLINE", 0, s.offered, 0)
dhcp_decline(s) ==
    Try(Send(dhcp_set_state(s, "BACKING_OFF"), "DECLINE", 0, s.offered, 0), Wait10)

(* The old offer is cleared before the message is addressed. *)
ClearOffer(s) == [s EXCEPT !.server = 0, !.offered = 0, !.t0 = 0, !.renew = 0, !.rebind = 0]
dhcp_release(s) ==
    NoAddress(SetDown(Try(Send(ClearOffer(dhcp_set_state(s, "OFF")), "RELEASE", 0, 0, 0), Linear)))

(* ARP is asked twice, half a second each, before an address is used. *)
Soon(n) == 1
dhcp_check(s) == Try(dhcp_set_state(s, "CHECKING"), Soon)

(* Coarse ticks for t seconds, within 16 bits and at least one.  A timer   *)
(* for a time without end is not set and keeps what it had.                *)
Within(n) == IF n >= U16 THEN U16 - 1 ELSE IF n = 0 THEN 1 ELSE n
Ticks(t, old) == IF t = Infinite THEN old ELSE Within((t + Coarse \div 2) \div Coarse)
dhcp_bind(s) ==
    dhcp_set_state([s EXCEPT !.t1 = Ticks(s.renew, @), !.t2 = Ticks(s.rebind, @),
                             !.ip = s.offered, !.up = TRUE], "BOUND")

dhcp_handle_nak(s) == dhcp_discover(dhcp_set_state(NoAddress(SetDown(s)), "BACKING_OFF"))
dhcp_handle_offer(s, m) ==
    IF m.sid = 0 THEN s ELSE dhcp_select([s EXCEPT !.server = m.sid, !.offered = m.yiaddr])
dhcp_handle_ack(s, m) ==
    LET t0 == IF m.lease # 0 THEN m.lease ELSE s.t0
    IN [s EXCEPT !.t0 = t0, !.renew = IF m.t1 # 0 THEN m.t1 ELSE t0 \div 2,
                 !.rebind = IF m.t2 # 0 THEN m.t2 ELSE t0, !.offered = m.yiaddr]

(* dhcp_recv: replies to another transaction are dropped. *)
Leased == {"REBOOTING", "REBINDING", "RENEWING"}
dhcp_recv(s, m) ==
    CASE m.xid # s.xid \/ ~s.pcb -> s
      [] m.xid = s.xid /\ s.pcb /\ m.type = "ACK" /\ s.state = "REQUESTING" ->
            dhcp_check(dhcp_handle_ack(s, m))
      [] m.xid = s.xid /\ s.pcb /\ m.type = "ACK" /\ s.state \in Leased -> dhcp_bind(s)
      [] m.xid = s.xid /\ s.pcb /\ m.type = "NAK" /\ s.state \in Leased \cup {"REQUESTING"} ->
            dhcp_handle_nak(s)
      [] m.xid = s.xid /\ s.pcb /\ m.type = "OFFER" /\ s.state = "SELECTING" ->
            dhcp_handle_offer([s EXCEPT !.rto = 0], m)
      [] OTHER -> s

dhcp_arp_reply(s, a) == IF s.state = "CHECKING" /\ a = s.offered THEN dhcp_decline(s) ELSE s

------------------------------------------------------------------------------
(* Timers. *)

dhcp_timeout(s) ==
    CASE s.state \in {"BACKING_OFF", "SELECTING"} -> dhcp_discover(s)
      [] s.state = "REQUESTING" /\ s.tries <= 5 -> dhcp_select(s)
      [] s.state = "REQUESTING" /\ s.tries > 5 -> dhcp_discover(dhcp_release(s))
      [] s.state = "CHECKING" -> IF s.tries <= 1 THEN dhcp_check(s) ELSE dhcp_bind(s)
      [] s.state = "RENEWING" -> dhcp_renew(s)
      [] s.state = "REBINDING" /\ s.tries <= 8 -> dhcp_rebind(s)
      [] s.state = "REBINDING" /\ s.tries > 8 -> dhcp_discover(dhcp_release(s))
      [] s.state = "REBOOTING" -> IF s.tries < 2 THEN dhcp_reboot(s) ELSE dhcp_discover(s)
      [] OTHER -> s
dhcp_fine_tmr(s) ==
    IF s.rto = 1 THEN dhcp_timeout([s EXCEPT !.rto = 0])
    ELSE [s EXCEPT !.rto = IF @ > 0 THEN @ - 1 ELSE 0]

Renewable == {"REQUESTING", "BOUND", "RENEWING"}
dhcp_t1_timeout(s) == IF s.state \in Renewable THEN dhcp_renew(s) ELSE s
dhcp_t2_timeout_Bound(s) == IF s.state = "BOUND" THEN dhcp_rebind(s) ELSE s
dhcp_t2_timeout(s) == IF s.state \in Renewable THEN dhcp_rebind(s) ELSE s
dhcp_coarse_tmr(s) ==
    LET t2 == (s.t2 - 1) % U16
        t1 == (s.t1 - 1) % U16
    IN CASE ~s.on -> s
         [] s.on /\ s.t2 = 1 -> dhcp_t2_timeout([s EXCEPT !.t2 = t2])
         [] s.on /\ s.t2 # 1 /\ s.t1 = 1 -> dhcp_t1_timeout([s EXCEPT !.t2 = t2, !.t1 = t1])
         [] OTHER -> [s EXCEPT !.t2 = t2, !.t1 = t1]

------------------------------------------------------------------------------
(* The interface of the client. *)

Fresh == [on |-> FALSE, pcb |-> FALSE, state |-> "OFF", tries |-> 0, rto |-> 0, xid |-> 0, static |-> 0,
          t1 |-> 0, t2 |-> 0, t0 |-> 0, renew |-> 0, rebind |-> 0, server |-> 0, offered |-> 0,
          ip |-> 0, up |-> FALSE, mem |-> TRUE, out |-> <<>>]
dhcp_stop(s) == IF s.on THEN dhcp_set_state([s EXCEPT !.pcb = FALSE], "OFF") ELSE s
dhcp_start(s) ==
    LET t == dhcp_discover([Fresh EXCEPT !.on = TRUE, !.pcb = TRUE, !.static = s.static, !.ip = s.ip,
                                         !.up = s.up, !.mem = s.mem])
    IN IF s.mem THEN t ELSE dhcp_stop(t)
(* With a struct dhcp of its own, whose transaction is the next one. *)
dhcp_inform(s) ==
    udp_sendto_if(NewXid(s), Message([dhcp_create_msg([Fresh EXCEPT !.static = s.static]) EXCEPT !.ip = s.ip],
                                     "INFORM", 0, 0, 0))
dhcp_network_changed(s) ==
    CASE ~s.on \/ s.state = "OFF" -> s
      [] s.on /\ s.state \in Leased \cup {"BOUND"} -> dhcp_reboot([SetDown(s) EXCEPT !.tries = 0])
      [] OTHER -> dhcp_discover([s EXCEPT !.tries = 0])

------------------------------------------------------------------------------
(* Servers and the network. *)

Init ==
    /\ cli = Fresh /\ clock = 0 /\ tosrv = <<>> /\ tocli = {} /\ late = {} /\ taken = {}
    /\ lease = [v \in Servers |-> [a \in Pool(v) |-> 0]]
    /\ told = [lease |-> 0]
    /\ spent = [time |-> 0, lose |-> 0, delay |-> 0, conflict |-> 0, nomem |-> 0, change |-> 0,
                release |-> 0, stop |-> 0, take |-> 0]

Spend(what, bound) == spent[what] < bound /\ spent' = [spent EXCEPT ![what] = @ + 1]
Becomes(s) == /\ cli' = [s EXCEPT !.out = <<>>, !.mem = TRUE]
              /\ tosrv' = tosrv \o s.out
Quiet == tosrv = <<>> /\ tocli = {}

Part(l, n) == IF ~GivesT2 THEN 0 ELSE IF l = Infinite THEN l ELSE l \div n
Reply(type, m, v, a, l) ==
    [type |-> type, xid |-> m.xid, yiaddr |-> a, sid |-> IF NamesItself THEN v ELSE 0, lease |-> l,
     t1 |-> Part(l, 4), t2 |-> Part(l, 2)]
Asked(m) == IF m.ciaddr # 0 THEN m.ciaddr ELSE m.req
(* What server v answers, as a set with at most one reply. *)
Answer(v, m, l) ==
    CASE m.to \notin {0, v} -> {}
      [] m.to \in {0, v} /\ m.type = "DISCOVER" ->
            IF Pool(v) \subseteq taken THEN {}
            ELSE {Reply("OFFER", m, v, CHOOSE a \in Pool(v) \ taken : TRUE, l)}
      [] m.to \in {0, v} /\ m.type = "REQUEST" /\ m.sid \in {0, v} /\ Asked(m) \in Pool(v) ->
            {IF Asked(m) \in taken THEN Reply("NAK", m, v, 0, 0) ELSE Reply("ACK", m, v, Asked(m), l)}
      [] OTHER -> {}
Holds(v, m, a, l) ==
    CASE \E r \in Answer(v, m, l) : r.type = "ACK" /\ r.yiaddr = a -> l
      [] m.type = "RELEASE" /\ m.to \in {0, v} /\ m.ciaddr = a -> 0
      [] m.type = "DECLINE" /\ m.req = a -> 0
      [] OTHER -> lease[v][a]
ServersHear(l) ==
    /\ tosrv # <<>>
    /\ LET m == Head(tosrv)
       IN /\ tocli' = tocli \cup UNION {Answer(v, m, l) : v \in Servers}
          /\ lease' = [v \in Servers |-> [a \in Pool(v) |-> Holds(v, m, a, l)]]
          /\ taken' = IF m.type = "DECLINE" THEN taken \cup {m.req} ELSE taken
    /\ tosrv' = Tail(tosrv)
    /\ UNCHANGED <<cli, clock, late, told, spent>>

Receive(m) ==
    /\ Becomes(dhcp_recv(cli, m))
    /\ tocli' = tocli \ {m} /\ late' = late \ {m}
    /\ told' = IF /\ m.type = "ACK" /\ m.xid = cli.xid /\ cli.pcb
                  /\ cli.state \in Leased \cup {"REQUESTING"}
               THEN [lease |-> m.lease] ELSE told
    /\ UNCHANGED <<clock, lease, taken, spent>>
Lose == /\ ~Quiet
        /\ Spend("lose", MaxLose)
        /\ \/ tosrv # <<>> /\ tosrv' = Tail(tosrv) /\ UNCHANGED tocli
           \/ \E m \in tocli : tocli' = tocli \ {m} /\ UNCHANGED tosrv
        /\ UNCHANGED <<cli, clock, late, lease, taken, told>>
Delay(m) == /\ Spend("delay", MaxDelay)
            /\ tocli' = tocli \ {m} /\ late' = late \cup {m}
            /\ UNCHANGED <<cli, clock, tosrv, lease, taken, told>>

(* Another host answers for the address, or is given it when it is free. *)
Conflict == /\ cli.state = "CHECKING" /\ Quiet
            /\ Spend("conflict", MaxConflict)
            /\ Becomes(dhcp_arp_reply(cli, cli.offered))
            /\ taken' = taken \cup {cli.offered}
            /\ UNCHANGED <<clock, tocli, late, lease, told>>
Take(a) == /\ \A v \in Servers : a \in Pool(v) => lease[v][a] = 0
           /\ a \notin taken /\ Quiet
           /\ Spend("take", MaxTake)
           /\ taken' = taken \cup {a}
           /\ UNCHANGED <<cli, clock, tosrv, tocli, late, lease, told>>

(* Idle calls of the timers are taken together, up to Step of them and     *)
(* never past one that does something.                                     *)
Pause == LET d == IF cli.rto > 0 /\ cli.rto < Step THEN cli.rto ELSE Step
         IN IF Coarse - clock < d THEN Coarse - clock ELSE d
Passed(s, d) == dhcp_fine_tmr([s EXCEPT !.rto = IF @ > 0 THEN @ - (d - 1) ELSE 0])
Elapse(mem, d, next) ==
    /\ clock' = next
    /\ Becomes(IF next = 0 THEN dhcp_coarse_tmr(Passed([cli EXCEPT !.mem = mem], d))
               ELSE Passed([cli EXCEPT !.mem = mem], d))
    /\ mem \/ (spent.nomem < MaxNoMem /\ (cli.rto = d \/ next = 0))
    /\ spent' = [spent EXCEPT !.time = IF next = 0 /\ MaxTime > 0 THEN @ + 1 ELSE @,
                              !.nomem = IF mem THEN @ ELSE @ + 1]
    /\ lease' = [v \in Servers |-> [a \in Pool(v) |->
                   IF lease[v][a] = Infinite THEN Infinite
                   ELSE IF lease[v][a] > d THEN lease[v][a] - d ELSE 0]]
Tick(mem) ==
    /\ Quiet /\ (MaxTime > 0 => spent.time < MaxTime)
    /\ Elapse(mem, Pause, (clock + Pause) % Coarse)
    /\ UNCHANGED <<tocli, late, taken, told>>

Call(s) == Becomes(s) /\ UNCHANGED <<clock, tocli, late, lease, taken, told>>
Start == /\ cli.state = "OFF" /\ Quiet
         /\ \/ UNCHANGED spent /\ Call(dhcp_start(cli))
            \/ Spend("nomem", MaxNoMem) /\ Call(dhcp_start([cli EXCEPT !.mem = FALSE]))
(* The cable was out, and is plugged in again: here or in another network, *)
(* where the address is somebody else's.                                   *)
Change == /\ cli.pcb /\ Quiet /\ Spend("change", MaxChange)
          /\ \/ Call(dhcp_network_changed(cli))
             \/ /\ Becomes(dhcp_network_changed(cli))
                /\ taken' = taken \cup ({cli.ip} \ {0})
                /\ lease' = [v \in Servers |-> [a \in Pool(v) |-> 0]]
                /\ UNCHANGED <<clock, tocli, late, told>>
Release == /\ cli.pcb /\ cli.state # "OFF" /\ Quiet /\ Spend("release", MaxRelease)
           /\ Call(dhcp_release(cli))
Stop == /\ cli.pcb /\ Quiet /\ Spend("stop", MaxStop) /\ Call(dhcp_stop(cli))
Inform == /\ cli.pcb /\ cli.state = "BOUND" /\ Quiet /\ Spend("change", MaxChange) /\ Call(dhcp_inform(cli))

Next == \/ \E l \in Leases : ServersHear(l)
        \/ \E m \in tocli \cup late : Receive(m)
        \/ Lose \/ \E m \in tocli : Delay(m)
        \/ Conflict \/ \E v \in Servers : \E a \in Pool(v) : Take(a)
        \/ \E mem \in BOOLEAN : Tick(mem)
        \/ Start \/ Change \/ Release \/ Stop \/ Inform
Spec == Init /\ [][Next]_vars

------------------------------------------------------------------------------
States == {"OFF", "SELECTING", "REQUESTING", "CHECKING", "BOUND", "RENEWING", "REBINDING",
           "REBOOTING", "BACKING_OFF"}
(* Types: the states of the client, its retries, and timers within their     *)
(* width.                                                                  *)
TypeOK == /\ cli.state \in States /\ cli.tries \in 0..255 /\ cli.rto \in 0..60
          /\ cli.t1 \in 0..(U16 - 1) /\ cli.t2 \in 0..(U16 - 1) /\ clock \in 0..(Coarse - 1)
          /\ cli.out = <<>>

(* An interface that is up with an address has a lease for it that has not *)
(* run out, and nobody else was given it, through renewals, losses, late   *)
(* answers and changes of the network (dhcp_bind, dhcp_t2_timeout).        *)
LeaseHeld == cli.up /\ cli.ip # 0 =>
                /\ cli.ip \notin taken
                /\ \E v \in Servers : cli.ip \in Pool(v) /\ lease[v][cli.ip] > 0

(* "This timer checks whether an outstanding DHCP request is timed out":   *)
(* a client that waits for an answer will ask again.                       *)
WaitsWithTimer == cli.pcb /\ cli.state \notin {"OFF", "BOUND"} => cli.rto > 0

(* dhcp_renew: "Renew an existing DHCP lease"; dhcp_rebind: "for an        *)
(* existing DHCP lease".                                                   *)
(* Not what the code does: README.md, "Known disagreements". *)
RenewsExisting == cli.state \in {"RENEWING", "REBINDING"} => cli.ip # 0

(* "remember offered lease time": a bound client knows the lease time of   *)
(* the acknowledgement it is bound by.                                     *)
(* Not what the code does: README.md, "Known disagreements". *)
LeaseRemembered == cli.state = "BOUND" => cli.t0 = told.lease

(* "Use dhcp_release(netif) to end the lease": once the message has        *)
(* arrived no server keeps the address for this client.                    *)
(* Not what the code does: README.md, "Known disagreements". *)
ReleaseEnds == spent.release > 0 /\ cli.state = "OFF" /\ Quiet =>
                  \A v \in Servers : \A a \in Pool(v) : lease[v][a] = 0

=============================================================================
