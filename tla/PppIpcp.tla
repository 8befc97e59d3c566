------------------------------ MODULE PppIpcp ------------------------------
(***************************************************************************)
(* The IP Control Protocol (netif/ppp/ipcp.c) over the automaton of fsm.c: *)
(* the addresses of the two ends, Van Jacobson compression, name servers,  *)
(* the network interface of ppp.c that ipcp_up configures and ipcp_down    *)
(* takes away, and the counters of auth.c.                                 *)
(*                                                                         *)
(* A request lists options and their values as a function.  An address is  *)
(* a number, and 0 is "none".  LCP below (module PppLcp) is up or down at  *)
(* each end; a Terminate-Request of it travels on the same line.           *)
(***************************************************************************)
EXTENDS Integers, Sequences, FiniteSets, TLC

CONSTANTS Ends, PeerOf,
          Want,          \* per end: ipcp_wantoptions as ipcp_init leaves them, with configured addresses
          Allow,         \* per end: ipcp_allowoptions
          UsePeerDns,    \* ends with ppp_settings.usepeerdns
          MaxConf, MaxTerm, MaxNakLoops,
          Foreign,       \* packets of a different program
          MaxUp, MaxDown, MaxLose, MaxFire, MaxForeign   \* bounds

VARIABLES unit, line, spent
vars == <<unit, line, spent>>

MaxSlots == 4      \* MAX_SLOTS
VjComp == "vj"     \* IPCP_VJ_COMP; IPCP_VJ_COMP_OLD is "vjold"
NoVj == [proto |-> "none", old |-> FALSE, slots |-> 0, cflag |-> FALSE]
NoOptions == [neg_addr |-> FALSE, old_addrs |-> FALSE, req_addr |-> FALSE, our |-> 0, his |-> 0,
              accept_local |-> FALSE, accept_remote |-> FALSE, neg_vj |-> FALSE, vj |-> NoVj,
              dns |-> <<0, 0>>, req_dns |-> {}]

------------------------------------------------------------------------------
(* The options of this end's request. *)

ipcp_resetci(s) ==
    LET wo == [s.wo EXCEPT !.req_addr = s.wo.neg_addr /\ Allow[s.e].neg_addr,
                           !.accept_local = @ \/ s.wo.our = 0,
                           !.accept_remote = @ \/ s.wo.his = 0,
                           !.req_dns = IF s.e \in UsePeerDns THEN {1, 2} ELSE {}]
    IN [s EXCEPT !.wo = wo, !.go = wo, !.cis_received = FALSE]

(* Counting the options brings refused ones back in their older form: both *)
(* addresses, or the short form of compression if the peer asked for that. *)
RetryAddrs(o, wo) ==
    IF wo.neg_addr /\ ~o.neg_addr /\ ~o.old_addrs
    THEN [o EXCEPT !.neg_addr = TRUE, !.old_addrs = TRUE] ELSE o
RetryVj(o, wo, ho, received) ==
    IF ~wo.neg_vj \/ o.neg_vj \/ o.vj.old THEN o
    ELSE IF ~received THEN [o EXCEPT !.neg_vj = TRUE]
    ELSE IF ho.neg_vj /\ ho.vj.old
    THEN [o EXCEPT !.neg_vj = TRUE, !.vj.old = TRUE, !.vj.proto = ho.vj.proto] ELSE o
ipcp_cilen(s) ==
    [s EXCEPT !.go = RetryVj(RetryAddrs(@, s.wo), s.wo, s.ho, s.cis_received)]

AddrOption(o) == IF o.old_addrs THEN "addrs" ELSE "addr"
AddrValue(o) == IF o.old_addrs THEN <<o.our, o.his>> ELSE o.our
VjValue(v) == IF v.old THEN [NoVj EXCEPT !.proto = v.proto, !.old = TRUE] ELSE v
DnsOption(i) == IF i = 1 THEN "dns1" ELSE "dns2"
Listed(o) == (IF o.neg_addr THEN {AddrOption(o)} ELSE {}) \cup (IF o.neg_vj THEN {"vj"} ELSE {})
               \cup {DnsOption(i) : i \in o.req_dns}
Value(o, ci) == CASE ci = "vj" -> VjValue(o.vj)
                  [] ci = "dns1" -> o.dns[1]
                  [] ci = "dns2" -> o.dns[2]
                  [] OTHER -> AddrValue(o)
ipcp_addci(s) == [ci \in Listed(s.go) |-> Value(s.go, ci)]

ipcp_ackci(s, body) == body = ipcp_addci(s)

------------------------------------------------------------------------------
(* A Configure-Nak: what to ask for next. *)

NakAddr(try, go, body) ==
    IF ~go.neg_addr \/ AddrOption(go) \notin DOMAIN body THEN try
    ELSE LET a == IF go.old_addrs THEN body["addrs"] ELSE <<body["addr"], 0>>
         IN [try EXCEPT !.our = IF go.accept_local /\ a[1] # 0 THEN a[1] ELSE @,
                        !.his = IF go.accept_remote /\ a[2] # 0 THEN a[2] ELSE @]
NakVj(try, go, body) ==
    IF ~go.neg_vj \/ "vj" \notin DOMAIN body THEN try
    ELSE LET v == body["vj"]
         IN IF v.proto # VjComp /\ ~(v.old /\ v.proto = "vjold") THEN [try EXCEPT !.neg_vj = FALSE]
            ELSE IF v.old THEN [try EXCEPT !.vj.old = TRUE, !.vj.proto = v.proto]
            ELSE [try EXCEPT !.vj.old = FALSE,
                             !.vj.slots = IF v.slots < go.vj.slots THEN v.slots ELSE @,
                             !.vj.cflag = @ /\ v.cflag]
NakDns(try, go, body) ==
    [try EXCEPT !.dns = [i \in {1, 2} |-> IF i \in go.req_dns /\ DnsOption(i) \in DOMAIN body
                                          THEN body[DnsOption(i)] ELSE @[i]]]
(* Options the Nak brings that were not asked for. *)
ExtraAddr(try, go, body) ==
    CASE "addrs" \in DOMAIN body \ Listed(go) ->
            [try EXCEPT !.neg_addr = TRUE, !.old_addrs = TRUE,
                        !.our = IF body["addrs"][1] # 0 /\ go.accept_local THEN body["addrs"][1] ELSE @,
                        !.his = IF body["addrs"][2] # 0 /\ go.accept_remote THEN body["addrs"][2] ELSE @]
      [] "addr" \in DOMAIN body \ Listed(go) ->
            LET our == IF body["addr"] # 0 /\ go.accept_local THEN body["addr"] ELSE try.our
            IN [try EXCEPT !.old_addrs = FALSE, !.our = our, !.neg_addr = @ \/ our # 0]
      [] OTHER -> try
GoodNak(go, body) ==
    /\ "addr" \in DOMAIN body \ Listed(go) => ~go.neg_addr
    /\ "addrs" \in DOMAIN body \ Listed(go) => ~(go.neg_addr /\ go.old_addrs)
ipcp_nakci(s, body) ==
    LET go == s.go
        try == ExtraAddr(NakDns(NakVj(NakAddr(go, go, body), go, body), go, body), go, body)
    IN [good |-> GoodNak(go, body), s |-> IF s.state = "OPENED" THEN s ELSE [s EXCEPT !.go = try]]

(* A Configure-Reject must repeat what was sent, and drops it. *)
ipcp_rejci(s, body) ==
    LET go == s.go
        try == [go EXCEPT !.neg_addr = @ /\ AddrOption(go) \notin DOMAIN body,
                          !.neg_vj = @ /\ "vj" \notin DOMAIN body,
                          !.req_dns = {i \in @ : DnsOption(i) \notin DOMAIN body}]
    IN [good |-> DOMAIN body \subseteq Listed(go) /\ \A ci \in DOMAIN body : body[ci] = Value(go, ci),
        s |-> IF s.state = "OPENED" THEN s ELSE [s EXCEPT !.go = try]]

------------------------------------------------------------------------------
(* The request of the peer: a verdict and a suggestion for each option.    *)
(* CI_ADDRS is not understood (OLD_CI_ADDRS), no WINS server is known.     *)

AddrVerdict(s, a) ==
    CASE ~Allow[s.e].neg_addr -> "CONFREJ"
      [] Allow[s.e].neg_addr /\ a # s.wo.his /\ (a = 0 \/ ~s.wo.accept_remote) -> "CONFNAK"
      [] Allow[s.e].neg_addr /\ a = 0 /\ s.wo.his = 0 -> "CONFREJ"
      [] OTHER -> "CONFACK"
KnownVj(v) == v.proto = VjComp \/ (v.proto = "vjold" /\ v.old)
VjFits(v, ao) == v.old \/ (v.slots <= ao.vj.slots /\ (v.cflag => ao.vj.cflag))
VjVerdict(v, ao) == CASE ~ao.neg_vj \/ ~KnownVj(v) -> "CONFREJ"
                      [] ao.neg_vj /\ KnownVj(v) /\ ~VjFits(v, ao) -> "CONFNAK"
                      [] OTHER -> "CONFACK"
DnsVerdict(ao, i, a) == IF ao.dns[i] = 0 THEN "CONFREJ" ELSE IF a = ao.dns[i] THEN "CONFACK" ELSE "CONFNAK"
Verdict(s, ci, v) ==
    CASE ci = "addr" -> AddrVerdict(s, v)
      [] ci = "dns1" -> DnsVerdict(Allow[s.e], 1, v)
      [] ci = "dns2" -> DnsVerdict(Allow[s.e], 2, v)
      [] ci = "vj" -> VjVerdict(v, Allow[s.e])
      [] OTHER -> "CONFREJ"
Suggest(s, ci, v) ==
    CASE ci = "addr" -> s.wo.his
      [] ci = "dns1" -> Allow[s.e].dns[1]
      [] ci = "dns2" -> Allow[s.e].dns[2]
      [] OTHER -> [v EXCEPT !.slots = IF @ > Allow[s.e].vj.slots THEN Allow[s.e].vj.slots ELSE @,
                            !.cflag = IF @ /\ ~Allow[s.e].vj.cflag THEN s.wo.vj.cflag ELSE @]
(* hisoptions keeps what was listed and not rejected, wanted or not. *)
HisOptions(body, kept) ==
    [NoOptions EXCEPT !.neg_addr = "addr" \in kept, !.his = IF "addr" \in kept THEN body["addr"] ELSE 0,
                      !.neg_vj = "vj" \in kept,
                      !.vj = CASE "vj" \notin kept -> NoVj
                               [] "vj" \in kept /\ body["vj"].old ->
                                     [body["vj"] EXCEPT !.slots = MaxSlots - 1, !.cflag = TRUE]
                               [] OTHER -> body["vj"]]
(* The answer.  A peer that does not mention its address is told to.       *)
Compose(s, body, refused, rejs, naks, ask) ==
    [code |-> IF rejs # {} THEN "CONFREJ" ELSE IF naks # {} \/ ask THEN "CONFNAK" ELSE "CONFACK",
     body |-> CASE rejs # {} -> [ci \in rejs |-> body[ci]]
                [] rejs = {} /\ (naks # {} \/ ask) ->
                      [ci \in naks \cup (IF ask THEN {"addr"} ELSE {}) |->
                          IF ci \in naks THEN Suggest(s, ci, body[ci]) ELSE s.wo.his]
                [] OTHER -> body,
     s |-> [s EXCEPT !.cis_received = TRUE, !.ho = HisOptions(body, DOMAIN body \ refused),
                     !.wo.req_addr = /\ @ /\ ~(ask /\ naks = {})
                                     /\ ~("addr" \in refused /\ Allow[s.e].neg_addr)]]
Disliked(s, body, code) == {ci \in DOMAIN body : Verdict(s, ci, body[ci]) = code}
Answered(s, body, rejs, naks, disagree) ==
    Compose(s, body, rejs, rejs \cup (IF disagree THEN naks ELSE {}), IF disagree THEN {} ELSE naks,
            /\ rejs = {} /\ "addr" \notin DOMAIN body /\ ~disagree
            /\ s.wo.req_addr)
ipcp_reqci(s, body, reject_if_disagree) ==
    Answered(s, body, Disliked(s, body, "CONFREJ"), Disliked(s, body, "CONFNAK"), reject_if_disagree)

------------------------------------------------------------------------------
(* The interface. *)

NoIface == [up |-> FALSE, our |-> 0, his |-> 0, dns |-> <<0, 0>>, vj |-> NoVj, vjEnabled |-> FALSE]
np_up(s) == [s EXCEPT !.num_np_up = @ + 1]
np_down(s) == [s EXCEPT !.num_np_up = @ - 1]
sifvjcomp(s, on, v) == [s EXCEPT !.iface.vjEnabled = on, !.iface.vj = v]
sifaddr(s, o, h, dns) == [s EXCEPT !.iface.our = o, !.iface.his = h, !.iface.dns = dns]
sifup(s) == [s EXCEPT !.iface.up = TRUE]
sifdown(s) == [s EXCEPT !.iface.up = FALSE]
cifaddr(s) == sifaddr(s, 0, 0, <<0, 0>>)
sifdefaultroute(s) == [s EXCEPT !.default_route_set = TRUE]
cifdefaultroute(s) == [s EXCEPT !.default_route_set = FALSE]
ipcp_clear_addrs(s) == cifaddr(IF s.default_route_set THEN cifdefaultroute(s) ELSE s)

ipcp_down(s) == ipcp_clear_addrs(sifdown(sifvjcomp(np_down(s), FALSE, NoVj)))

C == INSTANCE PppFsmClose WITH down <- ipcp_down

(* Without an address of its own the end gives up, from inside the call    *)
(* that reports the automaton as opened.                                   *)
Configure_Own(s, ho) ==
    sifdefaultroute(sifup(sifaddr(sifvjcomp([s EXCEPT !.ho = ho], s.go.neg_vj, s.go.vj),
                                  s.go.our, ho.his, s.go.dns)))
Configure(s, ho) ==
    sifdefaultroute(sifup(sifaddr(sifvjcomp([s EXCEPT !.ho = ho], ho.neg_vj, ho.vj),
                                  s.go.our, ho.his, s.go.dns)))
ipcp_up(s) ==
    IF s.go.our = 0 THEN C!fsm_close(np_up(s))
    ELSE Configure(np_up(s), IF s.ho.neg_addr THEN s.ho ELSE [s.ho EXCEPT !.his = s.wo.his])

ipcp_starting(s) == s
(* np_finished closes LCP: its Terminate-Request follows, and link_down    *)
(* takes this protocol's lower layer away and closes it.                   *)
ipcp_finished(s) == [C!fsm_sdata(s, "LCPTERM", 0, "none")
                        EXCEPT !.state = "INITIAL", !.link = FALSE, !.num_np_up = 0]
ipcp_extcode(s, p) == [known |-> FALSE, s |-> s]

F == INSTANCE PppFsm WITH down <- ipcp_down, up <- ipcp_up, starting <- ipcp_starting,
        finished <- ipcp_finished, resetci <- ipcp_resetci, cilen <- ipcp_cilen, addci <- ipcp_addci,
        ackci <- ipcp_ackci, nakci <- ipcp_nakci, rejci <- ipcp_rejci, reqci <- ipcp_reqci,
        extcode <- ipcp_extcode

ipcp_init(e) ==
    C!fsm_init @@ [e |-> e, link |-> FALSE, num_np_up |-> 0, wo |-> Want[e], go |-> NoOptions,
                   ho |-> NoOptions, cis_received |-> FALSE, default_route_set |-> FALSE,
                   iface |-> NoIface]
ipcp_lowerup(s) == F!fsm_lowerup(s, FALSE)
ipcp_open(s) == F!fsm_open(s, FALSE)
ipcp_lowerdown(s) == F!fsm_lowerdown(s)
ipcp_close(s) == C!fsm_close(s)
ipcp_protrej(s) == F!fsm_lowerdown(s)
ipcp_input(s, p) == F!fsm_input(s, p)

(* auth.c, for a link without authentication. *)
link_established(s) == ipcp_open(ipcp_lowerup([s EXCEPT !.link = TRUE]))
link_down(s) == [ipcp_close(ipcp_lowerdown(s)) EXCEPT !.link = FALSE, !.num_np_up = 0]

------------------------------------------------------------------------------
Init == /\ unit = [e \in Ends |-> ipcp_init(e)]
        /\ line = [e \in Ends |-> <<>>]
        /\ spent = [up |-> 0, down |-> 0, lose |-> 0, fire |-> 0, foreign |-> 0]

Becomes(e, s, rest) ==
    /\ unit' = [unit EXCEPT ![e] = [s EXCEPT !.out = <<>>]]
    /\ line' = [x \in Ends |-> IF x = PeerOf[e] THEN rest[x] \o s.out ELSE rest[x]]
Spend(what, bound) == /\ spent[what] < bound
                      /\ spent' = [spent EXCEPT ![what] = @ + 1]

(* LCP comes up at both ends, one after the other, and goes down. *)
Terminating == \E x \in Ends : \E i \in DOMAIN line[x] : line[x][i].code = "LCPTERM"
LinkUp(e) == /\ ~unit[e].link /\ ~Terminating
             /\ Spend("up", MaxUp)
             /\ Becomes(e, link_established(unit[e]), line)
LinkDown(e) == /\ unit[e].link
               /\ Spend("down", MaxDown)
               /\ Becomes(e, C!fsm_sdata(link_down(unit[e]), "LCPTERM", 0, "none"), line)

(* pppInput: what is not LCP is dropped while the link is down. *)
Arrives(s, p) == CASE p.code = "LCPTERM" -> IF s.link THEN link_down(s) ELSE s
                   [] p.code = "PROTREJ" /\ s.link -> ipcp_protrej(s)
                   [] p.code \notin {"LCPTERM", "PROTREJ"} /\ s.link -> ipcp_input(s, p)
                   [] OTHER -> s
Receive(e) == /\ line[e] # <<>>
              /\ Becomes(e, Arrives(unit[e], Head(line[e])), [line EXCEPT ![e] = Tail(@)])
              /\ UNCHANGED spent
Lose(e) == /\ line[e] # <<>> /\ Head(line[e]).code # "LCPTERM"
           /\ Spend("lose", MaxLose)
           /\ line' = [line EXCEPT ![e] = Tail(@)]
           /\ UNCHANGED unit
Quiet == \A e \in Ends : line[e] = <<>>
Timeout(e) == /\ unit[e].timer
              /\ \/ Quiet /\ UNCHANGED spent
                 \/ ~Quiet /\ Spend("fire", MaxFire)
              /\ Becomes(e, F!fsm_timeout([unit[e] EXCEPT !.timer = FALSE], FALSE), line)

(* A packet of a program that is not this one; it acknowledges what it was *)
(* asked for.                                                              *)
Foreigner(e, p, id) ==
    /\ unit[e].link
    /\ Spend("foreign", MaxForeign)
    /\ Becomes(e, Arrives(unit[e], [code |-> p.code, id |-> id,
                    body |-> IF p.code = "CONFACK" THEN ipcp_addci(unit[e]) ELSE p.body]), line)

Next == \E e \in Ends :
          \/ LinkUp(e) \/ LinkDown(e) \/ Receive(e) \/ Lose(e) \/ Timeout(e)
          \/ \E p \in Foreign, id \in {unit[e].reqid, 200} : Foreigner(e, p, id)
Spec == Init /\ [][Next]_vars

------------------------------------------------------------------------------
(* Types: the automaton, the counters, the addresses. *)
TypeOK ==
    \A e \in Ends :
        /\ unit[e].state \in F!LinkStates
        /\ unit[e].retransmits \in 0..(MaxConf + MaxTerm)
        /\ unit[e].num_np_up \in Int
        /\ unit[e].iface.up \in BOOLEAN /\ unit[e].iface.our \in Nat
        /\ unit[e].go.req_dns \subseteq {1, 2} /\ unit[e].out = <<>>

(* An interface that is up has an address, belongs to an automaton that is *)
(* open over a link that is up, and is the default route: every way out of *)
(* OPENED takes it down (ipcp_up, ipcp_down, link_down).                   *)
InterfaceServed ==
    \A e \in Ends : LET s == unit[e] IN
        /\ s.iface.up => s.iface.our # 0 /\ s.state = "OPENED" /\ s.link /\ s.default_route_set
        /\ ~s.iface.up => s.iface.our = 0 /\ ~s.default_route_set /\ ~s.iface.vjEnabled

(* auth.c: num_np_up is the "Number of network protocols which have come   *)
(* up".                                                                    *)
(* Not what the code does: README.md, "Known disagreements". *)
CountsInterfaces == \A e \in Ends : unit[e].num_np_up = (IF unit[e].iface.up THEN 1 ELSE 0)

(* Two ends that are both up agree on whose address is whose, and an end   *)
(* that compresses headers talks to one that asked for it, with no more    *)
(* slots than that one has (ipcp_reqci, ipcp_nakci, ipcp_rejci, ipcp_up).  *)
EndsAgree ==
    \A e \in Ends : LET p == PeerOf[e] IN
        unit[e].iface.up /\ p \in Ends /\ unit[p].iface.up =>
            /\ unit[e].iface.his = unit[p].iface.our
            /\ unit[e].iface.vjEnabled = unit[p].go.neg_vj
            /\ unit[e].iface.vjEnabled => /\ unit[e].iface.vj.slots <= unit[p].go.vj.slots
                                          /\ unit[e].iface.vj.cflag => unit[p].go.vj.cflag

(* An automaton that waits for an answer has its timer scheduled. *)
WaitsWithTimer ==
    \A e \in Ends : unit[e].state \in F!Negotiating \cup {"CLOSING", "STOPPING"} => unit[e].timer

=============================================================================
