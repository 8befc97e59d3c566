------------------------------- MODULE PppAuth -------------------------------
(***************************************************************************)
(* Authentication on a PPP link: the phases and counters of                *)
(* netif/ppp/auth.c with the two protocols it drives, PAP (pap.c) and CHAP *)
(* (chap.c), at the two ends of a line that delivers in order and loses    *)
(* packets.                                                                *)
(*                                                                         *)
(* LCP (module PppLcp) is reduced to what auth.c sees of it: an end asks   *)
(* for the link with CONF, has it when it has heard the other's CONF, and  *)
(* ends it with TERMREQ and TERMACK.  The network protocol, IPCP, is       *)
(* closed, open or up.  An MD5 digest is the triple it is computed from.   *)
(***************************************************************************)
EXTENDS Integers, Sequences, FiniteSets

CONSTANTS Ends, PeerOf,
          Demands,       \* per end: what it demands of its peer: "none", "upap" or "chap"
          Secret,        \* per end: ppp_settings.passwd
          MaxTransmits,  \* us_maxtransmits and max_transmits
          ReqTimeout,    \* us_reqtimeout # 0: the server of PAP waits only so long
          ChalInterval,  \* chal_interval # 0: CHAP challenges again
          MaxConnect,    \* ppp_settings.maxconnect # 0
          MaxOpen, MaxClose, MaxLose, MaxFire, MaxAgain, MaxNp   \* bounds

(* A line has two ends, and an end demands one of the two protocols or none. *)
ASSUME LineAssumption == \A e \in Ends : PeerOf[e] \in Ends /\ PeerOf[PeerOf[e]] = e
ASSUME SettingsAssumption ==
    /\ \A e \in Ends : Demands[e] \in {"none", "upap", "chap"}
    /\ ReqTimeout \in BOOLEAN /\ ChalInterval \in BOOLEAN /\ MaxConnect \in BOOLEAN

VARIABLES unit,   \* per end: phase, counters, the states of PAP, CHAP and the network
          line,   \* per end: packets on their way to it
          spent

vars == <<unit, line, spent>>

Send(s, proto, code, id, body) ==
    [s EXCEPT !.out = Append(@, [proto |-> proto, code |-> code, id |-> id, body |-> body])]

(* What the two ends have agreed on: what this end demands, what it owes. *)
Go(s) == Demands[s.e]
Ho(s) == Demands[PeerOf[s.e]]

------------------------------------------------------------------------------
(* Taking the link down. *)

upap_lowerdown(s) ==
    [s EXCEPT !.pap.timer = IF s.pap.client = "AUTHREQ" THEN FALSE ELSE @,
              !.pap.reqtimer = IF s.pap.server = "LISTEN" THEN FALSE ELSE @,
              !.pap.client = "INITIAL", !.pap.server = "INITIAL"]

ChapLowerDown(s) ==
    [s EXCEPT !.chap.challengeTimer = IF s.chap.server \in {"INITIAL_CHAL", "RECHALLENGE"} THEN FALSE ELSE @,
              !.chap.againTimer = IF s.chap.server = "OPEN" THEN FALSE ELSE @,
              !.chap.responseTimer = IF s.chap.client = "RESPONSE" THEN FALSE ELSE @,
              !.chap.client = "INITIAL", !.chap.server = "INITIAL"]

np_down(s) == [s EXCEPT !.num_np_up = @ - 1]

(* IPCP loses its lower layer and is closed. *)
IpcpDown(s) == [(IF s.np = "up" THEN np_down(s) ELSE s) EXCEPT !.np = "closed"]

link_down(s) ==
    [IpcpDown(ChapLowerDown(upap_lowerdown(s)))
        EXCEPT !.num_np_open = 0, !.num_np_up = 0, !.phase = IF @ = "DEAD" THEN @ ELSE "TERMINATE"]
link_terminated(s) == [s EXCEPT !.phase = "DEAD"]

lcp_close(s) ==
    CASE s.lcp = "opened" -> Send([link_down(s) EXCEPT !.lcp = "closing"], "lcp", "TERMREQ", 0, 0)
      [] s.lcp = "asking" -> Send([s EXCEPT !.lcp = "closing", !.phase = "TERMINATE"], "lcp", "TERMREQ", 0, 0)
      [] OTHER -> s

auth_peer_fail(s) == lcp_close(s)
auth_withpeer_fail(s) == lcp_close(s)

------------------------------------------------------------------------------
(* Bringing it up. *)

network_phase(s) ==
    [s EXCEPT !.phase = "NETWORK", !.num_np_open = @ + 1,
              !.np = IF @ = "closed" THEN "open" ELSE @]

Done(s, what) ==
    LET t == [s EXCEPT !.auth_pending = @ \ {what}]
    IN IF t.auth_pending = {} THEN network_phase(t) ELSE t
auth_peer_success(s, what) == Done(s, what)
auth_withpeer_success(s, what) == Done(s, what)

upap_sauthreq(s) ==
    [Send(s, "pap", "AUTHREQ", s.pap.id + 1, Secret[s.e])
        EXCEPT !.pap.id = @ + 1, !.pap.transmits = @ + 1, !.pap.client = "AUTHREQ", !.pap.timer = TRUE]
upap_authwithpeer(s) ==
    IF s.pap.client \in {"INITIAL", "PENDING"}
    THEN [s EXCEPT !.pap.transmits = 0, !.pap.client = "PENDING"]
    ELSE upap_sauthreq([s EXCEPT !.pap.transmits = 0])
upap_authpeer(s) ==
    IF s.pap.server \in {"INITIAL", "PENDING"} THEN [s EXCEPT !.pap.server = "PENDING"]
    ELSE [s EXCEPT !.pap.server = "LISTEN", !.pap.reqtimer = ReqTimeout]
upap_lowerup(s) ==
    LET c == CASE s.pap.client = "INITIAL" -> [s EXCEPT !.pap.client = "CLOSED"]
               [] s.pap.client = "PENDING" -> upap_sauthreq(s)
               [] OTHER -> s
    IN CASE s.pap.server = "INITIAL" -> [c EXCEPT !.pap.server = "CLOSED"]
         [] s.pap.server = "PENDING" -> [c EXCEPT !.pap.server = "LISTEN", !.pap.reqtimer = ReqTimeout]
         [] OTHER -> c

ChapGenChallenge(s) ==
    [s EXCEPT !.chap.id = @ + 1, !.chap.chal_id = s.chap.id + 1, !.chap.challenge = @ + 1,
              !.chap.chal_transmits = 0]
ChapSendChallenge(s) ==
    [Send(s, "chap", "CHALLENGE", s.chap.chal_id, s.chap.challenge)
        EXCEPT !.chap.challengeTimer = TRUE, !.chap.chal_transmits = @ + 1]
Challenge(s, state) == [ChapSendChallenge(ChapGenChallenge(s)) EXCEPT !.chap.server = state]
ChapAuthPeer(s) ==
    IF s.chap.server \in {"INITIAL", "PENDING"} THEN [s EXCEPT !.chap.server = "PENDING"]
    ELSE Challenge(s, "INITIAL_CHAL")
ChapAuthWithPeer(s) ==
    [s EXCEPT !.chap.client = IF @ \in {"INITIAL", "PENDING"} THEN "PENDING" ELSE "LISTEN"]
ChapLowerUp(s) ==
    LET c == [s EXCEPT !.chap.client = CASE @ = "INITIAL" -> "CLOSED" [] @ = "PENDING" -> "LISTEN" [] OTHER -> @]
    IN CASE s.chap.server = "INITIAL" -> [c EXCEPT !.chap.server = "CLOSED"]
         [] s.chap.server = "PENDING" -> Challenge(c, "INITIAL_CHAL")
         [] OTHER -> c

AuthPeer(s) ==
    CASE Go(s) = "chap" -> ChapAuthPeer(s) [] Go(s) = "upap" -> upap_authpeer(s) [] OTHER -> s
AuthWithPeer(s) ==
    CASE Ho(s) = "chap" -> ChapAuthWithPeer(s) [] Ho(s) = "upap" -> upap_authwithpeer(s) [] OTHER -> s
ToDo(s) == (IF Go(s) = "none" THEN {} ELSE {<<Go(s), "peer">>})
             \cup (IF Ho(s) = "none" THEN {} ELSE {<<Ho(s), "withpeer">>})
link_established(s) ==
    LET t == [AuthWithPeer(AuthPeer(ChapLowerUp(upap_lowerup(s))))
                EXCEPT !.lcp = "opened", !.phase = "AUTHENTICATE", !.auth_pending = ToDo(s)]
    IN IF ToDo(s) = {} THEN network_phase(t) ELSE t

------------------------------------------------------------------------------
(* PAP packets and timers.  check_passwd accepts every password. *)

upap_sresp(s, code, id) == Send(s, "pap", code, id, "none")
check_passwd(s, user) == "AUTHACK"
upap_rauthreq(s, p) ==
    CASE s.pap.server = "OPEN" -> upap_sresp(s, "AUTHACK", p.id)
      [] s.pap.server = "BADAUTH" -> upap_sresp(s, "AUTHNAK", p.id)
      [] s.pap.server = "LISTEN" ->
            LET code == check_passwd(s, p.body)
                t == upap_sresp(s, code, p.id)
            IN [(IF code = "AUTHACK"
                 THEN auth_peer_success([t EXCEPT !.pap.server = "OPEN"], <<"upap", "peer">>)
                 ELSE auth_peer_fail([t EXCEPT !.pap.server = "BADAUTH"])) EXCEPT !.pap.reqtimer = FALSE]
      [] OTHER -> s
upap_rauthack(s) ==
    IF s.pap.client # "AUTHREQ" THEN s
    ELSE auth_withpeer_success([s EXCEPT !.pap.timer = FALSE, !.pap.client = "OPEN"],
                               <<"upap", "withpeer">>)
upap_rauthnak(s) ==
    IF s.pap.client # "AUTHREQ" THEN s
    ELSE auth_withpeer_fail([s EXCEPT !.pap.client = "BADAUTH"])
upap_input(s, p) == CASE p.code = "AUTHREQ" -> upap_rauthreq(s, p)
                      [] p.code = "AUTHACK" -> upap_rauthack(s)
                      [] p.code = "AUTHNAK" -> upap_rauthnak(s)
                      [] OTHER -> s
upap_timeout(s) ==
    CASE s.pap.client # "AUTHREQ" -> s
      [] s.pap.client = "AUTHREQ" /\ s.pap.transmits >= MaxTransmits ->
            auth_withpeer_fail([s EXCEPT !.pap.client = "BADAUTH"])
      [] OTHER -> upap_sauthreq(s)
upap_reqtimeout(s) ==
    IF s.pap.server # "LISTEN" THEN s ELSE [auth_peer_fail(s) EXCEPT !.pap.server = "BADAUTH"]

------------------------------------------------------------------------------
(* CHAP packets and timers. *)

ChapSendStatus(s, code) == Send(s, "chap", code, s.chap.chal_id, 0)
ChapSendResponse(s) ==
    [Send(s, "chap", "RESPONSE", s.chap.resp_id, s.chap.response)
        EXCEPT !.chap.client = "RESPONSE", !.chap.responseTimer = TRUE]
get_secret(s) == Secret[s.e]
ChapReceiveChallenge(s, p) ==
    IF s.chap.client \in {"CLOSED", "PENDING"} THEN s
    ELSE ChapSendResponse([s EXCEPT !.chap.resp_id = p.id,
                                    !.chap.response = <<p.id, get_secret(s), p.body>>])

(* A response to a challenge that is out: is the digest the expected one? *)
Expected(s, p) == p.body = <<s.chap.chal_id, get_secret(s), s.chap.challenge>>
Judge(s, good) ==
    IF good
    THEN [(IF s.chap.server = "INITIAL_CHAL"
           THEN auth_peer_success([s EXCEPT !.chap.server = "OPEN"], <<"chap", "peer">>)
           ELSE [s EXCEPT !.chap.server = "OPEN"]) EXCEPT !.chap.againTimer = ChalInterval]
    ELSE auth_peer_fail([s EXCEPT !.chap.server = "BADAUTH"])
Status(good) == IF good THEN "SUCCESS" ELSE "FAILURE"
Checked(s, good) ==
    Judge(ChapSendStatus([s EXCEPT !.chap.challengeTimer = FALSE], Status(good)), good)
ChapReceiveResponse_Trusts(s, p) ==
    CASE s.chap.server \in {"CLOSED", "PENDING"} \/ p.id # s.chap.chal_id -> s
      [] s.chap.server = "OPEN" -> ChapSendStatus(s, "SUCCESS")
      [] s.chap.server = "BADAUTH" -> ChapSendStatus(s, "FAILURE")
      [] OTHER -> Checked(s, TRUE)
ChapReceiveResponse(s, p) ==
    CASE s.chap.server \in {"CLOSED", "PENDING"} \/ p.id # s.chap.chal_id -> s
      [] p.id = s.chap.chal_id /\ s.chap.server = "OPEN" -> ChapSendStatus(s, "SUCCESS")
      [] p.id = s.chap.chal_id /\ s.chap.server = "BADAUTH" -> ChapSendStatus(s, "FAILURE")
      [] OTHER -> Checked(s, Expected(s, p))
ChapReceiveSuccess(s) ==
    IF s.chap.client # "RESPONSE" THEN s
    ELSE auth_withpeer_success([s EXCEPT !.chap.responseTimer = FALSE, !.chap.client = "OPEN"],
                               <<"chap", "withpeer">>)
ChapReceiveFailure(s) ==
    IF s.chap.client # "RESPONSE" THEN s
    ELSE auth_withpeer_fail([s EXCEPT !.chap.responseTimer = FALSE])
ChapInput(s, p) == CASE p.code = "CHALLENGE" -> ChapReceiveChallenge(s, p)
                     [] p.code = "RESPONSE" -> ChapReceiveResponse(s, p)
                     [] p.code = "SUCCESS" -> ChapReceiveSuccess(s)
                     [] p.code = "FAILURE" -> ChapReceiveFailure(s)
                     [] OTHER -> s
ChapChallengeTimeout(s) ==
    CASE s.chap.server \notin {"INITIAL_CHAL", "RECHALLENGE"} -> s
      [] s.chap.server \in {"INITIAL_CHAL", "RECHALLENGE"} /\ s.chap.chal_transmits >= MaxTransmits ->
            auth_peer_fail([s EXCEPT !.chap.server = "BADAUTH"])
      [] OTHER -> ChapSendChallenge(s)
ChapResponseTimeout(s) == IF s.chap.client # "RESPONSE" THEN s ELSE ChapSendResponse(s)
ChapRechallenge(s) == IF s.chap.server # "OPEN" THEN s ELSE Challenge(s, "RECHALLENGE")

------------------------------------------------------------------------------
(* The network protocol. *)
np_up(s) == [s EXCEPT !.np = "up", !.num_np_up = @ + 1,
                      !.connectTimer = IF s.num_np_up = 0 /\ MaxConnect THEN TRUE ELSE @]
np_finished(s) ==
    LET t == [s EXCEPT !.np = "closed", !.num_np_open = @ - 1]
    IN IF t.num_np_open <= 0 THEN lcp_close(t) ELSE t
connect_time_expired(s) == lcp_close(s)

------------------------------------------------------------------------------
(* The link, and what arrives on it.  pppInput drops what is not LCP before*)
(* the phase AUTHENTICATE, and in DEAD; TERMINATE comes after it.          *)
LcpInput(s, code) ==
    CASE code = "CONF" /\ s.lcp = "asking" -> link_established(s)
      [] code = "CONF" /\ s.lcp = "opened" ->
            link_established(Send(link_down(s), "lcp", "CONF", 0, 0))
      [] code = "TERMREQ" /\ s.lcp = "opened" ->
            Send([link_down(s) EXCEPT !.lcp = "stopping"], "lcp", "TERMACK", 0, 0)
      [] code = "TERMREQ" /\ s.lcp # "opened" -> Send(s, "lcp", "TERMACK", 0, 0)
      [] code = "TERMACK" /\ s.lcp \in {"closing", "stopping"} ->
            link_terminated([s EXCEPT !.lcp = "closed"])
      [] OTHER -> s
pppInput(s, p) ==
    CASE p.proto = "lcp" -> LcpInput(s, p.code)
      [] p.proto # "lcp" /\ s.phase \in {"DEAD", "INITIALIZE", "ESTABLISH"} -> s
      [] p.proto = "pap" /\ s.phase \notin {"DEAD", "INITIALIZE", "ESTABLISH"} -> upap_input(s, p)
      [] OTHER -> ChapInput(s, p)

Fresh(e) ==
    [e |-> e, lcp |-> "closed", phase |-> "INITIALIZE", auth_pending |-> {}, num_np_open |-> 0,
     num_np_up |-> 0, np |-> "closed", connectTimer |-> FALSE, out |-> <<>>,
     pap |-> [client |-> "INITIAL", server |-> "INITIAL", id |-> 0, transmits |-> 0,
              timer |-> FALSE, reqtimer |-> FALSE],
     chap |-> [client |-> "INITIAL", server |-> "INITIAL", id |-> 0, chal_id |-> 0, challenge |-> 0,
               chal_transmits |-> 0, resp_id |-> 0, response |-> <<>>,
               challengeTimer |-> FALSE, responseTimer |-> FALSE, againTimer |-> FALSE]]

Init == /\ unit = [e \in Ends |-> Fresh(e)]
        /\ line = [e \in Ends |-> <<>>]
        /\ spent = [open |-> 0, close |-> 0, lose |-> 0, fire |-> 0, again |-> 0, np |-> 0]

Becomes(e, s, rest) ==
    /\ unit' = [unit EXCEPT ![e] = [s EXCEPT !.out = <<>>]]
    /\ line' = [rest EXCEPT ![PeerOf[e]] = @ \o s.out]
Spend(what, bound) == /\ spent[what] < bound
                      /\ spent' = [spent EXCEPT ![what] = @ + 1]

Open(e) == /\ unit[e].lcp = "closed"
           /\ Spend("open", MaxOpen)
           /\ Becomes(e, Send([unit[e] EXCEPT !.lcp = "asking", !.phase = "ESTABLISH"],
                              "lcp", "CONF", 0, 0), line)
Close(e) == /\ unit[e].lcp = "opened"
            /\ Spend("close", MaxClose)
            /\ Becomes(e, lcp_close(unit[e]), line)
Receive(e) == /\ line[e] # <<>>
              /\ Becomes(e, pppInput(unit[e], Head(line[e])), [line EXCEPT ![e] = Tail(@)])
              /\ UNCHANGED spent
Lose(e) == /\ line[e] # <<>>
           /\ Spend("lose", MaxLose)
           /\ line' = [line EXCEPT ![e] = Tail(@)]
           /\ UNCHANGED unit

Quiet == \A e \in Ends : line[e] = <<>>
Timely == \/ Quiet /\ UNCHANGED spent
          \/ ~Quiet /\ Spend("fire", MaxFire)

(* The timers of one end; LCP repeats what is lost (see PppLcp). *)
LcpTimeout(e) == /\ unit[e].lcp \in {"asking", "closing", "stopping"}
                 /\ Quiet /\ UNCHANGED spent
                 /\ Becomes(e, CASE unit[e].lcp = "asking" -> Send(unit[e], "lcp", "CONF", 0, 0)
                                 [] OTHER -> link_terminated([unit[e] EXCEPT !.lcp = "closed"]), line)
PapTimeout(e) == /\ unit[e].pap.timer /\ Timely
                 /\ Becomes(e, upap_timeout([unit[e] EXCEPT !.pap.timer = FALSE]), line)
PapReqTimeout(e) == /\ unit[e].pap.reqtimer /\ Timely
                    /\ Becomes(e, upap_reqtimeout([unit[e] EXCEPT !.pap.reqtimer = FALSE]), line)
ChallengeTimeout(e) ==
    /\ unit[e].chap.challengeTimer /\ Timely
    /\ Becomes(e, ChapChallengeTimeout([unit[e] EXCEPT !.chap.challengeTimer = FALSE]), line)
ResponseTimeout(e) ==
    /\ unit[e].chap.responseTimer /\ Timely
    /\ Becomes(e, ChapResponseTimeout([unit[e] EXCEPT !.chap.responseTimer = FALSE]), line)
Rechallenge(e) ==
    /\ unit[e].chap.againTimer /\ Spend("again", MaxAgain)
    /\ Becomes(e, ChapRechallenge([unit[e] EXCEPT !.chap.againTimer = FALSE]), line)

(* IPCP comes up, and finishes. *)
NpUp(e) == /\ unit[e].np = "open" /\ unit[e].lcp = "opened" /\ Spend("np", MaxNp)
           /\ Becomes(e, np_up(unit[e]), line)
NpFinish(e) == /\ unit[e].np = "up" /\ Spend("np", MaxNp)
               /\ Becomes(e, np_finished(np_down(unit[e])), line)
ConnectTimeout(e) ==
    /\ unit[e].connectTimer /\ Timely
    /\ Becomes(e, connect_time_expired([unit[e] EXCEPT !.connectTimer = FALSE]), line)

Next ==
    \E e \in Ends :
        \/ Open(e) \/ Close(e) \/ Receive(e) \/ Lose(e) \/ LcpTimeout(e)
        \/ PapTimeout(e) \/ PapReqTimeout(e) \/ ChallengeTimeout(e) \/ ResponseTimeout(e)
        \/ Rechallenge(e) \/ NpUp(e) \/ NpFinish(e) \/ ConnectTimeout(e)
Spec == Init /\ [][Next]_vars

------------------------------------------------------------------------------
(* Types: phase, counters, protocol states. *)
TypeOK ==
    \A e \in Ends :
        /\ unit[e].phase \in {"DEAD", "INITIALIZE", "ESTABLISH", "AUTHENTICATE", "NETWORK", "TERMINATE"}
        /\ unit[e].num_np_up \in 0..1 /\ unit[e].num_np_open \in Nat
        /\ unit[e].pap.client \in {"INITIAL", "CLOSED", "PENDING", "AUTHREQ", "OPEN", "BADAUTH"}
        /\ unit[e].chap.server \in {"INITIAL", "CLOSED", "PENDING", "INITIAL_CHAL", "OPEN",
                                    "RECHALLENGE", "BADAUTH"}
        /\ unit[e].chap.chal_transmits \in 0..MaxTransmits

(* An end that demanded CHAP reaches the network phase only with a peer    *)
(* that has the same secret, through lost, repeated and late packets of    *)
(* this and of earlier challenges (ChapReceiveResponse, auth_peer_success).*)
OnlyWithSecret ==
    \A e \in Ends : unit[e].phase = "NETWORK" /\ Demands[e] = "chap" => Secret[PeerOf[e]] = Secret[e]

(* A peer with the same secret is refused only when it has not answered    *)
(* the challenges at all: a response to an earlier one that comes late is  *)
(* dropped and not judged against the new one (ChapReceiveResponse).       *)
NeverRefused ==
    \A e \in Ends : unit[e].chap.server = "BADAUTH" /\ Secret[PeerOf[e]] = Secret[e] =>
        unit[e].chap.chal_transmits >= MaxTransmits

(* A protocol that waits for an answer has its timer scheduled (pap.c,     *)
(* chap.c), as long as the link is up.                                     *)
WaitsWithTimer ==
    \A e \in Ends : unit[e].lcp = "opened" =>
        /\ unit[e].pap.client = "AUTHREQ" => unit[e].pap.timer
        /\ unit[e].pap.server = "LISTEN" => unit[e].pap.reqtimer = ReqTimeout
        /\ unit[e].chap.client = "RESPONSE" => unit[e].chap.responseTimer
        /\ unit[e].chap.server \in {"INITIAL_CHAL", "RECHALLENGE"} => unit[e].chap.challengeTimer

(* auth.c: num_np_open is the "Number of network protocols which we have   *)
(* opened", and there is one.                                              *)
(* Not what the code does: README.md, "Known disagreements". *)
OpenedCounted == \A e \in Ends : unit[e].num_np_open <= 1

(* chap.h: the client state of a link that is down is CHAPCS_INITIAL,      *)
(* "Lower layer down, not opened"; authentication completes, and the       *)
(* network phase begins, only on a link that is up.                        *)
(* Not what the code does: README.md, "Known disagreements". *)
NetworkOnLink == \A e \in Ends : unit[e].phase = "NETWORK" => unit[e].lcp = "opened"

(* A network protocol that comes up is counted, and one that is gone is    *)
(* not (link_down clears both counters).                                   *)
DownIsZero == \A e \in Ends : unit[e].phase = "DEAD" =>
                 unit[e].num_np_open = 0 /\ unit[e].num_np_up = 0 /\ unit[e].np = "closed"

=============================================================================
