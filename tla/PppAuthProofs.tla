---------------------------- MODULE PppAuthProofs ----------------------------
(***************************************************************************)
(* The network phase of a PPP link is not reached with a peer that does    *)
(* not know the secret, for any ends, secrets, demands, timers and losses. *)
(*                                                                         *)
(* What travels on a line is typed by who has sent it: the digest in a     *)
(* response holds the secret of its sender, whichever challenge it         *)
(* answers.  An end that demands CHAP of such a peer keeps that debt in    *)
(* auth_pending from the moment its link is established, through every     *)
(* later link; before that moment it is untouched, and no packet or timer  *)
(* reaches its protocols.                                                  *)
(***************************************************************************)
EXTENDS PppAuth, TLAPS

------------------------------------------------------------------------------
(* Types. *)

Digests(e) == Int \X {Secret[e]} \X Int

(* The packets an end sends. *)
Packets(e) ==
    [proto : {"lcp"}, code : {"CONF", "TERMREQ", "TERMACK"}, id : {0}, body : {0}]
      \cup [proto : {"pap"}, code : {"AUTHREQ"}, id : Int, body : {Secret[e]}]
      \cup [proto : {"pap"}, code : {"AUTHACK", "AUTHNAK"}, id : Int, body : {"none"}]
      \cup [proto : {"chap"}, code : {"CHALLENGE"}, id : Int, body : Int]
      \cup [proto : {"chap"}, code : {"RESPONSE"}, id : Int, body : Digests(e) \cup {<<>>}]
      \cup [proto : {"chap"}, code : {"SUCCESS", "FAILURE"}, id : Int, body : {0}]

Debts == {"chap", "upap"} \X {"peer", "withpeer"}
Phases == {"DEAD", "INITIALIZE", "ESTABLISH", "AUTHENTICATE", "NETWORK", "TERMINATE"}
LcpStates == {"closed", "asking", "opened", "closing", "stopping"}
PapUnits ==
    [client : {"INITIAL", "CLOSED", "PENDING", "AUTHREQ", "OPEN", "BADAUTH"},
     server : {"INITIAL", "CLOSED", "PENDING", "LISTEN", "OPEN", "BADAUTH"},
     id : Int, transmits : Int, timer : BOOLEAN, reqtimer : BOOLEAN]
ChapUnits(e) ==
    [client : {"INITIAL", "CLOSED", "PENDING", "LISTEN", "RESPONSE", "OPEN"},
     server : {"INITIAL", "CLOSED", "PENDING", "INITIAL_CHAL", "OPEN", "RECHALLENGE", "BADAUTH"},
     id : Int, chal_id : Int, challenge : Int, chal_transmits : Int, resp_id : Int,
     response : Digests(e) \cup {<<>>},
     challengeTimer : BOOLEAN, responseTimer : BOOLEAN, againTimer : BOOLEAN]
Units(e) ==
    [e : {e}, lcp : LcpStates, phase : Phases, auth_pending : SUBSET Debts,
     num_np_open : Int, num_np_up : Int, np : {"closed", "open", "up"},
     connectTimer : BOOLEAN, out : Seq(Packets(e)), pap : PapUnits, chap : ChapUnits(e)]

Typed(e) == unit[e] \in Units(e) /\ unit[e].out = <<>> /\ line[e] \in Seq(Packets(PeerOf[e]))

------------------------------------------------------------------------------
(* The inductive invariant. *)

Strange(e) == Demands[e] = "chap" /\ Secret[PeerOf[e]] # Secret[e]
Owed == <<"chap", "peer">>

(* The peer is not authenticated yet. *)
Owes(s) == Owed \in s.auth_pending /\ s.phase # "NETWORK"
(* A unit of the right type; with d, one whose peer is not authenticated. *)
Held(s, e, d) == s \in Units(e) /\ (d => Owes(s))

(* The link has never been up. *)
Untouched(s) ==
    /\ s.phase \in {"INITIALIZE", "ESTABLISH"} /\ s.lcp \in {"closed", "asking"}
    /\ s.np = "closed" /\ ~s.connectTimer
    /\ ~s.pap.timer /\ ~s.pap.reqtimer
    /\ ~s.chap.challengeTimer /\ ~s.chap.responseTimer /\ ~s.chap.againTimer

AuthInv ==
    /\ unit = [e \in Ends |-> unit[e]]
    /\ line = [e \in Ends |-> line[e]]
    /\ \A e \in Ends : Typed(e) /\ (Strange(e) => Owes(unit[e]) \/ Untouched(unit[e]))

------------------------------------------------------------------------------
(* Taking the link down keeps the debt. *)

LEMMA SendHeld ==
    ASSUME NEW e, NEW s, NEW d \in BOOLEAN, Held(s, e, d),
           NEW proto, NEW code, NEW id, NEW body,
           [proto |-> proto, code |-> code, id |-> id, body |-> body] \in Packets(e)
    PROVE  Held(Send(s, proto, code, id, body), e, d)
<1> DEFINE p == [proto |-> proto, code |-> code, id |-> id, body |-> body]
           q == Append(s.out, p)
<1>1. s.out \in Seq(Packets(e)) BY DEF Held, Units
<1>2. q \in Seq(Packets(e)) BY <1>1
<1>3. Send(s, proto, code, id, body) = [s EXCEPT !.out = q] BY DEF Send
<1> HIDE DEF q
<1>4. QED BY <1>2, <1>3 DEF Held, Owes, Units

LEMMA LcpPacket ==
    ASSUME NEW e, NEW code \in {"CONF", "TERMREQ", "TERMACK"}
    PROVE  [proto |-> "lcp", code |-> code, id |-> 0, body |-> 0] \in Packets(e)
  BY DEF Packets

LEMMA PapDownHeld ==
    ASSUME NEW e, NEW s, NEW d \in BOOLEAN, Held(s, e, d)
    PROVE  Held(upap_lowerdown(s), e, d)
  BY DEF Held, Owes, Units, PapUnits, upap_lowerdown

LEMMA ChapSet ==
    ASSUME NEW e, NEW s, NEW d \in BOOLEAN, Held(s, e, d), NEW c \in ChapUnits(e)
    PROVE  Held([s EXCEPT !.chap = c], e, d)
  BY DEF Held, Owes, Units

LEMMA ChapDownHeld ==
    ASSUME NEW e, NEW s, NEW d \in BOOLEAN, Held(s, e, d)
    PROVE  Held(ChapLowerDown(s), e, d)
<1> DEFINE c == [s.chap EXCEPT !.challengeTimer = IF s.chap.server \in {"INITIAL_CHAL", "RECHALLENGE"} THEN FALSE ELSE @,
              !.againTimer = IF s.chap.server = "OPEN" THEN FALSE ELSE @,
              !.responseTimer = IF s.chap.client = "RESPONSE" THEN FALSE ELSE @,
              !.client = "INITIAL", !.server = "INITIAL"]
<1>1. s.chap \in ChapUnits(e) BY DEF Held, Units
<1>2. c \in ChapUnits(e) BY <1>1 DEF ChapUnits
<1>3. ChapLowerDown(s) = [s EXCEPT !.chap = c] BY <1>1 DEF ChapLowerDown, ChapUnits, Held, Units
<1>4. QED BY <1>2, <1>3, ChapSet

LEMMA IpcpDownHeld ==
    ASSUME NEW e, NEW s, NEW d \in BOOLEAN, Held(s, e, d)
    PROVE  Held(IpcpDown(s), e, d)
<1>1. Held(np_down(s), e, d) BY DEF Held, Owes, Units, np_down
<1>2. ASSUME NEW t, Held(t, e, d) PROVE Held([t EXCEPT !.np = "closed"], e, d)
  BY <1>2 DEF Held, Owes, Units
<1>3. QED BY <1>1, <1>2 DEF IpcpDown

LEMMA PhaseHeld ==
    ASSUME NEW e, NEW s, NEW d \in BOOLEAN, Held(s, e, d), NEW ph \in Phases, ph # "NETWORK"
    PROVE  Held([s EXCEPT !.phase = ph], e, d)
  BY DEF Held, Owes, Units

LEMMA LcpHeld ==
    ASSUME NEW e, NEW s, NEW d \in BOOLEAN, Held(s, e, d), NEW l \in LcpStates
    PROVE  Held([s EXCEPT !.lcp = l], e, d)
  BY DEF Held, Owes, Units

LEMMA LinkDownHeld ==
    ASSUME NEW e, NEW s, NEW d \in BOOLEAN, Held(s, e, d)
    PROVE  Held(link_down(s), e, d)
<1> DEFINE t == IpcpDown(ChapLowerDown(upap_lowerdown(s)))
<1>1. Held(t, e, d) BY PapDownHeld, ChapDownHeld, IpcpDownHeld
<1> DEFINE ph == IF t.phase = "DEAD" THEN "DEAD" ELSE "TERMINATE"
<1>2. PICK z \in Int : z = 0 OBVIOUS
<1>3. link_down(s) = [t EXCEPT !.num_np_open = z, !.num_np_up = z, !.phase = ph] BY <1>2 DEF link_down
<1>4. ph \in Phases /\ ph # "NETWORK" BY DEF Phases
<1> HIDE DEF t, ph
<1>5. [t EXCEPT !.num_np_open = z, !.num_np_up = z, !.phase = ph] \in Units(e)
  BY <1>1, <1>4 DEF Held, Units
<1>6. QED BY <1>1, <1>3, <1>4, <1>5 DEF Held, Owes, Units

LEMMA TerminatedHeld ==
    ASSUME NEW e, NEW s, NEW d \in BOOLEAN, Held(s, e, d)
    PROVE  Held(link_terminated(s), e, d)
  BY PhaseHeld DEF link_terminated, Phases

LEMMA LcpCloseHeld ==
    ASSUME NEW e, NEW s, NEW d \in BOOLEAN, Held(s, e, d)
    PROVE  Held(lcp_close(s), e, d)
<1>1. CASE s.lcp = "opened"
  <2>1. Held([link_down(s) EXCEPT !.lcp = "closing"], e, d) BY LinkDownHeld, LcpHeld DEF LcpStates
  <2>2. Held(Send([link_down(s) EXCEPT !.lcp = "closing"], "lcp", "TERMREQ", 0, 0), e, d)
    BY <2>1, SendHeld, LcpPacket
  <2>3. QED BY <1>1, <2>2 DEF lcp_close
<1>2. CASE s.lcp = "asking"
  <2> DEFINE t == [s EXCEPT !.lcp = "closing", !.phase = "TERMINATE"]
  <2>1. Held(t, e, d) BY DEF Held, Owes, Units, LcpStates, Phases
  <2>2. Held(Send(t, "lcp", "TERMREQ", 0, 0), e, d) BY <2>1, SendHeld, LcpPacket
  <2>3. QED BY <1>2, <2>2 DEF lcp_close
<1>3. CASE s.lcp \notin {"opened", "asking"} BY <1>3 DEF lcp_close
<1>4. QED BY <1>1, <1>2, <1>3

------------------------------------------------------------------------------
(* The network phase is not reached while the peer is owed. *)

LEMMA NetworkHeld ==
    ASSUME NEW e, NEW s, NEW d \in BOOLEAN, Held(s, e, d), ~d
    PROVE  Held(network_phase(s), e, d)
<1>1. s.num_np_open + 1 \in Int BY DEF Held, Units
<1>2. "NETWORK" \in Phases BY DEF Phases
<1>3. network_phase(s) = [s EXCEPT !.phase = "NETWORK", !.num_np_open = s.num_np_open + 1,
                                   !.np = IF s.np = "closed" THEN "open" ELSE s.np]
  BY DEF network_phase, Held, Units
<1>4. QED BY <1>1, <1>2, <1>3 DEF Held, Units

LEMMA DoneHeld ==
    ASSUME NEW e, NEW s, NEW d \in BOOLEAN, Held(s, e, d), NEW what, d => what # Owed
    PROVE  Held(Done(s, what), e, d)
<1> DEFINE t == [s EXCEPT !.auth_pending = @ \ {what}]
<1>1. s.auth_pending \ {what} \in SUBSET Debts BY DEF Held, Units
<1>2. Held(t, e, d) BY <1>1 DEF Held, Owes, Units
<1>3. Done(s, what) = IF t.auth_pending = {} THEN network_phase(t) ELSE t BY DEF Done
<1>4. d => t.auth_pending # {} BY <1>2 DEF Held, Owes
<1> HIDE DEF t
<1>5. QED BY <1>2, <1>3, <1>4, NetworkHeld

------------------------------------------------------------------------------
(* PAP. *)

LEMMA PapSet ==
    ASSUME NEW e, NEW s, NEW d \in BOOLEAN, Held(s, e, d), NEW p \in PapUnits
    PROVE  Held([s EXCEPT !.pap = p], e, d)
  BY DEF Held, Owes, Units

LEMMA PapPacket ==
    ASSUME NEW e, NEW id \in Int, NEW code \in {"AUTHACK", "AUTHNAK"}
    PROVE  /\ [proto |-> "pap", code |-> "AUTHREQ", id |-> id, body |-> Secret[e]] \in Packets(e)
           /\ [proto |-> "pap", code |-> code, id |-> id, body |-> "none"] \in Packets(e)
  BY DEF Packets

LEMMA SauthreqHeld ==
    ASSUME NEW e, NEW s, NEW d \in BOOLEAN, Held(s, e, d)
    PROVE  Held(upap_sauthreq(s), e, d)
<1> DEFINE t == Send(s, "pap", "AUTHREQ", s.pap.id + 1, Secret[s.e])
<1>1. s.e = e /\ s.pap.id + 1 \in Int BY DEF Held, Units, PapUnits
<1>2. Held(t, e, d) BY <1>1, SendHeld, PapPacket
<1>3. upap_sauthreq(s) = [t EXCEPT !.pap.id = @ + 1, !.pap.transmits = @ + 1,
                                  !.pap.client = "AUTHREQ", !.pap.timer = TRUE]
  BY DEF upap_sauthreq
<1> HIDE DEF t
<1>4. t.pap \in PapUnits BY <1>2 DEF Held, Units
<1>5. PICK i \in Int : i = t.pap.id + 1 BY <1>4 DEF PapUnits
<1>6. PICK j \in Int : j = t.pap.transmits + 1 BY <1>4 DEF PapUnits
<1>7. [t.pap EXCEPT !.id = i, !.transmits = j, !.client = "AUTHREQ", !.timer = TRUE] \in PapUnits
  BY <1>4 DEF PapUnits
<1>8. Held([t EXCEPT !.pap = [t.pap EXCEPT !.id = i, !.transmits = j, !.client = "AUTHREQ",
                                           !.timer = TRUE]], e, d) BY <1>2, <1>7, PapSet
<1>9. upap_sauthreq(s) = [t EXCEPT !.pap = [t.pap EXCEPT !.id = i, !.transmits = j,
                                            !.client = "AUTHREQ", !.timer = TRUE]]
  BY <1>2, <1>3, <1>4, <1>5, <1>6 DEF Held, Units, PapUnits
<1>10. QED BY <1>8, <1>9

LEMMA AuthwithpeerHeld ==
    ASSUME NEW e, NEW s, NEW d \in BOOLEAN, Held(s, e, d)
    PROVE  Held(upap_authwithpeer(s), e, d)
<1>1. Held([s EXCEPT !.pap.transmits = 0, !.pap.client = "PENDING"], e, d)
  <2>1. s.pap \in PapUnits BY DEF Held, Units
  <2>2. PICK z \in Int : z = 0 OBVIOUS
  <2>3. [s.pap EXCEPT !.transmits = z, !.client = "PENDING"] \in PapUnits BY <2>1 DEF PapUnits
  <2>4. [s EXCEPT !.pap.transmits = z, !.pap.client = "PENDING"]
          = [s EXCEPT !.pap = [s.pap EXCEPT !.transmits = z, !.client = "PENDING"]]
    BY <2>1 DEF Held, Units, PapUnits
  <2>5. QED BY <2>2, <2>3, <2>4, PapSet
<1>2. Held([s EXCEPT !.pap.transmits = 0], e, d) BY DEF Held, Owes, Units, PapUnits
<1>3. QED BY <1>1, <1>2, SauthreqHeld DEF upap_authwithpeer

LEMMA AuthpeerHeld ==
    ASSUME NEW e, NEW s, NEW d \in BOOLEAN, Held(s, e, d)
    PROVE  Held(upap_authpeer(s), e, d)
  BY SettingsAssumption DEF Held, Owes, Units, PapUnits, upap_authpeer

LEMMA PapServerHeld ==
    ASSUME NEW e, NEW s, NEW d \in BOOLEAN, Held(s, e, d)
    PROVE  /\ Held([s EXCEPT !.pap.server = "CLOSED"], e, d)
           /\ Held([s EXCEPT !.pap.server = "LISTEN", !.pap.reqtimer = ReqTimeout], e, d)
  BY SettingsAssumption DEF Held, Owes, Units, PapUnits

LEMMA PapUpHeld ==
    ASSUME NEW e, NEW s, NEW d \in BOOLEAN, Held(s, e, d)
    PROVE  Held(upap_lowerup(s), e, d)
<1> DEFINE c == CASE s.pap.client = "INITIAL" -> [s EXCEPT !.pap.client = "CLOSED"]
                  [] s.pap.client = "PENDING" -> upap_sauthreq(s)
                  [] OTHER -> s
<1>1. Held([s EXCEPT !.pap.client = "CLOSED"], e, d) BY DEF Held, Owes, Units, PapUnits
<1>2. Held(c, e, d) BY <1>1, SauthreqHeld
<1>3. upap_lowerup(s) =
        CASE s.pap.server = "INITIAL" -> [c EXCEPT !.pap.server = "CLOSED"]
          [] s.pap.server = "PENDING" -> [c EXCEPT !.pap.server = "LISTEN", !.pap.reqtimer = ReqTimeout]
          [] OTHER -> c
  BY DEF upap_lowerup
<1> HIDE DEF c
<1>4. /\ Held([c EXCEPT !.pap.server = "CLOSED"], e, d)
      /\ Held([c EXCEPT !.pap.server = "LISTEN", !.pap.reqtimer = ReqTimeout], e, d)
  BY <1>2, PapServerHeld
<1>5. QED BY <1>2, <1>3, <1>4

(* What arrives is a packet of the peer. *)
LEMMA PacketId ==
    ASSUME NEW f, NEW p \in Packets(f), p.proto # "lcp"
    PROVE  p.id \in Int
  BY DEF Packets

PapClientTo(s, c) == [s EXCEPT !.pap.client = c]
PapServerTo(s, c) == [s EXCEPT !.pap.server = c]
PapTimerTo(s, b) == [s EXCEPT !.pap.timer = b]
PapReqTimerTo(s, b) == [s EXCEPT !.pap.reqtimer = b]

LEMMA PapField ==
    ASSUME NEW e, NEW s, NEW d \in BOOLEAN, Held(s, e, d)
    PROVE  /\ \A b \in BOOLEAN : Held(PapTimerTo(s, b), e, d) /\ Held(PapReqTimerTo(s, b), e, d)
           /\ Held(PapClientTo(s, "OPEN"), e, d) /\ Held(PapClientTo(s, "BADAUTH"), e, d)
           /\ Held(PapServerTo(s, "OPEN"), e, d) /\ Held(PapServerTo(s, "BADAUTH"), e, d)
<1>1. \A b \in BOOLEAN : Held(PapTimerTo(s, b), e, d) BY DEF Held, Owes, Units, PapUnits, PapTimerTo
<1>2. \A b \in BOOLEAN : Held(PapReqTimerTo(s, b), e, d)
  BY DEF Held, Owes, Units, PapUnits, PapReqTimerTo
<1>3. Held(PapClientTo(s, "OPEN"), e, d) /\ Held(PapClientTo(s, "BADAUTH"), e, d)
  BY DEF Held, Owes, Units, PapUnits, PapClientTo
<1>4. Held(PapServerTo(s, "OPEN"), e, d) /\ Held(PapServerTo(s, "BADAUTH"), e, d)
  BY DEF Held, Owes, Units, PapUnits, PapServerTo
<1>5. QED BY <1>1, <1>2, <1>3, <1>4

LEMMA RauthreqHeld ==
    ASSUME NEW e, NEW s, NEW d \in BOOLEAN, Held(s, e, d),
           NEW f, NEW p \in Packets(f), p.proto # "lcp"
    PROVE  Held(upap_rauthreq(s, p), e, d)
<1>1. ASSUME NEW t, Held(t, e, d), NEW c \in {"AUTHACK", "AUTHNAK"}
      PROVE  Held(upap_sresp(t, c, p.id), e, d)
  BY <1>1, PacketId, PapPacket, SendHeld DEF upap_sresp
<1>2. CASE s.pap.server = "LISTEN"
  <2> DEFINE u == PapServerTo(upap_sresp(s, "AUTHACK", p.id), "OPEN")
             v == Done(u, <<"upap", "peer">>)
  <2>1. Held(u, e, d) BY <1>1, PapField
  <2>2. Held(v, e, d)
    <3> HIDE DEF u
    <3>1. QED BY <2>1, DoneHeld DEF Owed
  <2>3. upap_rauthreq(s, p) = PapReqTimerTo(v, FALSE)
    BY <1>2 DEF upap_rauthreq, check_passwd, auth_peer_success, PapServerTo, PapReqTimerTo
  <2> HIDE DEF v
  <2>4. QED BY <2>2, <2>3, PapField
<1>3. CASE s.pap.server # "LISTEN" BY <1>1, <1>3 DEF upap_rauthreq
<1>4. QED BY <1>2, <1>3

LEMMA PapInputHeld ==
    ASSUME NEW e, NEW s, NEW d \in BOOLEAN, Held(s, e, d),
           NEW f, NEW p \in Packets(f), p.proto # "lcp"
    PROVE  Held(upap_input(s, p), e, d)
<1>1. Held(upap_rauthack(s), e, d)
  <2> DEFINE t == PapClientTo(PapTimerTo(s, FALSE), "OPEN")
  <2>1. Held(t, e, d) BY PapField
  <2>2. upap_rauthack(s) = IF s.pap.client # "AUTHREQ" THEN s ELSE Done(t, <<"upap", "withpeer">>)
    BY DEF upap_rauthack, auth_withpeer_success, PapClientTo, PapTimerTo, Held, Units, PapUnits
  <2> HIDE DEF t
  <2>3. QED BY <2>1, <2>2, DoneHeld DEF Owed
<1>2. Held(upap_rauthnak(s), e, d)
  <2>1. upap_rauthnak(s) = IF s.pap.client # "AUTHREQ" THEN s ELSE lcp_close(PapClientTo(s, "BADAUTH"))
    BY DEF upap_rauthnak, auth_withpeer_fail, PapClientTo
  <2>2. QED BY <2>1, PapField, LcpCloseHeld
<1>3. QED BY <1>1, <1>2, RauthreqHeld DEF upap_input

LEMMA PapTimeoutHeld ==
    ASSUME NEW e, NEW s, NEW d \in BOOLEAN, Held(s, e, d)
    PROVE  Held(upap_timeout(s), e, d) /\ Held(upap_reqtimeout(s), e, d)
<1>1. Held(lcp_close(PapClientTo(s, "BADAUTH")), e, d) BY PapField, LcpCloseHeld
<1>2. Held(PapServerTo(lcp_close(s), "BADAUTH"), e, d) BY PapField, LcpCloseHeld
<1>3. upap_timeout(s) \in {s, lcp_close(PapClientTo(s, "BADAUTH")), upap_sauthreq(s)}
  BY DEF upap_timeout, auth_withpeer_fail, PapClientTo
<1>4. upap_reqtimeout(s) \in {s, PapServerTo(lcp_close(s), "BADAUTH")}
  BY DEF upap_reqtimeout, auth_peer_fail, PapServerTo
<1>5. QED BY <1>1, <1>2, <1>3, <1>4, SauthreqHeld

------------------------------------------------------------------------------
(* CHAP. *)

LEMMA ChapPacket ==
    ASSUME NEW e, NEW id \in Int, NEW c \in Int, NEW r \in Digests(e) \cup {<<>>},
           NEW code \in {"SUCCESS", "FAILURE"}
    PROVE  /\ [proto |-> "chap", code |-> "CHALLENGE", id |-> id, body |-> c] \in Packets(e)
           /\ [proto |-> "chap", code |-> "RESPONSE", id |-> id, body |-> r] \in Packets(e)
           /\ [proto |-> "chap", code |-> code, id |-> id, body |-> 0] \in Packets(e)
  BY DEF Packets

LEMMA ChapType ==
    ASSUME NEW e, NEW s, NEW d \in BOOLEAN, Held(s, e, d)
    PROVE  s.e = e /\ s.chap \in ChapUnits(e)
  BY DEF Held, Units

(* The updates of one field of the state of CHAP. *)
ClientTo(s, c) == [s EXCEPT !.chap.client = c]
ServerTo(s, c) == [s EXCEPT !.chap.server = c]
ChallengeTimerTo(s, b) == [s EXCEPT !.chap.challengeTimer = b]
ResponseTimerTo(s, b) == [s EXCEPT !.chap.responseTimer = b]
AgainTimerTo(s, b) == [s EXCEPT !.chap.againTimer = b]

LEMMA ChapField ==
    ASSUME NEW e, NEW s, NEW d \in BOOLEAN, Held(s, e, d)
    PROVE  /\ \A b \in BOOLEAN : /\ Held(ChallengeTimerTo(s, b), e, d)
                                /\ Held(ResponseTimerTo(s, b), e, d)
                                /\ Held(AgainTimerTo(s, b), e, d)
           /\ \A c \in {"CLOSED", "PENDING", "LISTEN", "RESPONSE", "OPEN"} : Held(ClientTo(s, c), e, d)
           /\ \A c \in {"CLOSED", "PENDING", "INITIAL_CHAL", "OPEN", "RECHALLENGE", "BADAUTH"} :
                 Held(ServerTo(s, c), e, d)
<1> DEFINE q == s.chap
<1>1. q \in ChapUnits(e) BY ChapType
<1>2. ASSUME NEW b \in BOOLEAN
      PROVE  /\ Held(ChallengeTimerTo(s, b), e, d)
             /\ Held(ResponseTimerTo(s, b), e, d)
             /\ Held(AgainTimerTo(s, b), e, d)
  <2>1. /\ [q EXCEPT !.challengeTimer = b] \in ChapUnits(e)
        /\ [q EXCEPT !.responseTimer = b] \in ChapUnits(e)
        /\ [q EXCEPT !.againTimer = b] \in ChapUnits(e)
    <3> HIDE DEF q
    <3>1. QED BY <1>1 DEF ChapUnits
  <2>2. QED BY <2>1, ChapSet DEF ChallengeTimerTo, ResponseTimerTo, AgainTimerTo
<1>3. ASSUME NEW c \in {"CLOSED", "PENDING", "LISTEN", "RESPONSE", "OPEN"}
      PROVE  Held(ClientTo(s, c), e, d)
  <2>1. [q EXCEPT !.client = c] \in ChapUnits(e)
    <3> HIDE DEF q
    <3>1. QED BY <1>1 DEF ChapUnits
  <2>2. QED BY <2>1, ChapSet DEF ClientTo
<1>4. ASSUME NEW c \in {"CLOSED", "PENDING", "INITIAL_CHAL", "OPEN", "RECHALLENGE", "BADAUTH"}
      PROVE  Held(ServerTo(s, c), e, d)
  <2>1. [q EXCEPT !.server = c] \in ChapUnits(e)
    <3> HIDE DEF q
    <3>1. QED BY <1>1 DEF ChapUnits
  <2>2. QED BY <2>1, ChapSet DEF ServerTo
<1>5. QED BY <1>2, <1>3, <1>4

LEMMA GenChallengeHeld ==
    ASSUME NEW e, NEW s, NEW d \in BOOLEAN, Held(s, e, d)
    PROVE  Held(ChapGenChallenge(s), e, d)
<1> DEFINE c == s.chap
<1>1. c \in ChapUnits(e) BY ChapType
<1>2. PICK i \in Int : i = c.id + 1 BY <1>1 DEF ChapUnits
<1>3. PICK j \in Int : j = c.challenge + 1 BY <1>1 DEF ChapUnits
<1>4. PICK z \in Int : z = 0 OBVIOUS
<1> DEFINE r == [c EXCEPT !.id = i, !.chal_id = i, !.challenge = j, !.chal_transmits = z]
<1>5. ChapGenChallenge(s) = [s EXCEPT !.chap = r]
  BY <1>1, <1>2, <1>3, <1>4 DEF ChapGenChallenge, Held, Units, ChapUnits
<1>6. r \in ChapUnits(e)
  <2> HIDE DEF c
  <2>1. QED BY <1>1 DEF ChapUnits
<1> HIDE DEF r
<1>7. QED BY <1>5, <1>6, ChapSet

LEMMA SendChallengeHeld ==
    ASSUME NEW e, NEW s, NEW d \in BOOLEAN, Held(s, e, d)
    PROVE  Held(ChapSendChallenge(s), e, d)
<1> DEFINE t == Send(s, "chap", "CHALLENGE", s.chap.chal_id, s.chap.challenge)
<1>1. s.chap.chal_id \in Int /\ s.chap.challenge \in Int BY ChapType DEF ChapUnits
<1>2. Held(t, e, d)
  <2>1. [proto |-> "chap", code |-> "CHALLENGE", id |-> s.chap.chal_id, body |-> s.chap.challenge]
          \in Packets(e)
    BY <1>1 DEF Packets
  <2>2. QED BY <2>1, SendHeld
<1>3. ChapSendChallenge(s) = [t EXCEPT !.chap.challengeTimer = TRUE, !.chap.chal_transmits = @ + 1]
  BY DEF ChapSendChallenge
<1> HIDE DEF t
<1> DEFINE c == t.chap
<1>4. c \in ChapUnits(e) BY <1>2, ChapType
<1>5. PICK n \in Int : n = c.chal_transmits + 1 BY <1>4 DEF ChapUnits
<1> DEFINE r == [c EXCEPT !.challengeTimer = TRUE, !.chal_transmits = n]
<1>6. ChapSendChallenge(s) = [t EXCEPT !.chap = r]
  BY <1>2, <1>3, <1>4, <1>5 DEF Held, Units, ChapUnits
<1>7. r \in ChapUnits(e)
  <2> HIDE DEF c
  <2>1. QED BY <1>4 DEF ChapUnits
<1> HIDE DEF r
<1>8. QED BY <1>2, <1>6, <1>7, ChapSet

LEMMA ChallengeHeld ==
    ASSUME NEW e, NEW s, NEW d \in BOOLEAN, Held(s, e, d),
           NEW x \in {"INITIAL_CHAL", "RECHALLENGE"}
    PROVE  Held(Challenge(s, x), e, d)
<1>1. Held(ChapSendChallenge(ChapGenChallenge(s)), e, d) BY GenChallengeHeld, SendChallengeHeld
<1>2. Challenge(s, x) = ServerTo(ChapSendChallenge(ChapGenChallenge(s)), x) BY DEF Challenge, ServerTo
<1>3. QED BY <1>1, <1>2, ChapField

LEMMA ChapAuthPeerHeld ==
    ASSUME NEW e, NEW s, NEW d \in BOOLEAN, Held(s, e, d)
    PROVE  Held(ChapAuthPeer(s), e, d)
<1>1. ChapAuthPeer(s) \in {ServerTo(s, "PENDING"), Challenge(s, "INITIAL_CHAL")}
  BY DEF ChapAuthPeer, ServerTo
<1>2. QED BY <1>1, ChapField, ChallengeHeld

LEMMA ChapAuthWithPeerHeld ==
    ASSUME NEW e, NEW s, NEW d \in BOOLEAN, Held(s, e, d)
    PROVE  Held(ChapAuthWithPeer(s), e, d)
<1>1. ChapAuthWithPeer(s) \in {ClientTo(s, "PENDING"), ClientTo(s, "LISTEN")}
  BY DEF ChapAuthWithPeer, ClientTo
<1>2. QED BY <1>1, ChapField

LEMMA ChapUpHeld ==
    ASSUME NEW e, NEW s, NEW d \in BOOLEAN, Held(s, e, d)
    PROVE  Held(ChapLowerUp(s), e, d)
<1> DEFINE n == CASE s.chap.client = "INITIAL" -> "CLOSED" [] s.chap.client = "PENDING" -> "LISTEN"
                  [] OTHER -> s.chap.client
           c == [s EXCEPT !.chap.client = n]
<1>1. c \in {s, ClientTo(s, "CLOSED"), ClientTo(s, "LISTEN")}
  BY SMTT(30) DEF Held, Units, ChapUnits, ClientTo
<1>2. ChapLowerUp(s) \in {ServerTo(c, "CLOSED"), Challenge(c, "INITIAL_CHAL"), c}
  BY DEF ChapLowerUp, ServerTo
<1> HIDE DEF c
<1>3. Held(c, e, d) BY <1>1, ChapField
<1>4. QED BY <1>2, <1>3, ChapField, ChallengeHeld

LEMMA SendResponseHeld ==
    ASSUME NEW e, NEW s, NEW d \in BOOLEAN, Held(s, e, d)
    PROVE  Held(ChapSendResponse(s), e, d)
<1> DEFINE t == Send(s, "chap", "RESPONSE", s.chap.resp_id, s.chap.response)
<1>1. s.chap.resp_id \in Int /\ s.chap.response \in Digests(e) \cup {<<>>}
  BY ChapType DEF ChapUnits
<1>2. [proto |-> "chap", code |-> "RESPONSE", id |-> s.chap.resp_id, body |-> s.chap.response]
        \in Packets(e)
  BY <1>1 DEF Packets
<1>3. Held(t, e, d) BY <1>2, SendHeld
<1>4. ChapSendResponse(s) = [t EXCEPT !.chap.client = "RESPONSE", !.chap.responseTimer = TRUE]
  BY DEF ChapSendResponse
<1> HIDE DEF t
<1>5. ChapSendResponse(s) = ResponseTimerTo(ClientTo(t, "RESPONSE"), TRUE)
  BY <1>3, <1>4 DEF Held, Units, ChapUnits, ClientTo, ResponseTimerTo
<1>6. QED BY <1>3, <1>5, ChapField

LEMMA ReceiveChallengeHeld ==
    ASSUME NEW e, NEW s, NEW d \in BOOLEAN, Held(s, e, d),
           NEW f, NEW p \in Packets(f), p.proto = "chap", p.code = "CHALLENGE"
    PROVE  Held(ChapReceiveChallenge(s, p), e, d)
<1>1. p.id \in Int /\ p.body \in Int BY DEF Packets
<1> DEFINE r == <<p.id, get_secret(s), p.body>>
           c == [s.chap EXCEPT !.resp_id = p.id, !.response = r]
           t == [s EXCEPT !.chap.resp_id = p.id, !.chap.response = r]
<1>2. r \in Digests(e) \cup {<<>>} BY <1>1, ChapType DEF Digests, get_secret
<1>3. t = [s EXCEPT !.chap = c]
  <2> HIDE DEF r
  <2>1. QED BY DEF Held, Units, ChapUnits
<1>4. c \in ChapUnits(e)
  <2> DEFINE q == s.chap
             i == p.id
  <2>1. q \in ChapUnits(e) /\ i \in Int BY <1>1, ChapType
  <2> HIDE DEF r, q, i
  <2>2. [q EXCEPT !.resp_id = i, !.response = r] \in ChapUnits(e) BY <2>1, <1>2 DEF ChapUnits
  <2>3. QED BY <2>2 DEF q, i
<1>5. Held(t, e, d)
  <2> HIDE DEF c, t
  <2>1. QED BY <1>3, <1>4, ChapSet
<1>6. QED BY <1>5, SendResponseHeld DEF ChapReceiveChallenge

LEMMA SendStatusHeld ==
    ASSUME NEW e, NEW s, NEW d \in BOOLEAN, Held(s, e, d),
           NEW code \in {"SUCCESS", "FAILURE"}
    PROVE  Held(ChapSendStatus(s, code), e, d)
<1>1. s.chap.chal_id \in Int BY ChapType DEF ChapUnits
<1>2. [proto |-> "chap", code |-> code, id |-> s.chap.chal_id, body |-> 0] \in Packets(e)
  BY <1>1 DEF Packets
<1>3. QED BY <1>2, SendHeld DEF ChapSendStatus

(* A response of a peer with another secret is not the expected one. *)
LEMMA NotExpected ==
    ASSUME NEW e, NEW s, NEW d \in BOOLEAN, Held(s, e, d),
           NEW p \in Packets(PeerOf[e]), p.proto = "chap", p.code = "RESPONSE", Strange(e)
    PROVE  ~Expected(s, p)
<1>1. p.body \in Digests(PeerOf[e]) \cup {<<>>} BY DEF Packets
<1>2. SUFFICES ASSUME p.body = <<s.chap.chal_id, Secret[e], s.chap.challenge>> PROVE FALSE
  BY ChapType DEF Expected, get_secret
<1>3. p.body # <<>> BY <1>2
<1>4. p.body[2] = Secret[PeerOf[e]] BY <1>1, <1>3 DEF Digests
<1>5. QED BY <1>2, <1>4 DEF Strange

LEMMA JudgeHeld ==
    ASSUME NEW e, NEW s, NEW d \in BOOLEAN, Held(s, e, d), NEW good \in BOOLEAN, d => ~good
    PROVE  Held(Judge(s, good), e, d)
<1>1. CASE ~good
  <2>1. Judge(s, good) = lcp_close(ServerTo(s, "BADAUTH"))
    BY <1>1 DEF Judge, auth_peer_fail, ServerTo
  <2>2. QED BY <2>1, ChapField, LcpCloseHeld
<1>2. CASE good
  <2> DEFINE u == ServerTo(s, "OPEN")
             v == IF s.chap.server = "INITIAL_CHAL" THEN Done(u, <<"chap", "peer">>) ELSE u
  <2>1. Held(u, e, d) BY ChapField
  <2>2. Held(v, e, d)
    <3> HIDE DEF u
    <3>1. QED BY <1>2, <2>1, DoneHeld
  <2>3. Judge(s, good) = AgainTimerTo(v, ChalInterval)
    BY <1>2 DEF Judge, auth_peer_success, ServerTo, AgainTimerTo
  <2> HIDE DEF v
  <2>4. QED BY <2>2, <2>3, ChapField, SettingsAssumption
<1>3. QED BY <1>1, <1>2

LEMMA CheckedHeld ==
    ASSUME NEW e, NEW s, NEW d \in BOOLEAN, Held(s, e, d), NEW good \in BOOLEAN, d => ~good
    PROVE  Held(Checked(s, good), e, d)
<1> DEFINE t == ChallengeTimerTo(s, FALSE)
<1>1. Held(t, e, d) BY ChapField
<1>2. Status(good) \in {"SUCCESS", "FAILURE"} BY DEF Status
<1>3. Checked(s, good) = Judge(ChapSendStatus(t, Status(good)), good) BY DEF Checked, ChallengeTimerTo
<1> HIDE DEF t
<1>4. Held(ChapSendStatus(t, Status(good)), e, d) BY <1>1, <1>2, SendStatusHeld
<1>5. QED BY <1>3, <1>4, JudgeHeld

LEMMA ReceiveResponseHeld ==
    ASSUME NEW e, NEW s, NEW d \in BOOLEAN, Held(s, e, d),
           NEW p \in Packets(PeerOf[e]), p.proto = "chap", p.code = "RESPONSE", d => Strange(e)
    PROVE  Held(ChapReceiveResponse(s, p), e, d)
<1>1. d => ~Expected(s, p) BY NotExpected
<1>2. Expected(s, p) \in BOOLEAN BY DEF Expected
<1>3. Held(Checked(s, Expected(s, p)), e, d) BY <1>1, <1>2, CheckedHeld
<1>4. Held(ChapSendStatus(s, "SUCCESS"), e, d) /\ Held(ChapSendStatus(s, "FAILURE"), e, d)
  BY SendStatusHeld
<1>5. QED BY <1>3, <1>4 DEF ChapReceiveResponse

LEMMA ChapInputHeld ==
    ASSUME NEW e, NEW s, NEW d \in BOOLEAN, Held(s, e, d),
           NEW p \in Packets(PeerOf[e]), p.proto = "chap", d => Strange(e)
    PROVE  Held(ChapInput(s, p), e, d)
<1>1. Held(ChapReceiveSuccess(s), e, d)
  <2> DEFINE t == ClientTo(ResponseTimerTo(s, FALSE), "OPEN")
  <2>1. Held(t, e, d) BY ChapField
  <2>2. ChapReceiveSuccess(s) = IF s.chap.client # "RESPONSE" THEN s ELSE Done(t, <<"chap", "withpeer">>)
    BY DEF ChapReceiveSuccess, auth_withpeer_success, ClientTo, ResponseTimerTo, Held, Units, ChapUnits
  <2> HIDE DEF t
  <2>3. QED BY <2>1, <2>2, DoneHeld DEF Owed
<1>2. Held(ChapReceiveFailure(s), e, d)
  <2>1. ChapReceiveFailure(s) \in {s, lcp_close(ResponseTimerTo(s, FALSE))}
    BY DEF ChapReceiveFailure, auth_withpeer_fail, ResponseTimerTo
  <2>2. QED BY <2>1, ChapField, LcpCloseHeld
<1>3. p.code = "CHALLENGE" => Held(ChapReceiveChallenge(s, p), e, d) BY ReceiveChallengeHeld
<1>4. p.code = "RESPONSE" => Held(ChapReceiveResponse(s, p), e, d) BY ReceiveResponseHeld
<1>5. QED BY <1>1, <1>2, <1>3, <1>4 DEF ChapInput

LEMMA ChapTimeoutHeld ==
    ASSUME NEW e, NEW s, NEW d \in BOOLEAN, Held(s, e, d)
    PROVE  /\ Held(ChapChallengeTimeout(s), e, d)
           /\ Held(ChapResponseTimeout(s), e, d)
           /\ Held(ChapRechallenge(s), e, d)
<1>1. Held(ChapChallengeTimeout(s), e, d)
  <2>1. ChapChallengeTimeout(s) \in {s, lcp_close(ServerTo(s, "BADAUTH")), ChapSendChallenge(s)}
    BY DEF ChapChallengeTimeout, auth_peer_fail, ServerTo
  <2>2. QED BY <2>1, ChapField, LcpCloseHeld, SendChallengeHeld
<1>2. Held(ChapResponseTimeout(s), e, d) BY SendResponseHeld DEF ChapResponseTimeout
<1>3. Held(ChapRechallenge(s), e, d) BY ChallengeHeld DEF ChapRechallenge
<1>4. QED BY <1>1, <1>2, <1>3

------------------------------------------------------------------------------
(* The link comes up owing what this end demands. *)

LEMMA EstablishedHeld ==
    ASSUME NEW e \in Ends, NEW s \in Units(e)
    PROVE  Held(link_established(s), e, Strange(e))
<1>1. Held(s, e, FALSE) BY DEF Held
<1> DEFINE a == ChapLowerUp(upap_lowerup(s))
           b == AuthPeer(a)
           c == AuthWithPeer(b)
<1>2. Held(a, e, FALSE) BY <1>1, PapUpHeld, ChapUpHeld
<1>3. Held(b, e, FALSE)
  <2> HIDE DEF a
  <2>1. QED BY <1>2, ChapAuthPeerHeld, AuthpeerHeld DEF AuthPeer
<1>4. Held(c, e, FALSE)
  <2> HIDE DEF b
  <2>1. QED BY <1>3, ChapAuthWithPeerHeld, AuthwithpeerHeld DEF AuthWithPeer
<1> DEFINE t == [c EXCEPT !.lcp = "opened", !.phase = "AUTHENTICATE", !.auth_pending = ToDo(s)]
<1>5. s.e = e BY DEF Units
<1>6. ToDo(s) \in SUBSET Debts
  BY <1>5, LineAssumption, SettingsAssumption DEF ToDo, Go, Ho, Debts
<1>7. Strange(e) => Owed \in ToDo(s) BY <1>5 DEF Strange, Owed, ToDo, Go
<1>8. link_established(s) = IF ToDo(s) = {} THEN network_phase(t) ELSE t BY DEF link_established
<1>9. "opened" \in LcpStates /\ "AUTHENTICATE" \in Phases BY DEF LcpStates, Phases
<1>10. Held(t, e, Strange(e))
  <2> HIDE DEF c
  <2>1. t \in Units(e) BY <1>4, <1>6, <1>9 DEF Held, Units
  <2>2. t.auth_pending = ToDo(s) /\ t.phase = "AUTHENTICATE" BY <1>4 DEF Held, Units
  <2>3. QED BY <2>1, <2>2, <1>7 DEF Held, Owes
<1> HIDE DEF t
<1>11. Strange(e) \in BOOLEAN BY DEF Strange
<1>12. QED BY <1>7, <1>8, <1>10, <1>11, NetworkHeld

(* What arrives at an end whose link has been up. *)
LEMMA LcpInputHeld ==
    ASSUME NEW e \in Ends, NEW s, Held(s, e, Strange(e)), NEW code
    PROVE  Held(LcpInput(s, code), e, Strange(e))
<1> DEFINE d == Strange(e)
<1>1. d \in BOOLEAN BY DEF Strange
<1>2. s \in Units(e) BY DEF Held
<1>3. Held(link_established(s), e, d) BY <1>2, EstablishedHeld
<1>4. Held(link_down(s), e, d) BY <1>1, LinkDownHeld
<1>5. Held(link_established(Send(link_down(s), "lcp", "CONF", 0, 0)), e, d)
  <2>1. Held(Send(link_down(s), "lcp", "CONF", 0, 0), e, d) BY <1>1, <1>4, LcpPacket, SendHeld
  <2>2. QED BY <2>1, EstablishedHeld DEF Held
<1>6. Held(Send([link_down(s) EXCEPT !.lcp = "stopping"], "lcp", "TERMACK", 0, 0), e, d)
  <2>1. Held([link_down(s) EXCEPT !.lcp = "stopping"], e, d) BY <1>1, <1>4, LcpHeld DEF LcpStates
  <2>2. QED BY <2>1, <1>1, LcpPacket, SendHeld
<1>7. Held(Send(s, "lcp", "TERMACK", 0, 0), e, d) BY <1>1, LcpPacket, SendHeld
<1>8. Held(link_terminated([s EXCEPT !.lcp = "closed"]), e, d)
  <2>1. Held([s EXCEPT !.lcp = "closed"], e, d) BY <1>1, LcpHeld DEF LcpStates
  <2>2. QED BY <2>1, <1>1, TerminatedHeld
<1>0. Held(s, e, d) OBVIOUS
<1> HIDE DEF d
<1>9. Held(LcpInput(s, code), e, d) BY <1>0, <1>3, <1>5, <1>6, <1>7, <1>8 DEF LcpInput
<1>10. QED BY <1>9 DEF d

LEMMA PppInputHeld ==
    ASSUME NEW e \in Ends, NEW s, Held(s, e, Strange(e)), NEW p \in Packets(PeerOf[e])
    PROVE  Held(pppInput(s, p), e, Strange(e))
<1>1. Strange(e) \in BOOLEAN BY DEF Strange
<1>2. CASE p.proto = "lcp" BY <1>2, LcpInputHeld DEF pppInput
<1>3. CASE p.proto = "pap" BY <1>1, <1>3, PapInputHeld DEF pppInput
<1>4. CASE p.proto = "chap" BY <1>1, <1>4, ChapInputHeld DEF pppInput
<1>5. p.proto \in {"lcp", "pap", "chap"} BY DEF Packets
<1>6. QED BY <1>2, <1>3, <1>4, <1>5

(* The network protocol. *)
LEMMA NpHeld ==
    ASSUME NEW e, NEW s, NEW d \in BOOLEAN, Held(s, e, d)
    PROVE  Held(np_up(s), e, d) /\ Held(np_finished(np_down(s)), e, d)
<1>1. Held(np_up(s), e, d)
  <2>1. PICK n \in Int : n = s.num_np_up + 1 BY DEF Held, Units
  <2> DEFINE b == IF s.num_np_up = 0 /\ MaxConnect THEN TRUE ELSE s.connectTimer
  <2>2. b \in BOOLEAN BY DEF Held, Units
  <2>3. np_up(s) = [s EXCEPT !.np = "up", !.num_np_up = n, !.connectTimer = b] BY <2>1 DEF np_up
  <2> HIDE DEF b
  <2>4. QED BY <2>2, <2>3 DEF Held, Owes, Units
<1>2. Held(np_down(s), e, d) BY DEF Held, Owes, Units, np_down
<1>3. ASSUME NEW t, Held(t, e, d) PROVE Held(np_finished(t), e, d)
  <2> DEFINE u == [t EXCEPT !.np = "closed", !.num_np_open = @ - 1]
  <2>1. Held(u, e, d)
    <3>1. PICK n \in Int : n = t.num_np_open - 1 BY <1>3 DEF Held, Units
    <3>2. Held([t EXCEPT !.np = "closed", !.num_np_open = n], e, d) BY <1>3 DEF Held, Owes, Units
    <3>3. QED BY <3>1, <3>2
  <2>2. np_finished(t) = IF u.num_np_open <= 0 THEN lcp_close(u) ELSE u BY DEF np_finished
  <2> HIDE DEF u
  <2>3. QED BY <2>1, <2>2, LcpCloseHeld
<1>4. QED BY <1>1, <1>2, <1>3

------------------------------------------------------------------------------
(* Before the link is up: an end that is untouched stays so, or its link   *)
(* comes up.                                                               *)

LEMMA SendUntouched ==
    ASSUME NEW e, NEW s \in Units(e), Untouched(s), NEW code \in {"CONF", "TERMREQ", "TERMACK"}
    PROVE  Send(s, "lcp", code, 0, 0) \in Units(e) /\ Untouched(Send(s, "lcp", code, 0, 0))
<1>1. Held(s, e, FALSE) BY DEF Held
<1>2. Held(Send(s, "lcp", code, 0, 0), e, FALSE) BY <1>1, LcpPacket, SendHeld
<1>3. Untouched(Send(s, "lcp", code, 0, 0)) BY DEF Send, Untouched, Units, PapUnits, ChapUnits
<1>4. QED BY <1>2, <1>3 DEF Held

Good(s, e) == s \in Units(e) /\ (Strange(e) => Owes(s) \/ Untouched(s))

LEMMA PppInputGood ==
    ASSUME NEW e \in Ends, NEW s, Good(s, e), NEW p \in Packets(PeerOf[e])
    PROVE  Good(pppInput(s, p), e)
<1>1. CASE Held(s, e, Strange(e)) BY <1>1, PppInputHeld DEF Good, Held
<1>2. CASE s \in Units(e) /\ Untouched(s)
  <2>1. CASE p.proto # "lcp" BY <1>2, <2>1 DEF pppInput, Untouched, Good
  <2>2. CASE p.proto = "lcp"
    <3>1. pppInput(s, p) = LcpInput(s, p.code) BY <2>2 DEF pppInput
    <3>2. CASE p.code = "CONF" /\ s.lcp = "asking"
      <4>1. Held(link_established(s), e, Strange(e)) BY <1>2, EstablishedHeld
      <4>2. QED BY <3>1, <3>2, <4>1 DEF LcpInput, Good, Held
    <3>3. CASE ~(p.code = "CONF" /\ s.lcp = "asking")
      <4>1. LcpInput(s, p.code) \in {s, Send(s, "lcp", "TERMACK", 0, 0)}
        BY <1>2, <3>3 DEF LcpInput, Untouched
      <4>2. QED BY <1>2, <3>1, <4>1, SendUntouched DEF Good
    <3>4. QED BY <3>2, <3>3
  <2>3. QED BY <2>1, <2>2
<1>3. QED BY <1>1, <1>2 DEF Good, Held

(* One step of an end, and what it puts on the line. *)
LEMMA StepKeeps ==
    ASSUME AuthInv, NEW e \in Ends, NEW s, Good(s, e), NEW rest,
           rest = [f \in Ends |-> rest[f]],
           \A f \in Ends : rest[f] \in Seq(Packets(PeerOf[f])),
           Becomes(e, s, rest)
    PROVE  AuthInv'
<1> DEFINE t == [s EXCEPT !.out = <<>>]
           g == PeerOf[e]
<1>1. g \in Ends /\ PeerOf[g] = e BY LineAssumption
<1>2. unit' = [unit EXCEPT ![e] = t] /\ line' = [rest EXCEPT ![g] = rest[g] \o s.out]
  BY DEF Becomes
<1>3. s \in Units(e) /\ s.out \in Seq(Packets(e)) BY DEF Good, Units
<1>4. t \in Units(e) /\ t.out = <<>>
  <2>1. <<>> \in Seq(Packets(e)) OBVIOUS
  <2>2. PICK q \in Seq(Packets(e)) : q = <<>> BY <2>1
  <2>3. [s EXCEPT !.out = q] \in Units(e) /\ [s EXCEPT !.out = q].out = q BY <1>3 DEF Units
  <2>4. QED BY <2>2, <2>3
<1>5. Strange(e) => Owes(t) \/ Untouched(t) BY <1>3 DEF Good, Owes, Untouched, Units
<1> HIDE DEF t, g
<1>6. unit' = [f \in Ends |-> unit'[f]] BY <1>2 DEF AuthInv
<1>7. line' = [f \in Ends |-> line'[f]] BY <1>2
<1>8. \A f \in Ends : line'[f] \in Seq(Packets(PeerOf[f]))
  <2>1. rest[g] \o s.out \in Seq(Packets(PeerOf[g])) BY <1>1, <1>3
  <2>2. QED BY <1>1, <1>2, <2>1
<1>9. \A f \in Ends : unit'[f] = IF f = e THEN t ELSE unit[f] BY <1>2 DEF AuthInv
<1>10. \A f \in Ends : Typed(f)' /\ (Strange(f) => Owes(unit'[f]) \/ Untouched(unit'[f]))
  BY <1>4, <1>5, <1>8, <1>9 DEF AuthInv, Typed
<1>11. QED BY <1>6, <1>7, <1>10 DEF AuthInv, Typed, Strange, Owes, Untouched

LEMMA StepOnLine ==
    ASSUME AuthInv, NEW e \in Ends, NEW s, Good(s, e), Becomes(e, s, line)
    PROVE  AuthInv'
<1>1. line = [f \in Ends |-> line[f]] /\ \A f \in Ends : line[f] \in Seq(Packets(PeerOf[f]))
  BY DEF AuthInv, Typed
<1>2. QED BY <1>1, StepKeeps

LEMMA GoodUnit ==
    ASSUME AuthInv, NEW e \in Ends
    PROVE  /\ Good(unit[e], e)
           /\ ~Untouched(unit[e]) => Held(unit[e], e, Strange(e))
           /\ Strange(e) \in BOOLEAN
  BY DEF AuthInv, Typed, Good, Held, Strange

LEMMA HeldGood ==
    ASSUME NEW e, NEW s, Held(s, e, Strange(e))
    PROVE  Good(s, e)
  BY DEF Held, Good

LEMMA InitAuth == Init => AuthInv
<1> SUFFICES ASSUME Init PROVE AuthInv OBVIOUS
<1>1. unit = [e \in Ends |-> unit[e]] /\ line = [e \in Ends |-> line[e]] BY DEF Init
<1>2. ASSUME NEW e \in Ends PROVE Typed(e) /\ Untouched(unit[e])
  <2>1. unit[e] = Fresh(e) /\ line[e] = <<>> BY DEF Init
  <2>2. Fresh(e).pap \in PapUnits BY DEF Fresh, PapUnits
  <2>3. Fresh(e).chap \in ChapUnits(e) BY DEF Fresh, ChapUnits
  <2>4. Fresh(e) \in Units(e) BY <2>2, <2>3 DEF Fresh, Units, LcpStates, Phases
  <2>5. Untouched(Fresh(e)) BY DEF Fresh, Untouched
  <2>6. Fresh(e).out = <<>> BY DEF Fresh
  <2>7. QED BY <2>1, <2>4, <2>5, <2>6 DEF Typed
<1>3. QED BY <1>1, <1>2 DEF AuthInv

LEMMA HeadAndTail ==
    ASSUME NEW S, NEW q \in Seq(S), q # <<>>
    PROVE  Head(q) \in S /\ Tail(q) \in Seq(S)
  OBVIOUS

LEMMA ActionKeeps ==
    ASSUME AuthInv, NEW e \in Ends,
           \/ Open(e) \/ Close(e) \/ Receive(e) \/ Lose(e) \/ LcpTimeout(e)
           \/ PapTimeout(e) \/ PapReqTimeout(e) \/ ChallengeTimeout(e) \/ ResponseTimeout(e)
           \/ Rechallenge(e) \/ NpUp(e) \/ NpFinish(e) \/ ConnectTimeout(e)
    PROVE  AuthInv'
<1> DEFINE s == unit[e]
           d == Strange(e)
<1>1. Good(s, e) /\ (~Untouched(s) => Held(s, e, d)) /\ d \in BOOLEAN BY GoodUnit
<1>2. CASE Open(e)
  <2> DEFINE t == [s EXCEPT !.lcp = "asking", !.phase = "ESTABLISH"]
  <2>1. Becomes(e, Send(t, "lcp", "CONF", 0, 0), line) BY <1>2 DEF Open
  <2>2. t \in Units(e) BY <1>1 DEF Good, Units, LcpStates, Phases
  <2>3. Untouched(s) => Untouched(t) BY <1>1 DEF Good, Units, Untouched, PapUnits, ChapUnits
  <2>4. Owes(s) => Owes(t) BY <1>1 DEF Good, Units, Owes
  <2> HIDE DEF t
  <2>5. Held(t, e, FALSE) /\ (Owes(t) => Held(t, e, d)) BY <2>2, <1>1 DEF Held
  <2>6. Send(t, "lcp", "CONF", 0, 0) \in Units(e) BY <2>5, LcpPacket, SendHeld DEF Held
  <2>7. d /\ Owes(t) => Owes(Send(t, "lcp", "CONF", 0, 0)) BY <1>1, <2>5, LcpPacket, SendHeld DEF Held
  <2>8. Untouched(t) => Untouched(Send(t, "lcp", "CONF", 0, 0)) BY <2>2, SendUntouched
  <2>9. Good(Send(t, "lcp", "CONF", 0, 0), e) BY <1>1, <2>3, <2>4, <2>6, <2>7, <2>8 DEF Good
  <2>10. QED BY <2>1, <2>9, StepOnLine
<1>3. CASE Close(e)
  <2>1. ~Untouched(s) /\ Becomes(e, lcp_close(s), line) BY <1>3 DEF Close, Untouched
  <2>2. Held(lcp_close(s), e, d) BY <1>1, <2>1, LcpCloseHeld
  <2>3. QED BY <2>1, <2>2, HeldGood, StepOnLine
<1>4. CASE Receive(e)
  <2> DEFINE p == Head(line[e])
             rest == [line EXCEPT ![e] = Tail(line[e])]
  <2>1. line[e] # <<>> /\ Becomes(e, pppInput(s, p), rest) BY <1>4 DEF Receive
  <2>2. line[e] \in Seq(Packets(PeerOf[e])) BY DEF AuthInv, Typed
  <2>3. p \in Packets(PeerOf[e]) /\ Tail(line[e]) \in Seq(Packets(PeerOf[e]))
    BY <2>1, <2>2, HeadAndTail
  <2>4. rest = [f \in Ends |-> rest[f]] BY DEF AuthInv
  <2>5. \A f \in Ends : rest[f] \in Seq(Packets(PeerOf[f])) BY <2>3 DEF AuthInv, Typed
  <2>6. Good(pppInput(s, p), e) BY <1>1, <2>3, PppInputGood
  <2> HIDE DEF rest, p
  <2>7. QED BY <2>1, <2>4, <2>5, <2>6, StepKeeps
<1>5. CASE Lose(e)
  <2>1. line[e] # <<>> /\ line' = [line EXCEPT ![e] = Tail(line[e])] /\ unit' = unit
    BY <1>5 DEF Lose
  <2>2. line[e] \in Seq(Packets(PeerOf[e])) BY DEF AuthInv, Typed
  <2>3. Tail(line[e]) \in Seq(Packets(PeerOf[e]))
    BY <2>1, <2>2, HeadAndTail
  <2>4. line' = [f \in Ends |-> line'[f]] BY <2>1 DEF AuthInv
  <2>5. \A f \in Ends : line'[f] \in Seq(Packets(PeerOf[f])) BY <2>1, <2>3 DEF AuthInv, Typed
  <2>6. QED BY <2>1, <2>4, <2>5 DEF AuthInv, Typed, Strange, Owes, Untouched
<1>6. CASE LcpTimeout(e)
  <2>1. CASE s.lcp = "asking"
    <3>1. Becomes(e, Send(s, "lcp", "CONF", 0, 0), line) BY <1>6, <2>1 DEF LcpTimeout
    <3>2. Good(Send(s, "lcp", "CONF", 0, 0), e)
      <4>1. CASE Held(s, e, d) BY <1>1, <4>1, LcpPacket, SendHeld, HeldGood
      <4>2. CASE Untouched(s) BY <1>1, <4>2, SendUntouched DEF Good
      <4>3. QED BY <1>1, <4>1, <4>2
    <3>3. QED BY <3>1, <3>2, StepOnLine
  <2>2. CASE s.lcp # "asking"
    <3>1. Becomes(e, link_terminated([s EXCEPT !.lcp = "closed"]), line) /\ ~Untouched(s)
      BY <1>6, <2>2 DEF LcpTimeout, Untouched
    <3>2. Held([s EXCEPT !.lcp = "closed"], e, d) BY <1>1, <3>1, LcpHeld DEF LcpStates
    <3>3. Held(link_terminated([s EXCEPT !.lcp = "closed"]), e, d) BY <1>1, <3>2, TerminatedHeld
    <3>4. QED BY <3>1, <3>3, HeldGood, StepOnLine
  <2>3. QED BY <2>1, <2>2
<1>7. CASE PapTimeout(e)
  <2>1. ~Untouched(s) /\ Becomes(e, upap_timeout(PapTimerTo(s, FALSE)), line)
    BY <1>7 DEF PapTimeout, PapTimerTo, Untouched
  <2>2. Held(upap_timeout(PapTimerTo(s, FALSE)), e, d) BY <1>1, <2>1, PapField, PapTimeoutHeld
  <2>3. QED BY <2>1, <2>2, HeldGood, StepOnLine
<1>8. CASE PapReqTimeout(e)
  <2>1. ~Untouched(s) /\ Becomes(e, upap_reqtimeout(PapReqTimerTo(s, FALSE)), line)
    BY <1>8 DEF PapReqTimeout, PapReqTimerTo, Untouched
  <2>2. Held(upap_reqtimeout(PapReqTimerTo(s, FALSE)), e, d) BY <1>1, <2>1, PapField, PapTimeoutHeld
  <2>3. QED BY <2>1, <2>2, HeldGood, StepOnLine
<1>9. CASE ChallengeTimeout(e)
  <2>1. ~Untouched(s) /\ Becomes(e, ChapChallengeTimeout(ChallengeTimerTo(s, FALSE)), line)
    BY <1>9 DEF ChallengeTimeout, ChallengeTimerTo, Untouched
  <2>2. Held(ChapChallengeTimeout(ChallengeTimerTo(s, FALSE)), e, d)
    BY <1>1, <2>1, ChapField, ChapTimeoutHeld
  <2>3. QED BY <2>1, <2>2, HeldGood, StepOnLine
<1>10. CASE ResponseTimeout(e)
  <2>1. ~Untouched(s) /\ Becomes(e, ChapResponseTimeout(ResponseTimerTo(s, FALSE)), line)
    BY <1>10 DEF ResponseTimeout, ResponseTimerTo, Untouched
  <2>2. Held(ChapResponseTimeout(ResponseTimerTo(s, FALSE)), e, d)
    BY <1>1, <2>1, ChapField, ChapTimeoutHeld
  <2>3. QED BY <2>1, <2>2, HeldGood, StepOnLine
<1>11. CASE Rechallenge(e)
  <2>1. ~Untouched(s) /\ Becomes(e, ChapRechallenge(AgainTimerTo(s, FALSE)), line)
    BY <1>11 DEF Rechallenge, AgainTimerTo, Untouched
  <2>2. Held(ChapRechallenge(AgainTimerTo(s, FALSE)), e, d) BY <1>1, <2>1, ChapField, ChapTimeoutHeld
  <2>3. QED BY <2>1, <2>2, HeldGood, StepOnLine
<1>12. CASE NpUp(e)
  <2>1. ~Untouched(s) /\ Becomes(e, np_up(s), line) BY <1>12 DEF NpUp, Untouched
  <2>2. Held(np_up(s), e, d) BY <1>1, <2>1, NpHeld
  <2>3. QED BY <2>1, <2>2, HeldGood, StepOnLine
<1>13. CASE NpFinish(e)
  <2>1. ~Untouched(s) /\ Becomes(e, np_finished(np_down(s)), line) BY <1>13 DEF NpFinish, Untouched
  <2>2. Held(np_finished(np_down(s)), e, d) BY <1>1, <2>1, NpHeld
  <2>3. QED BY <2>1, <2>2, HeldGood, StepOnLine
<1>14. CASE ConnectTimeout(e)
  <2> DEFINE t == [s EXCEPT !.connectTimer = FALSE]
  <2>1. ~Untouched(s) /\ Becomes(e, lcp_close(t), line)
    BY <1>14 DEF ConnectTimeout, connect_time_expired, Untouched
  <2>2. Held(t, e, d) BY <1>1, <2>1 DEF Held, Owes, Units
  <2> HIDE DEF t
  <2>3. Held(lcp_close(t), e, d) BY <1>1, <2>2, LcpCloseHeld
  <2>4. QED BY <2>1, <2>3, HeldGood, StepOnLine
<1>15. QED BY <1>2, <1>3, <1>4, <1>5, <1>6, <1>7, <1>8, <1>9, <1>10, <1>11, <1>12, <1>13, <1>14

LEMMA NextAuth == AuthInv /\ [Next]_vars => AuthInv'
<1> SUFFICES ASSUME AuthInv, [Next]_vars PROVE AuthInv' OBVIOUS
<1>1. CASE Next BY <1>1, ActionKeeps DEF Next
<1>2. CASE UNCHANGED vars BY <1>2 DEF vars, AuthInv, Typed, Strange, Owes, Untouched
<1>3. QED BY <1>1, <1>2

LEMMA AuthImplies == AuthInv => OnlyWithSecret
<1> SUFFICES ASSUME AuthInv, NEW e \in Ends, unit[e].phase = "NETWORK", Demands[e] = "chap",
                    Secret[PeerOf[e]] # Secret[e]
             PROVE  FALSE
  BY DEF OnlyWithSecret
<1>1. Owes(unit[e]) \/ Untouched(unit[e]) BY DEF AuthInv, Strange
<1>2. QED BY <1>1 DEF Owes, Untouched

(* An end that demands CHAP of its peer reaches the network phase only     *)
(* with a peer that has its secret, whatever is lost, comes late or is     *)
(* repeated, and however often the link goes down and up                   *)
(* (ChapReceiveResponse, auth_peer_success, link_established).             *)
THEOREM SecretNeeded == Spec => []OnlyWithSecret
<1>1. Spec => []AuthInv BY InitAuth, NextAuth, PTL DEF Spec
<1>2. QED BY <1>1, AuthImplies, PTL
=============================================================================
