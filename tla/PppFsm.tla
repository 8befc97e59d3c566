------------------------------- MODULE PppFsm -------------------------------
(***************************************************************************)
(* The PPP option negotiation automaton of netif/ppp/fsm.c, one operator   *)
(* per function.  The callbacks a protocol installs are constant operators *)
(* (LCP and IPCP instantiate them); cilen returns the record with what     *)
(* counting the options changes in it, reqci the answer's code and body    *)
(* and the new record, nakci and rejci whether the packet was good.        *)
(***************************************************************************)
EXTENDS PppFsmClose

CONSTANTS resetci(_), cilen(_), addci(_), ackci(_, _), nakci(_, _), rejci(_, _), reqci(_, _, _),
          up(_), starting(_), finished(_), extcode(_, _),
          MaxConf,       \* maxconfreqtransmits (FSM_DEFMAXCONFREQS)
          MaxNakLoops    \* maxnakloops (FSM_DEFMAXNAKLOOPS)

------------------------------------------------------------------------------
(* fsm_sconfreq: reset the options unless a negotiation is under way, send *)
(* a request under a new identifier, or the last one again.                *)
SendRequest(s, id) ==
    TIMEOUT(fsm_sdata([s EXCEPT !.seen_ack = FALSE, !.retransmits = @ - 1],
                      "CONFREQ", id, addci(s)))
NewRequest(s) ==
    SendRequest([s EXCEPT !.retransmits = MaxConf, !.id = NextId(s), !.reqid = NextId(s)],
                NextId(s))
fsm_sconfreq(s, retransmit) ==
    IF retransmit THEN SendRequest(cilen(s), s.reqid)
    ELSE NewRequest(cilen(IF s.state \in Negotiating THEN s
                          ELSE [resetci(s) EXCEPT !.nakloops = 0]))

Restart(s, next) == [fsm_sconfreq(s, FALSE) EXCEPT !.state = next]

fsm_lowerup(s, silent) ==
    CASE s.state = "INITIAL"  -> [s EXCEPT !.state = "CLOSED"]
      [] s.state = "STARTING" -> IF silent THEN [s EXCEPT !.state = "STOPPED"]
                                 ELSE Restart(s, "REQSENT")
      [] OTHER -> s

fsm_lowerdown(s) ==
    CASE s.state = "CLOSED"  -> [s EXCEPT !.state = "INITIAL"]
      [] s.state = "STOPPED" -> starting([s EXCEPT !.state = "STARTING"])
      [] s.state = "CLOSING" -> UNTIMEOUT([s EXCEPT !.state = "INITIAL"])
      [] s.state \in Negotiating \cup {"STOPPING"} -> UNTIMEOUT([s EXCEPT !.state = "STARTING"])
      [] s.state = "OPENED"  -> [down(s) EXCEPT !.state = "STARTING"]
      [] OTHER -> s

(* OPT_RESTART is set by no caller, so STOPPED and OPENED stay as they are. *)
fsm_open(s, silent) ==
    CASE s.state = "INITIAL" -> starting([s EXCEPT !.state = "STARTING"])
      [] s.state = "CLOSED"  -> IF silent THEN [s EXCEPT !.state = "STOPPED"]
                                ELSE Restart(s, "REQSENT")
      [] s.state = "CLOSING" -> [s EXCEPT !.state = "STOPPING"]
      [] OTHER -> s

GivesUp(s) == s.retransmits <= 0

(* The timer has expired, so it is no longer scheduled. *)
fsm_timeout(s, passive) ==
    CASE s.state \in {"CLOSING", "STOPPING"} /\ GivesUp(s) ->
            finished([s EXCEPT !.state = IF @ = "CLOSING" THEN "CLOSED" ELSE "STOPPED"])
      [] s.state \in {"CLOSING", "STOPPING"} /\ ~GivesUp(s) ->
            SendTermReq(s, s.retransmits)
      [] s.state \in Negotiating /\ GivesUp(s) ->
            IF passive THEN [s EXCEPT !.state = "STOPPED"]
            ELSE finished([s EXCEPT !.state = "STOPPED"])
      [] s.state \in Negotiating /\ ~GivesUp(s) ->
            [fsm_sconfreq(s, TRUE) EXCEPT !.state = IF @ = "ACKRCVD" THEN "REQSENT" ELSE @]
      [] OTHER -> s

------------------------------------------------------------------------------
(* Received packets. *)

(* The answer to a Configure-Request has been composed: r.s, r.code, r.body. *)
Answer(s, code) ==
    IF code = "CONFACK"
    THEN [(IF s.state = "ACKRCVD" THEN up([UNTIMEOUT(s) EXCEPT !.state = "OPENED"])
           ELSE [s EXCEPT !.state = "ACKSENT"]) EXCEPT !.nakloops = 0]
    ELSE [s EXCEPT !.state = IF @ = "ACKRCVD" THEN @ ELSE "REQSENT",
                   !.nakloops = IF code = "CONFNAK" THEN @ + 1 ELSE @]
Reply(r, id) == Answer(fsm_sdata(r.s, r.code, id, r.body), r.code)
fsm_rconfreq(s, p) ==
    CASE s.state = "CLOSED" -> fsm_sdata(s, "TERMACK", p.id, "none")
      [] s.state \in {"CLOSING", "STOPPING"} -> s
      [] OTHER ->
            LET ready == CASE s.state = "OPENED"  -> fsm_sconfreq(down(s), FALSE)
                           [] s.state = "STOPPED" -> Restart(s, "REQSENT")
                           [] OTHER -> s
            IN Reply(reqci(ready, p.body, ready.nakloops >= MaxNakLoops), p.id)

(* The acknowledgement is good: seen_ack is set. *)
Acked(s, id) ==
    CASE s.state \in {"CLOSED", "STOPPED"} -> fsm_sdata(s, "TERMACK", id, "none")
      [] s.state = "REQSENT" -> [s EXCEPT !.state = "ACKRCVD", !.retransmits = MaxConf]
      [] s.state = "ACKRCVD" -> Restart(UNTIMEOUT(s), "REQSENT")
      [] s.state = "ACKSENT" ->
            up([UNTIMEOUT(s) EXCEPT !.state = "OPENED", !.retransmits = MaxConf])
      [] s.state = "OPENED"  -> Restart(down(s), "REQSENT")
      [] OTHER -> s
fsm_rconfack(s, p) ==
    IF p.id # s.reqid \/ s.seen_ack \/ ~ackci(s, p.body) THEN s
    ELSE Acked([s EXCEPT !.seen_ack = TRUE], p.id)

(* The Nak or Reject is good: nakci or rejci has changed the options. *)
Refused(s, id) ==
    CASE s.state \in {"CLOSED", "STOPPED"} -> fsm_sdata(s, "TERMACK", id, "none")
      [] s.state \in {"REQSENT", "ACKSENT"} -> fsm_sconfreq(UNTIMEOUT(s), FALSE)
      [] s.state = "ACKRCVD" -> Restart(UNTIMEOUT(s), "REQSENT")
      [] s.state = "OPENED"  -> Restart(down(s), "REQSENT")
      [] OTHER -> s
Judged(s, r, id) == IF r.good THEN Refused([r.s EXCEPT !.seen_ack = TRUE], id) ELSE s
fsm_rconfnakrej(s, p) ==
    IF p.id # s.reqid \/ s.seen_ack THEN s
    ELSE Judged(s, IF p.code = "CONFNAK" THEN nakci(s, p.body) ELSE rejci(s, p.body), p.id)

fsm_rtermreq(s, p) ==
    fsm_sdata(CASE s.state \in {"ACKRCVD", "ACKSENT"} -> [s EXCEPT !.state = "REQSENT"]
                [] s.state = "OPENED" ->
                      TIMEOUT([down(s) EXCEPT !.retransmits = 0, !.state = "STOPPING"])
                [] OTHER -> s,
              "TERMACK", p.id, "none")

(* In OPENED a new request is sent, and the state stays OPENED. *)
fsm_rtermack(s) ==
    CASE s.state = "CLOSING"  -> finished(UNTIMEOUT([s EXCEPT !.state = "CLOSED"]))
      [] s.state = "STOPPING" -> finished(UNTIMEOUT([s EXCEPT !.state = "STOPPED"]))
      [] s.state = "ACKRCVD"  -> [s EXCEPT !.state = "REQSENT"]
      [] s.state = "OPENED"   -> fsm_sconfreq(down(s), FALSE)
      [] OTHER -> s

fsm_rcoderej(s) == [s EXCEPT !.state = IF @ = "ACKRCVD" THEN "REQSENT" ELSE @]

fsm_protreject(s) ==
    CASE s.state \in {"CLOSING", "CLOSED"} ->
            finished([UNTIMEOUT(s) EXCEPT !.state = "CLOSED"])
      [] s.state \in Negotiating \cup {"STOPPING", "STOPPED"} ->
            finished([UNTIMEOUT(s) EXCEPT !.state = "STOPPED"])
      [] s.state = "OPENED" -> [SendTermReq(down(s), MaxTerm) EXCEPT !.state = "STOPPING"]
      [] OTHER -> s

(* An unknown code is answered by a Code-Reject. *)
Extended(s, r, p) ==
    IF r.known THEN r.s ELSE fsm_sdata([s EXCEPT !.id = NextId(s)], "CODEREJ", NextId(s), p.code)

(* Packets that are too short or claim a wrong length are dropped before   *)
(* the switch; the channel of the model carries none.                      *)
fsm_input(s, p) ==
    IF s.state \in {"INITIAL", "STARTING"} THEN s
    ELSE CASE p.code = "CONFREQ" -> fsm_rconfreq(s, p)
           [] p.code = "CONFACK" -> fsm_rconfack(s, p)
           [] p.code \in {"CONFNAK", "CONFREJ"} -> fsm_rconfnakrej(s, p)
           [] p.code = "TERMREQ" -> fsm_rtermreq(s, p)
           [] p.code = "TERMACK" -> fsm_rtermack(s)
           [] p.code = "CODEREJ" -> fsm_rcoderej(s)
           [] OTHER -> Extended(s, extcode(s, p), p)
=============================================================================
