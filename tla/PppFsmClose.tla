---------------------------- MODULE PppFsmClose ----------------------------
(***************************************************************************)
(* The part of the PPP option negotiation automaton (netif/ppp/fsm.c) that *)
(* the callbacks of a protocol themselves call: the record of an automaton,*)
(* sending, the timer, and fsm_close.                                      *)
(*                                                                         *)
(* An automaton lives in the record of its protocol under the fields of    *)
(* struct fsm, plus "timer" (is fsm_timeout scheduled?) and "out" (the     *)
(* packets handed to pppWrite by the current call).  Operators take such a *)
(* record and return the record the C function leaves behind.              *)
(***************************************************************************)
EXTENDS Integers, Sequences

CONSTANTS down(_),       \* callbacks->down
          MaxTerm        \* maxtermtransmits (FSM_DEFMAXTERMREQS)

(* Configuring means: a Configure-Request is outstanding. *)
Negotiating == {"REQSENT", "ACKRCVD", "ACKSENT"}
LinkStates == {"INITIAL", "STARTING", "CLOSED", "STOPPED", "CLOSING", "STOPPING", "OPENED"}
                \cup Negotiating

fsm_init == [state |-> "INITIAL", id |-> 0, reqid |-> 0, retransmits |-> 0,
             seen_ack |-> FALSE, nakloops |-> 0, timer |-> FALSE, out |-> <<>>]

NextId(s) == (s.id + 1) % 256

(* TIMEOUT cancels a scheduled fsm_timeout before it schedules one. *)
TIMEOUT(s) == [s EXCEPT !.timer = TRUE]
UNTIMEOUT(s) == [s EXCEPT !.timer = FALSE]

fsm_sdata(s, code, id, body) ==
    [s EXCEPT !.out = Append(@, [code |-> code, id |-> id, body |-> body])]

(* fsm_sdata(f, TERMREQ, f->reqid = ++f->id, ...); TIMEOUT; --retransmits *)
SendTermReq(s, tries) ==
    LET id == NextId(s)
    IN TIMEOUT(fsm_sdata([s EXCEPT !.id = id, !.reqid = id, !.retransmits = tries - 1],
                         "TERMREQ", id, "none"))

fsm_close(s) ==
    CASE s.state = "STARTING" -> [s EXCEPT !.state = "INITIAL"]
      [] s.state = "STOPPED"  -> [s EXCEPT !.state = "CLOSED"]
      [] s.state = "STOPPING" -> [s EXCEPT !.state = "CLOSING"]
      [] s.state \in Negotiating ->
            [SendTermReq(UNTIMEOUT(s), MaxTerm) EXCEPT !.state = "CLOSING"]
      [] s.state = "OPENED" ->
            [SendTermReq(down(s), MaxTerm) EXCEPT !.state = "CLOSING"]
      [] OTHER -> s
=============================================================================
