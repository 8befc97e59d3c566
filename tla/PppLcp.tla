------------------------------- MODULE PppLcp -------------------------------
(***************************************************************************)
(* The Link Control Protocol (netif/ppp/lcp.c) over the automaton of       *)
(* fsm.c, with the link phases of auth.c it drives: option negotiation     *)
(* (MRU, asyncmap, authentication protocol, magic number, the two header   *)
(* compressions), loop detection, echo supervision, opening and closing.   *)
(*                                                                         *)
(* Every end of a serial line runs this code.  A line delivers packets in  *)
(* order and may lose them.  PeerOf[e] is the end that hears e; a line     *)
(* that is looped back has PeerOf[e] = e.                                  *)
(*                                                                         *)
(* Options are a set "neg" of negotiated options and the values of those   *)
(* that have one; a packet's body is a function from the options it lists  *)
(* to their values.  The asyncmap is a set of characters to be escaped.    *)
(***************************************************************************)
EXTENDS Integers, Sequences, FiniteSets, TLC

CONSTANTS Ends, PeerOf,
          Want,          \* per end: lcp_wantoptions as lcp_init leaves them
          Allow,         \* per end: lcp_allowoptions, after auth_reset
          HasSecret,     \* ends that could authenticate a peer (have_chap_secret ...)
          AuthRequired,  \* ends with ppp_settings.auth_required
          MaxConf, MaxTerm, MaxNakLoops,
          LoopbackFail,  \* lcp_loopbackfail (DEFLOOPBACKFAIL)
          EchoInterval, EchoFails,   \* LCP_ECHOINTERVAL, LCP_MAXECHOFAILS
          MagicOf(_, _), \* the n-th number that magic() returns at an end
          Foreign,       \* codes and bodies that a different program may send to an end
          MaxStart, MaxStop, MaxHup, MaxLose, MaxFire, MaxForeign, MaxLine  \* bounds

DEFMRU == 4    \* PPP_DEFMRU and PPP_MRU, the value that is not sent
MINMRU == 1    \* PPP_MINMRU
AllChars == {"xon", "xoff"}        \* the characters an asyncmap can name
Void == {"pcomp", "accomp"}
NoOptions == [neg |-> {}, mru |-> 0, asyncmap |-> {}, magic |-> 0, numloops |-> 0]

VARIABLES link,    \* per end: the automaton, the options and the phase
          line,    \* per end: the packets on their way to it
          spent    \* how often the bounded events have happened

vars == <<link, line, spent>>

------------------------------------------------------------------------------
(* Option lists. *)

auth_reset(e, o) == [o EXCEPT !.neg = IF e \in HasSecret THEN @ ELSE @ \ {"chap", "upap"}]

lcp_resetci(s) ==
    [s EXCEPT !.go = auth_reset(s.e, [Want[s.e] EXCEPT !.magic = MagicOf(s.e, s.magics + 1)]),
              !.magics = @ + 1]

Value(o, ci) == CASE ci = "mru" -> o.mru
                  [] ci = "asyncmap" -> o.asyncmap
                  [] ci = "auth" -> IF "chap" \in o.neg THEN "chap" ELSE "upap"
                  [] ci = "magic" -> o.magic
                  [] OTHER -> "void"

(* The options a Configure-Request lists. *)
lcp_cilen(o) ==
    {ci \in o.neg \ {"chap", "upap"} : /\ ci = "mru" => o.mru # DEFMRU
                                       /\ ci = "asyncmap" => o.asyncmap # AllChars}
      \cup (IF o.neg \cap {"chap", "upap"} # {} THEN {"auth"} ELSE {})
lcp_addci(s) == [ci \in lcp_cilen(s.go) |-> Value(s.go, ci)]

Counted(s) == s     \* lcp_cilen changes nothing

lcp_ackci(s, body) == body = lcp_addci(s)

(* A Configure-Nak: what to try next for an option of the request.  Only   *)
(* an authentication protocol can be refused for good here.                *)
TryAuth(o, v) ==
    CASE v = "upap" -> o.neg \ {"chap"}
      [] v = "chap" -> IF "chap" \in o.neg THEN o.neg ELSE o.neg \ {"upap"}
      [] OTHER -> IF "chap" \in o.neg THEN o.neg \ {"chap"} ELSE o.neg \ {"upap"}
Listed(o, body) == DOMAIN body \cap lcp_cilen(o)
Extra(o, body) == DOMAIN body \ lcp_cilen(o)
NakTry(s, body) ==
    LET o == s.go
        L == Listed(o, body)
        X == Extra(o, body)
    IN [o EXCEPT
        !.mru = IF \/ "mru" \in L /\ body["mru"] <= Want[s.e].mru
                   \/ "mru" \in L \cup X /\ body["mru"] < DEFMRU
                THEN body["mru"] ELSE @,
        !.asyncmap = IF "asyncmap" \in L THEN @ \cup body["asyncmap"] ELSE @,
        !.neg = (IF "auth" \in L THEN TryAuth(o, body["auth"]) ELSE @) \ (L \cap Void),
        !.magic = IF "magic" \in L THEN MagicOf(s.e, s.magics + 1) ELSE @,
        !.numloops = IF "magic" \in L THEN @ + 1 ELSE 0]

(* The extra options a Nak may append; one without a value as the last     *)
(* option is never read, and the Nak is then bad.                          *)
GoodNak(o, body) ==
    /\ Extra(o, body) \cap Void = {}
    /\ "asyncmap" \in Extra(o, body) => "asyncmap" \notin o.neg \/ o.asyncmap = AllChars
    /\ "auth" \in Listed(o, body) /\ body["auth"] = "upap" => "chap" \in o.neg

(* A Configure-Reject must repeat what was sent, and drops it. *)
GoodReject(o, body) ==
    \A ci \in DOMAIN body : /\ ci \in lcp_cilen(o) \/ ci \in o.neg
                            /\ body[ci] = Value(o, ci)
RejTry(o, body) ==
    [o EXCEPT !.neg = (@ \ DOMAIN body) \ (IF "auth" \in DOMAIN body THEN {"chap", "upap"} ELSE {})]
lcp_rejci(s, body) ==
    [good |-> GoodReject(s.go, body),
     s |-> IF s.state = "OPENED" THEN s ELSE [s EXCEPT !.go = RejTry(@, body)]]

(* lcp_reqci: the verdict on one option of the peer's request, and the     *)
(* value a Nak suggests instead.                                           *)
OwnMagic(s, v) == "magic" \in s.go.neg /\ v = s.go.magic
Verdict(s, ci, v) ==
    LET ao == Allow[s.e]
    IN CASE ci = "mru" -> IF "mru" \notin ao.neg THEN "CONFREJ"
                          ELSE IF v < MINMRU THEN "CONFNAK" ELSE "CONFACK"
         [] ci = "asyncmap" -> IF "asyncmap" \notin ao.neg THEN "CONFREJ"
                               ELSE IF ao.asyncmap \subseteq v THEN "CONFACK" ELSE "CONFNAK"
         [] ci = "auth" -> IF ao.neg \cap {"chap", "upap"} = {} THEN "CONFREJ"
                           ELSE IF v \in ao.neg THEN "CONFACK" ELSE "CONFNAK"
         [] ci = "magic" -> IF "magic" \notin ao.neg \cup s.go.neg THEN "CONFREJ"
                            ELSE IF OwnMagic(s, v) THEN "CONFNAK"
                            ELSE "CONFACK"
         [] ci \in Void -> IF ci \in ao.neg THEN "CONFACK" ELSE "CONFREJ"
         [] OTHER -> "CONFREJ"
Suggest(s, ci, v) ==
    CASE ci = "mru" -> MINMRU
      [] ci = "asyncmap" -> Allow[s.e].asyncmap \cup v
      [] ci = "auth" -> IF "chap" \in Allow[s.e].neg /\ v # "chap" THEN "chap" ELSE "upap"
      [] OTHER -> MagicOf(s.e, s.magics + 1)

(* The options accepted from the peer, whatever the answer as a whole is. *)
HisOptions(ok, body) ==
    [neg |-> {ci \in ok : ci # "auth"} \cup (IF "auth" \in ok THEN {body["auth"]} ELSE {}),
     mru |-> IF "mru" \in ok THEN body["mru"] ELSE 0,
     asyncmap |-> IF "asyncmap" \in ok THEN body["asyncmap"] ELSE {},
     magic |-> IF "magic" \in ok THEN body["magic"] ELSE 0, numloops |-> 0]

Restricted(body, cis) == [ci \in cis |-> body[ci]]
ComposeAnswer(s, body, rejs, naks) ==
    [s |-> [s EXCEPT !.ho = HisOptions({ci \in DOMAIN body : Verdict(s, ci, body[ci]) = "CONFACK"},
                                       body),
                     !.magics = IF "magic" \in naks THEN @ + 1 ELSE @],
     code |-> IF rejs # {} THEN "CONFREJ" ELSE IF naks # {} THEN "CONFNAK" ELSE "CONFACK",
     body |-> IF rejs # {} THEN Restricted(body, rejs)
              ELSE IF naks # {} THEN [ci \in naks |-> Suggest(s, ci, body[ci])] ELSE body]
Disliked(s, body, code) == {ci \in DOMAIN body : Verdict(s, ci, body[ci]) = code}
lcp_reqci(s, body, reject_if_disagree) ==
    LET turned == IF reject_if_disagree THEN Disliked(s, body, "CONFNAK") \ {"magic"} ELSE {}
    IN ComposeAnswer(s, body, Disliked(s, body, "CONFREJ") \cup turned,
                     Disliked(s, body, "CONFNAK") \ turned)

------------------------------------------------------------------------------
(* What the automaton tells the layers around it. *)

(* ppp_send_config and ppp_recv_config. *)
Plain == [mru |-> DEFMRU, asyncmap |-> AllChars, pcomp |-> FALSE, accomp |-> FALSE]
SendConfig(e, ho) ==
    [mru |-> IF "mru" \in ho.neg /\ ho.mru < Allow[e].mru THEN ho.mru
             ELSE IF "mru" \notin ho.neg /\ DEFMRU < Allow[e].mru THEN DEFMRU ELSE Allow[e].mru,
     asyncmap |-> IF "asyncmap" \in ho.neg THEN ho.asyncmap ELSE AllChars,
     pcomp |-> "pcomp" \in ho.neg, accomp |-> "accomp" \in ho.neg]
RecvConfig(e, go) ==
    [mru |-> IF "mru" \notin go.neg THEN DEFMRU
             ELSE IF Want[e].mru > go.mru THEN Want[e].mru ELSE go.mru,
     asyncmap |-> IF "asyncmap" \in go.neg THEN go.asyncmap ELSE {},
     pcomp |-> "pcomp" \in go.neg, accomp |-> "accomp" \in go.neg]

(* lcp_echo_lowerdown; then link_down takes the network protocols down and *)
(* pppLinkDown wakes the reader.                                           *)
lcp_echo_lowerdown(s) == [s EXCEPT !.echo.timer = IF s.echo.running THEN FALSE ELSE @,
                                   !.echo.running = FALSE]
link_down(s) == [s EXCEPT !.up = FALSE, !.phase = IF @ = "DEAD" THEN @ ELSE "TERMINATE"]
lcp_down(s) ==
    [link_down(lcp_echo_lowerdown(s))
        EXCEPT !.send = Plain, !.recv = [RecvConfig(s.e, s.go) EXCEPT !.mru = DEFMRU]]

lcp_starting(s) == s     \* link_required does nothing

(* link_terminated: the application is told, the port is free again. *)
link_terminated(s) == IF s.phase = "DEAD" THEN s ELSE [s EXCEPT !.phase = "DEAD", !.open = FALSE]
lcp_finished(s) == link_terminated(s)

C == INSTANCE PppFsmClose WITH down <- lcp_down

Phase(s, p) == [s EXCEPT !.phase = IF @ = "DEAD" THEN @ ELSE p]
lcp_close(s, passive) ==
    IF s.state = "STOPPED" /\ passive
    THEN lcp_finished([Phase(s, "TERMINATE") EXCEPT !.state = "CLOSED"])
    ELSE C!fsm_close(Phase(s, "TERMINATE"))

(* link_established: the protocols above come up; without the              *)
(* authentication that is required the link is closed at once.             *)
link_established(s) ==
    IF s.e \in AuthRequired /\ s.go.neg \cap {"chap", "upap"} = {}
    THEN lcp_close([s EXCEPT !.up = TRUE], FALSE)
    ELSE [s EXCEPT !.up = TRUE,
                   !.phase = IF (s.go.neg \cup s.ho.neg) \cap {"chap", "upap"} = {}
                             THEN "NETWORK" ELSE "AUTHENTICATE"]

(* LcpSendEchoRequest; LcpEchoCheck then schedules the next one, whatever  *)
(* has become of the link.                                                 *)
LcpLinkFailure(s) == IF s.state = "OPENED" THEN lcp_close(s, FALSE) ELSE s
SendEcho(s) ==
    IF s.state = "OPENED"
    THEN [C!fsm_sdata(s, "ECHOREQ", 0, s.go.magic) EXCEPT !.echo.pending = @ + 1]
    ELSE s
LcpSendEchoRequest(s) ==
    SendEcho(IF EchoFails # 0 /\ s.echo.pending >= EchoFails
             THEN [LcpLinkFailure(s) EXCEPT !.echo.pending = 0] ELSE s)
LcpEchoCheck(s) == [LcpSendEchoRequest(s) EXCEPT !.echo.timer = TRUE, !.echo.running = TRUE]
LcpEchoTimeout(s) ==
    IF s.echo.running THEN LcpEchoCheck([s EXCEPT !.echo.running = FALSE]) ELSE s
lcp_echo_lowerup(s) ==
    LET fresh == [s EXCEPT !.echo = [@ EXCEPT !.pending = 0, !.running = FALSE]]
    IN IF EchoInterval # 0 THEN LcpEchoCheck(fresh) ELSE fresh

lcp_up(s) ==
    link_established(lcp_echo_lowerup(
        [s EXCEPT !.send = SendConfig(s.e, s.ho), !.recv = RecvConfig(s.e, s.go),
                  !.go.magic = IF "magic" \in s.go.neg THEN @ ELSE 0]))

lcp_received_echo_reply(s, magic) ==
    IF "magic" \in s.go.neg /\ magic = s.go.magic THEN s ELSE [s EXCEPT !.echo.pending = 0]

(* A Nak whose magic number keeps being refused ends in "Loopback detected".*)
lcp_nakci(s, body) ==
    LET t == NakTry(s, body)
        looped == "magic" \in Listed(s.go, body)
        n == IF looped THEN [s EXCEPT !.magics = @ + 1] ELSE s
    IN [good |-> GoodNak(s.go, body),
        s |-> IF s.state = "OPENED" THEN n
              ELSE [(IF looped /\ t.numloops >= LoopbackFail THEN lcp_close(n, FALSE) ELSE n)
                       EXCEPT !.go = t]]

(* A Protocol-Reject for a network protocol goes to that protocol, and     *)
(* leaves LCP alone.                                                       *)
lcp_extcode(s, p) ==
    [known |-> p.code \in {"PROTREJ", "ECHOREQ", "ECHOREP", "DISCREQ"},
     s |-> CASE p.code = "ECHOREQ" /\ s.state = "OPENED" ->
                  C!fsm_sdata(s, "ECHOREP", p.id, s.go.magic)
             [] p.code = "ECHOREP" -> lcp_received_echo_reply(s, p.body)
             [] OTHER -> s]

F == INSTANCE PppFsm WITH down <- lcp_down, up <- lcp_up, starting <- lcp_starting,
        finished <- lcp_finished, resetci <- lcp_resetci, cilen <- Counted, addci <- lcp_addci,
        ackci <- lcp_ackci, nakci <- lcp_nakci, rejci <- lcp_rejci, reqci <- lcp_reqci,
        extcode <- lcp_extcode

(* The Protocol-Reject that reaches LCP itself while it is open. *)
lcp_protrej(s) == F!fsm_protreject(s)
lcp_rprotrej(s, p) == IF s.state = "OPENED" /\ p.body = "lcp" THEN lcp_protrej(s) ELSE s

lcp_input(s, p) == IF p.code = "PROTREJ" /\ s.state \notin {"INITIAL", "STARTING"}
                   THEN lcp_rprotrej(s, p) ELSE F!fsm_input(s, p)

lcp_init(e) ==
    C!fsm_init @@ [e |-> e, open |-> FALSE, up |-> FALSE, phase |-> "INITIALIZE", magics |-> 0,
                   go |-> NoOptions, ho |-> NoOptions, send |-> Plain,
                   recv |-> Plain, echo |-> [pending |-> 0, running |-> FALSE, timer |-> FALSE]]

lcp_lowerup(s) ==
    F!fsm_lowerup([s EXCEPT !.send = Plain,
                            !.recv = [Plain EXCEPT !.asyncmap = {},
                                                   !.pcomp = "pcomp" \in Want[s.e].neg,
                                                   !.accomp = "accomp" \in Want[s.e].neg]], FALSE)
lcp_open(s) == [F!fsm_open(s, FALSE) EXCEPT !.phase = "ESTABLISH"]
lcp_lowerdown(s) == F!fsm_lowerdown(s)
pppStart(s) == lcp_open(lcp_lowerup([s EXCEPT !.open = TRUE]))
pppStop(s) == lcp_close(s, FALSE)
pppHup(s) == link_terminated(lcp_lowerdown(s))
------------------------------------------------------------------------------
(* What happens at an end.  The packets of a call leave in one piece.      *)

Init == /\ link = [e \in Ends |-> lcp_init(e)]
        /\ line = [e \in Ends |-> <<>>]
        /\ spent = [start |-> 0, stop |-> 0, hup |-> 0, lose |-> 0, fire |-> 0, foreign |-> 0]

Becomes(e, s, rest) ==
    /\ link' = [link EXCEPT ![e] = [s EXCEPT !.out = <<>>]]
    /\ line' = [x \in Ends |-> IF x = PeerOf[e] THEN rest[x] \o s.out ELSE rest[x]]
Spend(what, bound) ==
    /\ spent[what] < bound
    /\ spent' = [spent EXCEPT ![what] = @ + 1]

(* pppOverSerialOpen takes a port that is not open. *)
Start(e) == /\ ~link[e].open
            /\ Spend("start", MaxStart)
            /\ Becomes(e, pppStart(link[e]), line)
Stop(e) == /\ link[e].open
           /\ Spend("stop", MaxStop)
           /\ Becomes(e, pppStop(link[e]), line)
Hup(e) == /\ link[e].open
          /\ Spend("hup", MaxHup)
          /\ Becomes(e, pppHup(link[e]), line)

(* A closed port reads nothing: what arrives there is lost. *)
Receive(e) ==
    /\ line[e] # <<>>
    /\ Becomes(e, IF link[e].open THEN lcp_input(link[e], Head(line[e])) ELSE link[e],
               [line EXCEPT ![e] = Tail(@)])
    /\ UNCHANGED spent
Lose(e) == /\ line[e] # <<>>
           /\ Spend("lose", MaxLose)
           /\ line' = [line EXCEPT ![e] = Tail(@)]
           /\ UNCHANGED link

(* A timer is slow against the line, except for MaxFire early expiries. *)
Quiet == \A e \in Ends : line[e] = <<>>
Expire(e, s) == /\ \/ Quiet /\ UNCHANGED spent
                   \/ ~Quiet /\ Spend("fire", MaxFire)
                /\ PeerOf[e] \in Ends => Len(line[PeerOf[e]]) < MaxLine
                /\ Becomes(e, s, line)
Timeout(e) == /\ link[e].timer
              /\ Expire(e, F!fsm_timeout([link[e] EXCEPT !.timer = FALSE], FALSE))
EchoTimeout(e) == /\ link[e].echo.timer
                  /\ Expire(e, LcpEchoTimeout([link[e] EXCEPT !.echo.timer = FALSE]))

(* A packet of a program that is not this one; it acknowledges what it was *)
(* asked for.                                                              *)
Foreigner(e, p, id) ==
    /\ link[e].open
    /\ Spend("foreign", MaxForeign)
    /\ Becomes(e, lcp_input(link[e], [code |-> p.code, id |-> id,
                                    body |-> IF p.code = "CONFACK" THEN lcp_addci(link[e]) ELSE p.body]), line)

Next ==
    \E e \in Ends : \/ Start(e) \/ Stop(e) \/ Hup(e) \/ Receive(e) \/ Lose(e)
                    \/ Timeout(e) \/ EchoTimeout(e)
                    \/ \E p \in Foreign, id \in {link[e].reqid, 200} : Foreigner(e, p, id)
Spec == Init /\ [][Next]_vars

------------------------------------------------------------------------------
(* Types: the state of the automaton, its counters, the phase. *)
TypeOK ==
    \A e \in Ends :
        /\ link[e].state \in F!LinkStates
        /\ link[e].id \in 0..255 /\ link[e].reqid \in 0..255
        /\ link[e].retransmits \in 0..(MaxConf + MaxTerm)
        /\ link[e].phase \in {"INITIALIZE", "ESTABLISH", "AUTHENTICATE", "NETWORK", "TERMINATE", "DEAD"}
        /\ link[e].go.neg \subseteq {"mru", "asyncmap", "chap", "upap", "magic", "pcomp", "accomp"}
        /\ link[e].out = <<>>

(* The protocols above LCP are up only while the automaton is in OPENED:   *)
(* every way out of OPENED calls down first (fsm.c).                       *)
UpOnlyOpened == \A e \in Ends : link[e].up => link[e].state = "OPENED"

(* fsm.h: LS_OPENED is "Connection available", up is called when the       *)
(* automaton reaches it and down when it leaves it.                        *)
(* Not what the code does: README.md, "Known disagreements". *)
OpenedIsUp == \A e \in Ends : link[e].state = "OPENED" => link[e].up

(* An automaton that waits for an answer has its timer scheduled, so that  *)
(* a lost packet cannot leave it waiting for ever (fsm.c).                 *)
WaitsWithTimer ==
    \A e \in Ends : link[e].state \in F!Negotiating \cup {"CLOSING", "STOPPING"} => link[e].timer

(* Two ends that are both up frame alike: an end that compresses a header  *)
(* field talks to one that expects it, escapes every character the other   *)
(* wants escaped and sends no packet longer than the other receives        *)
(* (lcp_up, from what the two negotiations left in gotoptions and          *)
(* hisoptions).                                                            *)
FramesAlike ==
    \A e \in Ends : LET p == PeerOf[e] IN
        p \in Ends \ {e} /\ link[e].up /\ link[p].up =>
            /\ link[e].send.pcomp = link[p].recv.pcomp
            /\ link[e].send.accomp = link[p].recv.accomp
            /\ link[p].recv.asyncmap \subseteq link[e].send.asyncmap
            /\ link[e].send.mru <= link[p].recv.mru
            /\ link[e].ho.neg \cap {"chap", "upap"}
                  = (IF "auth" \in DOMAIN lcp_addci(link[p]) THEN {lcp_addci(link[p])["auth"]} ELSE {})

(* A line that is looped back never comes up: the magic number in an own   *)
(* request that returns is refused (lcp_reqci, lcp_nakci).                 *)
LoopNeverUp == \A e \in Ends : PeerOf[e] = e => link[e].state # "OPENED"

(* pppOverSerialOpen: "Start the connection and handle incoming events":   *)
(* an end that has been started negotiates until it is up or closed.       *)
(* Not what the code does: README.md, "Known disagreements". *)
StartNegotiates ==
    \A e \in Ends : link[e].open /\ link[e].phase = "ESTABLISH" => link[e].state \in F!Negotiating

=============================================================================
