------------------------------- MODULE Wifly -------------------------------
(***************************************************************************)
(* The command protocol of the wireless module: init_wifi                   *)
(* (wireless_wifi.cpp) joins the network and connects the socket through    *)
(* the operations of Wifly.cpp and TCPSocketConnection.cpp.  The driver     *)
(* remembers in cmd_mode whether the module takes commands; the module has  *)
(* its own idea, and answers may get lost.  In data mode with an open       *)
(* connection everything the driver writes goes to the peer.  A step is one *)
(* exchange: a string is written and the answer awaited.                    *)
(***************************************************************************)
EXTENDS Integers, Sequences

CONSTANTS
    MAX_TRY,        \* attempts of init_wifi to join and to connect
    MAX_TRY_JOIN,   \* attempts inside join
    MaxLost         \* answers that get lost

VARIABLES
    op,        \* the operation init_wifi is in
    script,    \* the exchanges left of it: <<command, acknowledgement>>
    phase,     \* of the exchange: enter, command, exit
    cmd_mode,  \* what the driver believes
    module,    \* the module: command mode, TCP connection, associated
    tries, joins,
    wireless_open,
    leaked,    \* a command has reached the peer
    lost       \* answers lost so far

vars == <<op, script, phase, cmd_mode, module, tries, joins, wireless_open, leaked, lost>>

(* join: the settings (eleven commands in the code), save, join, wait for DHCP. *)
JoinScript == <<<<"set", "AOK">>, <<"save", "Stor">>, <<"join", "Associated">>, <<"", "DHCP=ON">>>>
IpScript == <<<<"get", "ignored">>>>
(* connect after it is in command mode; the second form is for a module that  *)
(* says it is connected already, where the code sends cmd again, which still  *)
(* holds the command that sets the port.                                      *)
ConnectScript == <<<<"set", "AOK">>, <<"set", "AOK">>, <<"open", "any">>>>
ReopenScript == <<<<"close", "CLOS">>, <<"set", "OPEN">>>>

(* How the module answers: the new state and the answer. *)
React(m, cmd) ==
    IF ~m.cmd
    THEN {IF cmd = "$$$" THEN <<[m EXCEPT !.cmd = TRUE], "CMD">> ELSE <<m, "none">>}
    ELSE CASE cmd = "set"   -> {<<m, "AOK">>}
           [] cmd = "save"  -> {<<m, "Stor">>}
           [] cmd = "get"   -> {<<m, "IP">>}
           [] cmd = "join"  -> {<<[m EXCEPT !.assoc = TRUE], "Associated">>, <<m, "FAILED">>}
           [] cmd = ""      -> {<<m, IF m.assoc THEN "DHCP=ON" ELSE "none">>}
           [] cmd = "exit"  -> {<<[m EXCEPT !.cmd = FALSE], "EXIT">>}
           [] cmd = "close" -> {<<[m EXCEPT !.tcp = FALSE], "CLOS">>}
           [] cmd = "open"  -> IF m.tcp THEN {<<m, "Connected">>}
                               ELSE {<<[m EXCEPT !.tcp = TRUE, !.cmd = FALSE], "OPEN">>,
                                     <<m, "FAILED">>}
           [] OTHER         -> {<<m, "ERR">>}

(* send with an acknowledgement: the answer a the driver sees, if it comes. *)
send(cmd, a) ==
    \E r \in React(module, cmd) :
        /\ module' = r[1]
        /\ leaked' = (leaked \/ (~module.cmd /\ module.tcp /\ cmd # "$$$"))
        /\ \/ a = r[2] /\ UNCHANGED lost
           \/ a = "none" /\ r[2] # "none" /\ lost < MaxLost /\ lost' = lost + 1

Answers == {"none", "CMD", "AOK", "Stor", "IP", "Associated", "FAILED", "DHCP=ON", "EXIT",
            "CLOS", "Connected", "OPEN", "ERR"}

Init ==
    /\ op = "join" /\ script = JoinScript /\ phase = "enter"
    /\ cmd_mode = FALSE
    /\ module = [cmd |-> FALSE, tcp |-> FALSE, assoc |-> FALSE]
    /\ tries = 0 /\ joins = 0 /\ wireless_open = FALSE /\ leaked = FALSE /\ lost = 0

Goto(o, s, p) == op' = o /\ script' = s /\ phase' = p

-----------------------------------------------------------------------------
(* sendCommand enters command mode first if the driver believes it is not     *)
(* there; whether that works is not looked at.                                *)
EnterCommand ==
    /\ phase = "enter"
    /\ \/ /\ cmd_mode
          /\ UNCHANGED <<cmd_mode, module, leaked, lost>>
       \/ /\ ~cmd_mode
          /\ \E a \in Answers : send("$$$", a) /\ cmd_mode' = (a = "CMD")
    /\ phase' = "command"
    /\ UNCHANGED <<op, script, tries, joins, wireless_open>>

(* The command is acknowledged: on to the next one. *)
Acked ==
    /\ phase = "command" /\ script[1][2] # "any"
    /\ \E a \in Answers : script[1][2] \in {a, "ignored"} /\ send(script[1][1], a)
    /\ script' = Tail(script)
    /\ phase' = IF Tail(script) = <<>> THEN "end" ELSE "enter"
    /\ UNCHANGED <<op, cmd_mode, tries, joins, wireless_open>>

(* It is not: the driver leaves command mode, the operation fails. *)
NotAcked ==
    /\ phase = "command" /\ script[1][2] \notin {"any", "ignored"}
    /\ \E a \in Answers \ {script[1][2]} : send(script[1][1], a)
    /\ phase' = "exit_failed"
    /\ UNCHANGED <<op, script, cmd_mode, tries, joins, wireless_open>>

OpenedBy(a) == a = "OPEN"

(* open: the answer is read, whatever it is. *)
Open ==
    /\ phase = "command" /\ script[1][2] = "any"
    /\ \E a \in Answers :
          /\ send("open", a)
          /\ CASE OpenedBy(a) -> Goto(op, <<>>, "end")
               [] a = "Connected" /\ ~OpenedBy(a) -> Goto(op, ReopenScript, "enter")
               [] OTHER -> Goto(op, script, "failed")
    /\ UNCHANGED <<cmd_mode, tries, joins, wireless_open>>

(* exit: nothing is sent unless the driver believes it is in command mode.    *)
(* After a failure, or at the end of an operation.                            *)
exit ==
    /\ \/ phase = "exit_failed" /\ phase' = "failed"
       \/ phase = "end" /\ op # "connect" /\ phase' = "done"
    /\ \/ /\ ~cmd_mode
          /\ UNCHANGED <<cmd_mode, module, leaked, lost>>
       \/ /\ cmd_mode
          /\ \E a \in Answers : send("exit", a) /\ cmd_mode' = (a # "EXIT")
    /\ UNCHANGED <<op, script, tries, joins, wireless_open>>

-----------------------------------------------------------------------------
(* join: a failed command starts the next attempt; a failed save gives up. *)
JoinFailed ==
    /\ op = "join" /\ phase = "failed"
    /\ IF joins + 1 < MAX_TRY_JOIN /\ script[1][1] # "save"
       THEN /\ joins' = joins + 1 /\ Goto("join", JoinScript, "enter")
            /\ UNCHANGED tries
       ELSE /\ joins' = 0 /\ tries' = tries + 1
            /\ IF tries + 1 < MAX_TRY THEN Goto("join", JoinScript, "enter")
               ELSE Goto("over", <<>>, "done")
    /\ UNCHANGED <<cmd_mode, module, wireless_open, leaked, lost>>

JoinDone ==
    /\ op = "join" /\ phase = "done"
    /\ Goto("ip", IpScript, "enter")
    /\ tries' = 0 /\ joins' = 0
    /\ UNCHANGED <<cmd_mode, module, wireless_open, leaked, lost>>

(* getIPAddress asks for the address and leaves command mode. *)
IpDone ==
    /\ op = "ip" /\ phase = "done"
    /\ Goto("connect", ConnectScript, "first")
    /\ UNCHANGED <<cmd_mode, module, tries, joins, wireless_open, leaked, lost>>

(* Mutant of cmdMode: the mode the driver remembers is trusted. *)
cmdMode_Trusted(ok, no) ==
    \/ /\ cmd_mode /\ phase' = ok
       /\ UNCHANGED <<cmd_mode, module, leaked, lost>>
    \/ /\ ~cmd_mode
       /\ \E a \in Answers :
             /\ send("$$$", a)
             /\ cmd_mode' = (a = "CMD") /\ phase' = IF a = "CMD" THEN ok ELSE no

(* cmdMode: "$$$" is sent in any case; cmd_mode is only ever set by it. *)
cmdMode(ok, no) ==
    \E a \in Answers :
        /\ send("$$$", a)
        /\ cmd_mode' = (cmd_mode \/ a = "CMD")
        /\ phase' = IF a = "CMD" THEN ok ELSE no

(* connect: two attempts to enter command mode. *)
ConnectEnter ==
    /\ op = "connect" /\ phase \in {"first", "second"}
    /\ IF phase = "first" THEN cmdMode("command", "second") ELSE cmdMode("command", "return")
    /\ UNCHANGED <<op, script, tries, joins, wireless_open>>

(* Both have failed: an empty line, then exit. *)
ConnectReturn ==
    /\ phase = "return"
    /\ \E a \in Answers : send("\r", a)
    /\ phase' = "exit_failed"
    /\ UNCHANGED <<op, script, cmd_mode, tries, joins, wireless_open>>

ConnectFailed ==
    /\ op = "connect" /\ phase = "failed"
    /\ tries' = tries + 1
    /\ IF tries + 1 < MAX_TRY THEN Goto("connect", ConnectScript, "first")
       ELSE Goto("over", <<>>, "done")
    /\ UNCHANGED <<cmd_mode, module, joins, wireless_open, leaked, lost>>

(* The last string of connect is flushed, the socket does not block any more. *)
ConnectDone ==
    /\ op = "connect" /\ phase = "end"
    /\ wireless_open' = TRUE
    /\ Goto("over", <<>>, "done")
    /\ UNCHANGED <<cmd_mode, module, tries, joins, leaked, lost>>

Next ==
    \/ EnterCommand \/ Acked \/ NotAcked \/ Open \/ exit
    \/ JoinFailed \/ JoinDone \/ IpDone \/ ConnectEnter \/ ConnectReturn \/ ConnectFailed \/ ConnectDone

Spec == Init /\ [][Next]_vars

-----------------------------------------------------------------------------
(* When init_wifi says the network is open, the module has a connection and   *)
(* takes data, whichever answers got lost on the way: nothing the core sends  *)
(* is read as a command.                                                      *)
OpenTakesData == wireless_open => module.tcp /\ ~module.cmd

(* No command of the driver reaches the peer of the connection, even after    *)
(* the driver has lost track of the mode the module is in.                    *)
NoCommandToPeer == ~leaked

=============================================================================
