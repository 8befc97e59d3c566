------------------------------ MODULE Netconn ------------------------------
(***************************************************************************)
(* The sequential API of lwIP (lwip/api/api_lib.c, api_msg.c, tcpip.c):    *)
(* an application thread per netconn passes a message to the tcpip thread  *)
(* and waits for the netconn's semaphore; the tcpip thread runs the        *)
(* message's function, and the callbacks the TCP and UDP control blocks    *)
(* make when something arrives, is acknowledged, times out or fails.       *)
(*                                                                         *)
(* n.c[k] is a netconn: its state, control block, mailboxes, the message   *)
(* it is working on (cur), the semaphore, the last error, and what the     *)
(* socket layer counts for it (ev: items to read, snd: writable).          *)
(* n.p[j] is a control block, as far as this code sees it: it is external. *)
(* n.box is the mailbox of the tcpip thread, n.late an event it still has  *)
(* to signal.  call[k] is what the thread of netconn k is doing.           *)
(***************************************************************************)
EXTENDS Integers, Sequences, FiniteSets, FiniteSetsExt, SequencesExt

CONSTANTS Conns, Pcbs,        \* the pools MEMP_NUM_NETCONN and MEMP_NUM_TCP_PCB
          Types,              \* of netconns: "TCP", "UDP"
          NonBlocking,        \* netconns that are set non-blocking
          BoxSize,            \* DEFAULT_TCP_RECVMBOX_SIZE, DEFAULT_ACCEPTMBOX_SIZE
          Room, WriteLen,     \* TCP_SND_BUF, octets of a write
          Halves,             \* which halves netconn_shutdown may close: subset of {"RD", "WR"}
          Ops,                \* what the application does in this instance
          MaxNew, MaxCall, MaxEvent, MaxFail, MaxDns \* bounds

VARIABLES n, call, dns, spent
vars == <<n, call, dns, spent>>

Fatal == {"ABRT", "RST", "CLSD", "CONN", "ARG", "IF"} \* ERR_IS_FATAL
Boxed(q) == [ok |-> TRUE, q |-> q]
NoBox == [ok |-> FALSE, q |-> <<>>]
Nil == [kind |-> "NULL"]
Data == [kind |-> "DATA"]
NewConn(k) == [kind |-> "CONN", k |-> k]
Free == [used |-> FALSE, type |-> "TCP", state |-> "NONE", pcb |-> 0, recv |-> NoBox, acc |-> NoBox, cur |-> "none", err |-> "OK",
         len |-> 0, off |-> 0, sem |-> 0, nbc |-> FALSE, check |-> FALSE, last |-> "OK", ev |-> 0, snd |-> TRUE]
NoPcb == [st |-> "FREE", arg |-> 0, up |-> FALSE, recv |-> FALSE, sent |-> FALSE, poll |-> FALSE, err |-> FALSE, room |-> Room, got |-> 0,
          refused |-> FALSE]
Idle == [op |-> "idle", at |-> "none", how |-> "RDWR", res |-> "OK"]

-----------------------------------------------------------------------------
(* Netconns. *)

API_EVENT(st, k, e) ==
  CASE e = "RCVPLUS" -> [st EXCEPT !.c[k].ev = @ + 1] [] e = "RCVMINUS" -> [st EXCEPT !.c[k].ev = @ - 1]
    [] e = "SENDPLUS" -> [st EXCEPT !.c[k].snd = TRUE] [] e = "SENDMINUS" -> [st EXCEPT !.c[k].snd = FALSE]
SAFE_ERR(c, e) == IF c.last \in Fatal THEN c ELSE [c EXCEPT !.last = e]
(* The message of a netconn is answered. *)
Ack(st, k, e) == [st EXCEPT !.c[k].err = e, !.c[k].sem = @ + 1]
(* The message that was kept for later is answered. *)
Complete(st, k, e) == Ack([st EXCEPT !.c[k].cur = "none", !.c[k].state = "NONE"], k, e)

netconn_alloc(st, k, type) == [st EXCEPT !.c[k] = [Free EXCEPT !.used = TRUE, !.type = type, !.recv = Boxed(<<>>)]]
netconn_free(st, k) == [st EXCEPT !.c[k] = Free]
setup_tcp(st, k) ==
  [st EXCEPT !.p[st.c[k].pcb] = [@ EXCEPT !.arg = k, !.recv = TRUE, !.sent = TRUE, !.poll = TRUE, !.err = TRUE]]
TryPost(b, m) == IF b.ok /\ Len(b.q) < BoxSize THEN [b EXCEPT !.q = Append(@, m)] ELSE b
FullBox(b) == Len(b.q) >= BoxSize

-----------------------------------------------------------------------------
(* Callbacks of the control blocks. *)

ErrTold_Silent(st, k, e, old) ==
  IF old \in {"WRITE", "CLOSE"} THEN Ack([st EXCEPT !.c[k].cur = "none"], k, e) ELSE [st EXCEPT !.c[k].nbc = FALSE]
(* err_tcp: the control block is gone; whoever waits is told. *)
ErrTold(st, k, e, old) ==
  IF old \in {"WRITE", "CLOSE", "CONNECT"}
  THEN IF st.c[k].nbc THEN [st EXCEPT !.c[k].nbc = FALSE]
       ELSE Ack([st EXCEPT !.c[k].cur = "none"], k, e)
  ELSE st
err_tcp(st, k, e) ==
  ErrTold([st EXCEPT !.c[k] = [@ EXCEPT !.pcb = 0, !.last = e, !.state = "NONE", !.ev = @ + 1, !.snd = TRUE,
                                        !.recv = TryPost(@, Nil), !.acc = TryPost(@, Nil)]], k, e, st.c[k].state)
(* recv_tcp: a full mailbox refuses the data, which TCP offers again. *)
recv_tcp(st, k, j, m) ==
  IF ~ st.c[k].recv.ok THEN st
  ELSE IF FullBox(st.c[k].recv) THEN [st EXCEPT !.c[k] = SAFE_ERR(@, "OK"), !.p[j].refused = m = Data]
  ELSE API_EVENT([st EXCEPT !.c[k] = [SAFE_ERR(@, "OK") EXCEPT !.recv = TryPost(@, m)], !.p[j].refused = FALSE], k, "RCVPLUS")
(* recv_udp: posted now, the event comes after the mailbox has been seen.  Without room the datagram is dropped. *)
recv_udp(st, k) ==
  IF ~ st.c[k].recv.ok \/ FullBox(st.c[k].recv) THEN st
  ELSE [st EXCEPT !.c[k].recv = TryPost(@, Data), !.late = k]

(* do_writemore: as much as fits; mem is whether tcp_write finds memory. *)
WriteDone(st, k) == IF st.c[k].off = st.c[k].len THEN Complete([st EXCEPT !.c[k].off = 0], k, "OK") ELSE st
LowWater(st, k) == IF st.p[st.c[k].pcb].room = 0 THEN API_EVENT(st, k, "SENDMINUS") ELSE st
Written(st, k, j, len) ==
  WriteDone(LowWater([st EXCEPT !.p[j].room = @ - len, !.p[j].got = @ + len, !.c[k].off = @ + len], k), k)
Sendable(pcb) == pcb.st \in {"EST", "CLOSE_WAIT", "SYN_SENT"}
WriteSome(st, k, j, len, mem) ==
  IF k \in NonBlocking /\ (len < st.c[k].len \/ (~ mem /\ Sendable(st.p[j])))
  THEN API_EVENT(Complete([st EXCEPT !.c[k].check = TRUE], k, "WOULDBLOCK"), k, "SENDMINUS")
  ELSE IF ~ Sendable(st.p[j]) THEN Complete(st, k, "CONN")
  ELSE IF mem THEN Written(st, k, j, len) ELSE LowWater(st, k)
do_writemore(st, k, mem) ==
  WriteSome(st, k, st.c[k].pcb, Min({st.c[k].len - st.c[k].off, st.p[st.c[k].pcb].room}), mem)

(* do_close_internal: ok is whether tcp_close or tcp_shutdown can send.    *)
(* Both halves: the callbacks are taken off before and put back if it      *)
(* failed.                                                                 *)
TcpClosed(pcb, how) ==
  IF how = "RDWR" THEN NoPcb
  ELSE [pcb EXCEPT !.recv = how # "RD", !.sent = how # "WR",
                   !.st = IF how = "WR" /\ @ \in {"EST", "CLOSE_WAIT"} THEN "FIN_WAIT" ELSE @,
                   !.refused = IF how = "RD" THEN FALSE ELSE @]
CloseEvents(st, k, how) ==
  [st EXCEPT !.c[k].ev = IF how \in {"RDWR", "RD"} THEN @ + 1 ELSE @, !.c[k].snd = IF how \in {"RDWR", "WR"} THEN TRUE ELSE @]
do_close_internal_NoPoll(st, k, how, ok) ==
  IF ok \/ how = "RD" \/ st.p[st.c[k].pcb].st \in {"LISTEN", "CLOSED", "SYN_SENT"}
  THEN CloseEvents(Complete([st EXCEPT !.p[st.c[k].pcb] = TcpClosed(@, how), !.c[k].pcb = 0], k, "OK"), k, how)
  ELSE [st EXCEPT !.p[st.c[k].pcb] = [@ EXCEPT !.sent = FALSE, !.poll = FALSE, !.err = TRUE, !.arg = k]]
do_close_internal(st, k, how, ok) ==
  IF ok \/ how = "RD" \/ st.p[st.c[k].pcb].st \in {"LISTEN", "CLOSED", "SYN_SENT"}
  THEN CloseEvents(Complete([st EXCEPT !.p[st.c[k].pcb] = TcpClosed(@, how), !.c[k].pcb = 0], k, "OK"), k, how)
  ELSE [st EXCEPT !.p[st.c[k].pcb] = [@ EXCEPT !.sent = TRUE, !.poll = TRUE, !.err = TRUE, !.arg = k, !.recv = @ /\ how = "WR"]]

Resume(st, k, how, mem) ==
  CASE st.c[k].state = "WRITE" -> do_writemore(st, k, mem)
    [] st.c[k].state = "CLOSE" -> do_close_internal(st, k, how, mem)
    [] OTHER -> st
Spacious(st, k) == st.c[k].pcb # 0 /\ st.p[st.c[k].pcb].room > 0
Writable(st, k) == IF Spacious(st, k) THEN API_EVENT([st EXCEPT !.c[k].check = FALSE], k, "SENDPLUS") ELSE st
PolledSpace(st, k) == IF st.c[k].check THEN Writable(st, k) ELSE st
poll_tcp(st, k, how, mem) == PolledSpace(Resume(st, k, how, mem), k)
sent_tcp(st, k, how, mem) == Writable(Resume(st, k, how, mem), k)

(* accept_function: a netconn for the new connection, if the mailbox takes it. *)
Accepted(st, k, new, j) ==
  IF FullBox(st.c[k].acc) THEN [st EXCEPT !.p[j] = NoPcb]
  ELSE API_EVENT(setup_tcp([netconn_alloc(st, new, "TCP") EXCEPT !.c[new].pcb = j, !.c[k].acc = TryPost(@, NewConn(new))], new), k, "RCVPLUS")
Unused(st) == {k \in Conns : ~ st.c[k].used}
accept_function(st, k, j) ==
  IF ~ st.c[k].acc.ok \/ Unused(st) = {} THEN [st EXCEPT !.p[j] = NoPcb] ELSE Accepted(st, k, Min(Unused(st)), j)

(* do_connected *)
do_connected(st, k) ==
  IF st.c[k].nbc
  THEN API_EVENT([setup_tcp(st, k) EXCEPT !.c[k] = [SAFE_ERR(@, "OK") EXCEPT !.nbc = FALSE, !.cur = "none", !.state = "NONE"]], k, "SENDPLUS")
  ELSE API_EVENT(Complete(setup_tcp(st, k), k, "OK"), k, "SENDPLUS")

-----------------------------------------------------------------------------
(* Messages. *)

(* netconn_drain: what was received is dropped, connections nobody accepted are aborted. *)
DrainRecv(st, k) == [st EXCEPT !.c[k].recv = NoBox]
Refuse(st, k) ==
  LET aborted == IF st.c[k].pcb = 0 THEN st ELSE [st EXCEPT !.p[st.c[k].pcb] = NoPcb] IN netconn_free(aborted, k)
Waiting(b) == {b.q[i].k : i \in {i \in DOMAIN b.q : b.q[i].kind = "CONN"}}
DrainAccept(st, k) == [FoldSet(LAMBDA new, s : Refuse(s, new), st, Waiting(st.c[k].acc)) EXCEPT !.c[k].acc = NoBox]
netconn_drain(st, k) == DrainAccept(DrainRecv(st, k), k)

FreePcbs(st) == {j \in Pcbs : st.p[j].st = "FREE"}
(* pcb_new *)
pcb_new(st, k) ==
  IF FreePcbs(st) = {} THEN Ack(st, k, "MEM")
  ELSE LET j == Min(FreePcbs(st))
           got == [st EXCEPT !.p[j] = [NoPcb EXCEPT !.st = IF st.c[k].type = "UDP" THEN "UDP" ELSE "CLOSED", !.arg = k], !.c[k].pcb = j]
       IN Ack(IF st.c[k].type = "TCP" THEN setup_tcp(got, k) ELSE got, k, "OK")
do_newconn(st, k) == IF st.c[k].pcb = 0 THEN pcb_new(st, k) ELSE Ack(st, k, "OK")
(* Deleting closes both halves; the thread waits until that has worked. *)
DelPcb(st, k, mem) ==
  CASE st.c[k].pcb # 0 /\ st.c[k].type = "TCP" -> do_close_internal([st EXCEPT !.c[k].state = "CLOSE", !.c[k].cur = "delconn"], k, "RDWR", mem)
    [] st.c[k].pcb # 0 /\ st.c[k].type = "UDP" -> CloseEvents(Ack([st EXCEPT !.p[st.c[k].pcb] = NoPcb, !.c[k].pcb = 0], k, "OK"), k, "RDWR")
    [] st.c[k].pcb = 0 -> CloseEvents(Ack(st, k, "OK"), k, "RDWR")
do_delconn(st, k, mem) ==
  IF st.c[k].state \notin {"NONE", "LISTEN", "CONNECT"} THEN Ack(st, k, "INPROGRESS") ELSE DelPcb(netconn_drain(st, k), k, mem)
Dead(c) == c.last \in Fatal
do_bind(st, k) == Ack(st, k, IF Dead(st.c[k]) THEN st.c[k].last ELSE IF st.c[k].pcb = 0 THEN "VAL" ELSE "OK")
(* tcp_connect may find no route, port or buffer. *)
ConnectTcp(st, k, mem) ==
  LET sent == [setup_tcp(st, k) EXCEPT !.p[st.c[k].pcb].st = "SYN_SENT", !.c[k].state = "CONNECT", !.c[k].nbc = k \in NonBlocking]
  IN IF ~ mem \/ st.p[st.c[k].pcb].st # "CLOSED" THEN Ack(setup_tcp(st, k), k, IF st.p[st.c[k].pcb].st = "CLOSED" THEN "MEM" ELSE "ISCONN")
     ELSE IF k \in NonBlocking THEN Ack(sent, k, "INPROGRESS") ELSE [sent EXCEPT !.c[k].cur = "connect"]
do_connect(st, k, mem) ==
  CASE st.c[k].pcb = 0 -> Ack(st, k, "CLSD")
    [] st.c[k].pcb # 0 /\ st.c[k].type = "UDP" -> Ack([st EXCEPT !.p[st.c[k].pcb].up = TRUE], k, "OK")
    [] st.c[k].pcb # 0 /\ st.c[k].type = "TCP" ->
         IF st.c[k].state # "NONE" THEN Ack(st, k, "ISCONN") ELSE ConnectTcp(st, k, mem)
do_disconnect(st, k) ==
  IF st.c[k].type = "UDP" THEN Ack([st EXCEPT !.p[st.c[k].pcb].up = FALSE], k, "OK") ELSE Ack(st, k, "VAL")
(* box is whether there is a mailbox, mem whether tcp_listen finds a smaller block. *)
Listening(st, k, box) ==
  IF ~ box THEN Ack([st EXCEPT !.p[st.c[k].pcb] = NoPcb, !.c[k].pcb = 0, !.c[k].recv = NoBox], k, "MEM")
  ELSE Ack([st EXCEPT !.p[st.c[k].pcb] = [NoPcb EXCEPT !.st = "LISTEN", !.arg = k],
                      !.c[k] = [@ EXCEPT !.recv = NoBox, !.acc = Boxed(<<>>), !.state = "LISTEN"]], k, "OK")
do_listen(st, k, mem, box) ==
  CASE Dead(st.c[k]) -> Ack(st, k, st.c[k].last)
    [] ~ Dead(st.c[k]) /\ (st.c[k].pcb = 0 \/ st.c[k].type # "TCP" \/ st.c[k].state # "NONE") -> Ack(st, k, "CONN")
    [] OTHER -> IF mem /\ st.p[st.c[k].pcb].st = "CLOSED" THEN Listening(st, k, box) ELSE Ack(st, k, "MEM")
do_send(st, k) ==
  Ack(st, k, CASE Dead(st.c[k]) -> st.c[k].last
               [] ~ Dead(st.c[k]) /\ (st.c[k].pcb = 0 \/ st.c[k].type = "TCP") -> "CONN"
               [] OTHER -> "OK")
(* tcp_recved: TCP may now offer again what was refused. *)
do_recv(st, k) == Ack(st, k, "OK")
do_write(st, k, mem) ==
  CASE Dead(st.c[k]) -> Ack(st, k, st.c[k].last)
    [] ~ Dead(st.c[k]) /\ st.c[k].type = "TCP" /\ st.c[k].state # "NONE" -> Ack(st, k, "INPROGRESS")
    [] ~ Dead(st.c[k]) /\ st.c[k].type = "TCP" /\ st.c[k].state = "NONE" /\ st.c[k].pcb # 0 ->
         do_writemore([st EXCEPT !.c[k] = [@ EXCEPT !.state = "WRITE", !.cur = "write", !.len = WriteLen, !.off = 0]], k, mem)
    [] OTHER -> Ack(st, k, IF st.c[k].type = "TCP" THEN "CONN" ELSE "VAL")
do_getaddr(st, k) ==
  Ack(st, k, IF st.c[k].pcb = 0 \/ (st.c[k].type = "UDP" /\ ~ st.p[st.c[k].pcb].up) THEN "CONN" ELSE "OK")
do_join_leave_group(st, k) ==
  Ack(st, k, CASE Dead(st.c[k]) -> st.c[k].last
               [] ~ Dead(st.c[k]) /\ st.c[k].pcb = 0 -> "CONN"
               [] OTHER -> IF st.c[k].type = "UDP" THEN "OK" ELSE "VAL")
CloseHalf(st, k, how, mem) ==
  do_close_internal([(IF how = "WR" THEN st ELSE netconn_drain(st, k)) EXCEPT !.c[k].state = "CLOSE", !.c[k].cur = "close"], k, how, mem)
do_close(st, k, how, mem) ==
  CASE st.c[k].state \notin {"NONE", "LISTEN"} -> Ack(st, k, "INPROGRESS")
    [] st.c[k].state \in {"NONE", "LISTEN"} /\ st.c[k].pcb # 0 /\ st.c[k].type = "TCP" ->
         IF how # "RDWR" /\ st.c[k].state = "LISTEN" THEN Ack(st, k, "CONN") ELSE CloseHalf(st, k, how, mem)
    [] OTHER -> Ack(st, k, "VAL")

-----------------------------------------------------------------------------
(* The tcpip thread: one message, or one callback, at a time. *)

Spend(what, bound) == spent[what] < bound /\ spent' = [spent EXCEPT ![what] = @ + 1]
Charge(what, bound, mem) ==
  /\ spent[what] < bound /\ (mem \/ spent.fail < MaxFail)
  /\ spent' = [spent EXCEPT ![what] = @ + 1, !.fail = IF mem THEN @ ELSE @ + 1]
Failing(mem) ==
  /\ mem \/ spent.fail < MaxFail
  /\ spent' = [spent EXCEPT !.fail = IF mem THEN @ ELSE @ + 1]
Run(st, k, op, how, mem, box) ==
  CASE op = "newconn" -> do_newconn(st, k) [] op = "delconn" -> do_delconn(st, k, mem) [] op = "bind" -> do_bind(st, k)
    [] op = "connect" -> do_connect(st, k, mem) [] op = "disconnect" -> do_disconnect(st, k) [] op = "listen" -> do_listen(st, k, mem, box)
    [] op = "send" -> do_send(st, k) [] op = "recv" -> do_recv(st, k) [] op = "write" -> do_write(st, k, mem)
    [] op = "getaddr" -> do_getaddr(st, k) [] op = "join" -> do_join_leave_group(st, k) [] op = "close" -> do_close(st, k, how, mem)
tcpip_thread(mem, box) ==
  /\ n.late = 0 /\ n.box # <<>> /\ Failing(mem /\ box)
  /\ ~ mem => call[Head(n.box)].op \in {"delconn", "listen", "connect", "write", "close"}
  /\ ~ box => mem /\ call[Head(n.box)].op = "listen"
  /\ n' = Run([n EXCEPT !.box = Tail(@)], Head(n.box), call[Head(n.box)].op, call[Head(n.box)].how, mem, box)
  /\ UNCHANGED <<call, dns>>
LateEvent == n.late # 0 /\ n' = API_EVENT([n EXCEPT !.late = 0], n.late, "RCVPLUS") /\ UNCHANGED <<call, dns, spent>>

(* What the control blocks report: progress is unbounded, the rest MaxEvent times. *)
Arg(j) == n.p[j].arg
Quiet == n.late = 0 /\ UNCHANGED <<call, dns>>
Connected(j) ==
  /\ Quiet /\ n.p[j].st = "SYN_SENT" /\ UNCHANGED spent
  /\ n' = do_connected([n EXCEPT !.p[j].st = "EST"], Arg(j))
Acked(j, mem) ==
  /\ Quiet /\ n.p[j].st \in {"EST", "CLOSE_WAIT"} /\ n.p[j].room < Room /\ Failing(mem)
  /\ n' = LET st == [n EXCEPT !.p[j].room = Room] IN IF n.p[j].sent /\ Arg(j) # 0 THEN sent_tcp(st, Arg(j), call[Arg(j)].how, mem) ELSE st
Poll(j, mem) ==
  /\ Quiet /\ n.p[j].st # "FREE" /\ n.p[j].poll /\ Arg(j) # 0 /\ Failing(mem)
  /\ ~ mem => n.c[Arg(j)].state \in {"WRITE", "CLOSE"}
  /\ n' = poll_tcp(n, Arg(j), call[Arg(j)].how, mem)
Offer(j) ==
  /\ Quiet /\ n.p[j].refused /\ UNCHANGED spent
  /\ n' = IF n.p[j].recv THEN recv_tcp(n, Arg(j), j, Data) ELSE [n EXCEPT !.p[j].refused = FALSE]
Receive(j) ==
  /\ Quiet /\ n.p[j].st \in {"EST", "FIN_WAIT"} /\ ~ n.p[j].refused /\ Spend("event", MaxEvent)
  /\ n' = IF n.p[j].recv THEN recv_tcp(n, Arg(j), j, Data) ELSE n
Fin(j) ==
  /\ Quiet /\ n.p[j].st \in {"EST"} /\ ~ n.p[j].refused /\ Spend("event", MaxEvent)
  /\ n' = LET st == [n EXCEPT !.p[j].st = "CLOSE_WAIT"] IN IF n.p[j].recv THEN recv_tcp(st, Arg(j), j, Nil) ELSE st
Fail(j, e) ==
  /\ Quiet /\ n.p[j].st \in {"SYN_SENT", "EST", "CLOSE_WAIT", "FIN_WAIT"} /\ Spend("event", MaxEvent)
  /\ n' = LET st == [n EXCEPT !.p[j] = NoPcb] IN IF n.p[j].err /\ Arg(j) # 0 THEN err_tcp(st, Arg(j), e) ELSE st
Incoming(j) ==
  /\ Quiet /\ n.p[j].st = "LISTEN" /\ FreePcbs(n) # {} /\ Spend("event", MaxEvent)
  /\ n' = LET new == Min(FreePcbs(n)) IN accept_function([n EXCEPT !.p[new] = [NoPcb EXCEPT !.st = "EST"]], Arg(j), new)
Datagram(j) == Quiet /\ n.p[j].st = "UDP" /\ Spend("event", MaxEvent) /\ n' = recv_udp(n, Arg(j))

-----------------------------------------------------------------------------
(* The application. *)

(* tcpip_apimsg: the message is posted and the thread waits. *)
tcpip_apimsg(st, k) == [st EXCEPT !.box = Append(@, k)]
Calling(k, op, how) == call' = [call EXCEPT ![k] = [op |-> op, at |-> "wait", how |-> how, res |-> "OK"]]
netconn_new_with_proto_and_callback(type) ==
  /\ Unused(n) # {} /\ Spend("new", MaxNew) /\ UNCHANGED dns
  /\ LET k == Min(Unused(n)) IN n' = tcpip_apimsg(netconn_alloc(n, k, type), k) /\ Calling(k, "newconn", "RDWR")
Ready(k) == call[k].op = "idle" /\ UNCHANGED dns
Request(k, op, how) ==
  /\ Ready(k) /\ op \in Ops /\ Spend("call", MaxCall) /\ n' = tcpip_apimsg(n, k) /\ Calling(k, op, how)
netconn_bind(k) == Request(k, "bind", "RDWR")
netconn_connect(k) == Request(k, "connect", "RDWR")
netconn_disconnect(k) == n.c[k].type = "UDP" /\ Request(k, "disconnect", "RDWR")
netconn_listen_with_backlog(k) == Request(k, "listen", "RDWR")
netconn_send(k) == Request(k, "send", "RDWR")
netconn_write(k) == n.c[k].type = "TCP" /\ Request(k, "write", "RDWR")
netconn_getaddr(k) == Request(k, "getaddr", "RDWR")
netconn_join_leave_group(k) == Request(k, "join", "RDWR")
netconn_close_shutdown(k, how) == Request(k, "close", how)
netconn_close(k) == netconn_close_shutdown(k, "RDWR")
netconn_shutdown(k, half) == half \in Halves /\ netconn_close_shutdown(k, half)
(* Deleting is not bounded: every netconn may be deleted. *)
netconn_delete(k) == Ready(k) /\ UNCHANGED spent /\ n' = tcpip_apimsg(n, k) /\ Calling(k, "delconn", "RDWR")

(* netconn_recv_data and netconn_accept: an answer at once, or the mailbox. *)
At(k, op, at, res) == call' = [call EXCEPT ![k] = [op |-> op, at |-> at, how |-> "RDWR", res |-> res]]
Fetch(k, b, invalid) ==
  CASE ~ b.ok -> At(k, "idle", "none", invalid)
    [] b.ok /\ Dead(n.c[k]) -> At(k, "idle", "none", n.c[k].last)
    [] OTHER -> At(k, "recv", "fetch", "OK")
netconn_recv(k) == Ready(k) /\ "recv" \in Ops /\ Spend("call", MaxCall) /\ UNCHANGED n /\ Fetch(k, n.c[k].recv, "CONN")
(* No netbuf for the received data. *)
RecvNoNetbuf(k) ==
  /\ Ready(k) /\ "recv" \in Ops /\ n.c[k].recv.ok /\ n.c[k].type = "TCP" /\ Charge("call", MaxCall, FALSE)
  /\ n' = [n EXCEPT !.c[k] = SAFE_ERR(@, "MEM")] /\ At(k, "idle", "none", "MEM")
netconn_accept(k) ==
  /\ Ready(k) /\ "accept" \in Ops /\ n.c[k].acc.ok /\ Spend("call", MaxCall) /\ UNCHANGED n /\ Fetch(k, n.c[k].acc, "ARG")
Fetching(k) == call[k].at = "fetch" /\ UNCHANGED <<dns, spent>>
netconn_recv_data(k) ==
  /\ Fetching(k) /\ n.c[k].recv.q # <<>>
  /\ LET item == Head(n.c[k].recv.q)  st == [n EXCEPT !.c[k].recv.q = Tail(@)]
     IN IF n.c[k].type = "TCP"
        THEN n' = tcpip_apimsg(st, k) /\ At(k, "recv", "wait", IF item = Nil THEN "CLSD" ELSE "OK")
        ELSE n' = API_EVENT(st, k, "RCVMINUS") /\ At(k, "idle", "none", "OK")
AcceptFetch(k) ==
  /\ Fetching(k) /\ n.c[k].acc.q # <<>>
  /\ LET item == Head(n.c[k].acc.q)
     IN /\ n' = API_EVENT([n EXCEPT !.c[k].acc.q = Tail(@)], k, "RCVMINUS")
        /\ call' = [call EXCEPT ![k] = Idle, ![item.k] = Idle]
(* recv_timeout *)
FetchTimeout(k) ==
  /\ Fetching(k) /\ "timeout" \in Ops /\ n.c[k].recv.q = <<>> /\ n.c[k].acc.q = <<>>
  /\ n' = [n EXCEPT !.c[k] = SAFE_ERR(@, "TIMEOUT")] /\ At(k, "idle", "none", "TIMEOUT")

(* The semaphore is signalled: what the call does with the answer. *)
Answer(k) == IF call[k].op = "recv" THEN call[k].res ELSE n.c[k].err
Gone == [op |-> "none", at |-> "none", how |-> "RDWR", res |-> "OK"]
Returned(st, k, op, e) ==
  CASE op = "newconn" -> IF e = "OK" THEN st ELSE netconn_free(st, k)
    [] op = "delconn" -> netconn_free(st, k)
    [] op = "recv" -> LET took == API_EVENT(st, k, "RCVMINUS") IN IF e = "CLSD" THEN [took EXCEPT !.c[k] = SAFE_ERR(@, "CLSD")] ELSE took
    [] OTHER -> [st EXCEPT !.c[k] = SAFE_ERR(@, e)]
Return(k) ==
  /\ call[k].at = "wait" /\ n.c[k].sem > 0 /\ UNCHANGED <<dns, spent>>
  /\ n' = Returned([n EXCEPT !.c[k].sem = @ - 1], k, call[k].op, Answer(k))
  /\ call' = [call EXCEPT ![k] = IF call[k].op = "delconn" \/ (call[k].op = "newconn" /\ Answer(k) # "OK") THEN Gone
                                 ELSE [Idle EXCEPT !.res = Answer(k)]]

(* netconn_gethostbyname: the thread waits for the answer, whether or not  *)
(* the message could be passed on.                                         *)
netconn_gethostbyname(mem) ==
  dns = "idle" /\ Charge("dns", MaxDns, mem) /\ dns' = (IF mem THEN "queued" ELSE "unheard") /\ UNCHANGED <<n, call>>
do_gethostbyname(known) == dns = "queued" /\ n.late = 0 /\ dns' = (IF known THEN "answered" ELSE "asked") /\ UNCHANGED <<n, call, spent>>
do_dns_found == dns = "asked" /\ n.late = 0 /\ dns' = "answered" /\ UNCHANGED <<n, call, spent>>
DnsReturn == dns = "answered" /\ dns' = "idle" /\ UNCHANGED <<n, call, spent>>

Init ==
  /\ n = [c |-> [k \in Conns |-> Free], p |-> [j \in Pcbs |-> NoPcb], box |-> <<>>, late |-> 0]
  /\ call = [k \in Conns |-> Gone] /\ dns = "idle"
  /\ spent = [w \in {"new", "call", "event", "fail", "dns"} |-> 0]
Tcpip ==
  \/ \E mem, box \in BOOLEAN : tcpip_thread(mem, box)
  \/ LateEvent
  \/ \E known \in BOOLEAN : do_gethostbyname(known)
  \/ do_dns_found
  \/ \E j \in Pcbs : Connected(j) \/ Offer(j) \/ Receive(j) \/ Fin(j) \/ Fail(j, "RST") \/ Incoming(j) \/ Datagram(j)
                     \/ \E mem \in BOOLEAN : Acked(j, mem) \/ Poll(j, mem)
App(k) ==
  \/ netconn_bind(k) \/ netconn_connect(k) \/ netconn_disconnect(k) \/ netconn_listen_with_backlog(k) \/ netconn_send(k)
  \/ netconn_write(k) \/ netconn_getaddr(k) \/ netconn_join_leave_group(k) \/ netconn_close(k) \/ netconn_delete(k)
  \/ (\E half \in Halves : netconn_shutdown(k, half))
  \/ netconn_recv(k) \/ RecvNoNetbuf(k) \/ netconn_accept(k)
  \/ netconn_recv_data(k) \/ AcceptFetch(k) \/ FetchTimeout(k) \/ Return(k)
Next ==
  \/ Tcpip
  \/ \E type \in Types : netconn_new_with_proto_and_callback(type)
  \/ \E k \in Conns : App(k)
  \/ (\E mem \in BOOLEAN : netconn_gethostbyname(mem))
  \/ DnsReturn
Spec == Init /\ [][Next]_vars

-----------------------------------------------------------------------------
(* Properties. *)

(* Types: the states of enum netconn_state, a write offset within the data,   *)
(* and mailboxes that never hold more than their size.                        *)
TypeOK ==
  /\ \A k \in Conns : n.c[k].state \in {"NONE", "WRITE", "LISTEN", "CONNECT", "CLOSE"} /\ n.c[k].pcb \in Pcbs \cup {0}
                      /\ n.c[k].off \in 0 .. WriteLen /\ Len(n.c[k].recv.q) <= BoxSize /\ Len(n.c[k].acc.q) <= BoxSize
  /\ \A j \in Pcbs : n.p[j].room \in 0 .. Room /\ n.p[j].arg \in Conns \cup {0}
  /\ n.late \in Conns \cup {0}

Kept(k) == n.c[k].cur # "none" /\ n.c[k].pcb # 0 /\ n.p[n.c[k].pcb].st # "FREE"
Pending(k) == Cardinality({i \in DOMAIN n.box : n.box[i] = k}) + (IF Kept(k) THEN 1 ELSE 0) + n.c[k].sem
(* A call is answered exactly once: while a thread waits, its message is   *)
(* in the mailbox, or kept by the netconn while a control block is there   *)
(* to call back for it, or the semaphore is signalled,                     *)
(* and when no thread waits none of these: no wake-up is lost and none is  *)
(* left over for the next call.                                            *)
AnsweredOnce == \A k \in Conns : Pending(k) = IF call[k].at = "wait" THEN 1 ELSE 0

(* A control block's callbacks reach the netconn that owns it: recv_tcp    *)
(* asserts it.  No callback is left behind for a netconn that is gone.     *)
RightPcb == \A j \in Pcbs : n.p[j].st # "FREE" /\ n.p[j].recv => n.c[n.p[j].arg].used /\ n.c[n.p[j].arg].pcb = j

(* Nothing leaks: a netconn in use belongs to a thread or waits in the     *)
(* mailbox of one listening netconn, and every control block to a netconn. *)
NothingLost ==
  /\ \A k \in Conns : n.c[k].used /\ call[k].op = "none" => \E l \in Conns : k \in Waiting(n.c[l].acc)
  /\ \A k \in Conns : ~ n.c[k].used => call[k].op = "none" /\ \A l \in Conns : k \notin Waiting(n.c[l].acc)
  /\ \A j \in Pcbs : n.p[j].st # "FREE" => \E k \in Conns : n.c[k].pcb = j

InFlight(k) == (IF n.late = k THEN 1 ELSE 0) - (IF call[k].op = "recv" /\ call[k].at = "wait" THEN 1 ELSE 0)
(* What select counts as readable is what is in the mailboxes, apart from  *)
(* an event on its way and a read that has not finished: select neither    *)
(* misses data nor lets a read block.                                      *)
EventsCount == \A k \in Conns : n.c[k].used /\ n.c[k].pcb # 0 /\ n.c[k].state # "CLOSE" =>
  n.c[k].ev + InFlight(k) = Len(n.c[k].recv.q) + Len(n.c[k].acc.q)

(* A write is all or nothing as long as the connection lives: a write that *)
(* has ended handed over a whole number of messages.                       *)
WriteWhole == \A k \in Conns : n.c[k].pcb # 0 /\ n.c[k].cur # "write" => n.p[n.c[k].pcb].got % WriteLen = 0

=============================================================================
