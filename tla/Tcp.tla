-------------------------------- MODULE Tcp --------------------------------
(* Two TCP ends of lwIP (core/tcp.c, tcp_in.c, tcp_out.c) over a network     *)
(* that loses, repeats and reorders segments: "a" connects, "b" listens.     *)
(* Each end has one protocol control block (PCB) and one netconn above it,   *)
(* whose mailbox for received data (recv_tcp of api/api_msg.c) is bounded.   *)
(* The build leaves out of order segments (TCP_QUEUE_OOSEQ 0), oversized     *)
(* pbufs, timestamps and the backlog out.                                    *)
(*                                                                           *)
(* A byte is its position in the stream its end has written, so what arrives *)
(* can be compared with what was sent.  Sequence numbers wrap at SEQ.  Time  *)
(* is abstracted: a step of tcp_slowtmr stands for the ticks up to the next  *)
(* expiry, and `ticks' bounds the number of them.  Checksums, round trip     *)
(* estimation and failing allocation of a header are left out.               *)
EXTENDS Integers, Sequences, FiniteSets, FiniteSetsExt, TLC

CONSTANTS
  SEQ,               \* the size of the space of sequence numbers (2^32)
  ISS,               \* the first initial sequence number (tcp_next_iss: 6510)
  TCP_MSS, SYN_MSS,  \* segment size after, and before, the peer has told its own
  TCP_WND, TCP_SND_BUF, TCP_SND_QUEUELEN, CWND_MAX,
  MBOX,              \* the size of the mailbox of a netconn
  TCP_MAXRTX, TCP_SYNMAXRTX,
  Bytes,             \* the lengths of the writes of an end, one after another
  Closers, Shutters, \* the ends whose program closes, or shuts the sending side
  Hasty,             \* a program may close or shut before its data is acknowledged
  Unread,            \* the program at "b" may close before it has read to the end
  Early,             \* a timer may expire while segments are under way
  Expire,            \* FIN_WAIT_2, SYN_RCVD and LAST_ACK may last too long
  Keepalive,         \* SOF_KEEPALIVE is set
  MaxTicks, MaxFaults, MaxNet   \* bounds of this model

Ends == {"a", "b"}
Peer(e) == IF e = "a" THEN "b" ELSE "a"

VARIABLES
  pcb,    \* the control block of each end; state "CLOSED": there is none
  conn,   \* the netconn of each end and what its program has seen; cut: an ACK was
          \* taken for that of an unsent FIN, missed: the end found no room
  net,    \* the segments under way, each with the end it goes to
  iss,    \* the static iss of tcp_next_iss at each end
  ticks, faults
vars == <<pcb, conn, net, iss, ticks, faults>>

-----------------------------------------------------------------------------
(* Sequence numbers: TCP_SEQ_LT and its relatives compare as s32_t.          *)
Lt(x, y) == (x - y) % SEQ >= SEQ \div 2
Leq(x, y) == x = y \/ Lt(x, y)
Between(x, l, h) == Leq(l, x) /\ Leq(x, h)
Plus(x, n) == (x + n) % SEQ

TCP_TCPLEN(s) == Len(s.data) + (IF s.flags \cap {"SYN", "FIN"} # {} THEN 1 ELSE 0)
Last(q) == q[Len(q)]
\* How many elements at the head of q pass the test.
Lead(q, Test(_)) == Max({j \in 0..Len(q) : \A i \in 1..j : Test(q[i])})
From(q, n) == SubSeq(q, n + 1, Len(q))
Clen(q, n) == MapThenSumSet(LAMBDA i : q[i].clen, 1..n)
Mss(p) == IF p.state = "SYN_SENT" THEN SYN_MSS ELSE TCP_MSS

tcp_alloc(first) ==
  [state |-> "CLOSED", snd_nxt |-> first, lastack |-> first, lbb |-> first,
   snd_wnd |-> 0, wl1 |-> 0, wl2 |-> first, snd_buf |-> TCP_SND_BUF, qlen |-> 0,
   unsent |-> <<>>, unacked |-> <<>>, rcv_nxt |-> 0, rcv_wnd |-> TCP_WND,
   ann_wnd |-> TCP_WND, edge |-> 0, cwnd |-> 1, ssthresh |-> 0, dup |-> 0,
   nrtx |-> 0, rtime |-> FALSE, persist |-> FALSE, flags |-> {}, acked |-> 0,
   refused |-> <<>>]

tcp_next_iss(x) == [x EXCEPT !.iss = Plus(@, ticks)]

NewConn == [state |-> "none", mbox |-> <<>>, todo |-> 0, writes |-> 0, wrote |-> 0,
            got |-> <<>>, eof |-> FALSE, sent |-> 0, shut |-> FALSE, cut |-> FALSE, missed |-> FALSE]

\* What a handler works on: the PCB, the netconn, the segments it sends, and
\* the static variables recv_data, recv_flags and tcp_input_pcb of tcp_in.c
\* (`in' when the last one is this PCB: tcp_output then waits).
Ctx(e) == [p |-> pcb[e], c |-> conn[e], out |-> {}, data |-> <<>>, recv |-> {}, in |-> FALSE,
           iss |-> iss[e]]

Segment(p, flags, seq, data) ==
  [flags |-> flags, seq |-> seq, ack |-> p.rcv_nxt, wnd |-> p.ann_wnd, data |-> data]
Send(x, segs) == [x EXCEPT !.out = @ \cup segs]
tcp_rst(x, seq, ack) ==
  Send(x, {[flags |-> {"RST", "ACK"}, seq |-> seq, ack |-> ack, wnd |-> TCP_WND, data |-> <<>>]})

Flag(x, f) == [x EXCEPT !.p.flags = @ \cup f]
tcp_ack_now(x) == Flag(x, {"ACK_NOW"})
tcp_ack(x) ==
  IF "ACK_DELAY" \in x.p.flags
  THEN [x EXCEPT !.p.flags = (@ \ {"ACK_DELAY"}) \cup {"ACK_NOW"}]
  ELSE Flag(x, {"ACK_DELAY"})

-----------------------------------------------------------------------------
(* tcp_out.c                                                                 *)
tcp_send_empty_ack(x) ==
  [Send(x, {Segment(x.p, {"ACK"}, x.p.snd_nxt, <<>>)}) EXCEPT
     !.p.flags = @ \ {"ACK_DELAY", "ACK_NOW"},
     !.p.edge = Plus(x.p.rcv_nxt, x.p.ann_wnd)]

Fits(p, s, wnd) == (s.seq - p.lastack + Len(s.data)) % SEQ <= wnd

\* tcp_do_output_nagle for the segment at index i of the unsent ones, when
\* those before it have just been sent.
tcp_do_output_nagle(p, i) ==
  \/ p.unacked = <<>> /\ i = 1
  \/ "INFR" \in p.flags
  \/ i < Len(p.unsent) \/ Len(p.unsent[i].data) >= Mss(p)

\* The unacked segments stay in the order of their sequence numbers.
Insert(q, s) ==
  LET k == Lead(q, LAMBDA r : Lt(r.seq, s.seq)) IN SubSeq(q, 1, k) \o <<s>> \o From(q, k)
InsertAll(q, new) ==
  LET f[i \in 0..Len(new)] == IF i = 0 THEN q ELSE Insert(f[i - 1], new[i]) IN f[Len(new)]

tcp_output_segment(x, s) ==
  Segment(x.p, s.flags \cup (IF x.p.state = "SYN_SENT" THEN {} ELSE {"ACK"}), s.seq, s.data)

\* The number of unsent segments that may go now: the window and Nagle.
Sendable(p, wnd) ==
  Lead([i \in DOMAIN p.unsent |-> i], LAMBDA i :
    /\ Fits(p, p.unsent[i], wnd)
    /\ tcp_do_output_nagle(p, i) \/ p.flags \cap {"NAGLEMEMERR", "FIN"} # {})

Behind(p, n) == IF n = 0 THEN p.snd_nxt ELSE Plus(p.unsent[n].seq, TCP_TCPLEN(p.unsent[n]))

\* The first n unsent segments are sent; end is the sequence number behind them.
OutputFirst(x, n, end, rest) ==
  [Send(x, {tcp_output_segment(x, x.p.unsent[i]) : i \in 1..n}) EXCEPT
     !.p.unsent = rest,
     !.p.unacked = InsertAll(@, SubSeq(x.p.unsent, 1, n)),
     !.p.snd_nxt = IF Lt(@, end) THEN end ELSE @,
     !.p.rtime = @ \/ n > 0,
     !.p.edge = IF n > 0 THEN Plus(x.p.rcv_nxt, x.p.ann_wnd) ELSE @,
     !.p.persist = @ \/ (rest # <<>> /\ ~Fits(x.p, Head(rest), x.p.snd_wnd)),
     !.p.flags = (@ \ {"NAGLEMEMERR"}) \
                   (IF n > 0 /\ x.p.state # "SYN_SENT" THEN {"ACK_DELAY", "ACK_NOW"} ELSE {})]
OutputUpTo(x, n) == OutputFirst(x, n, Behind(x.p, n), From(x.p.unsent, n))

tcp_output(x) ==
  LET wnd == Min({x.p.snd_wnd, x.p.cwnd})
  IN IF x.in THEN x
     ELSE IF "ACK_NOW" \in x.p.flags /\ (x.p.unsent = <<>> \/ ~Fits(x.p, Head(x.p.unsent), wnd))
     THEN tcp_send_empty_ack(x)
     ELSE OutputUpTo(x, Sendable(x.p, wnd))

\* [ok, x]: a SYN or a FIN is queued behind the unsent segments.
tcp_enqueue_flags(x, fl) ==
  IF x.p.qlen >= TCP_SND_QUEUELEN THEN [ok |-> FALSE, x |-> Flag(x, {"NAGLEMEMERR"})]
  ELSE IF x.p.snd_buf = 0 THEN [ok |-> FALSE, x |-> x]
  ELSE [ok |-> TRUE,
        x |-> [x EXCEPT !.p.unsent = Append(@, [seq |-> x.p.lbb, data |-> <<>>, flags |-> fl, clen |-> 1]),
                        !.p.lbb = Plus(@, 1), !.p.snd_buf = @ - 1, !.p.qlen = @ + 1,
                        !.p.flags = @ \cup (fl \cap {"FIN"})]]

tcp_send_fin(x) ==
  LET q == x.p.unsent
  IN IF q # <<>> /\ Last(q).flags = {}
     THEN [ok |-> TRUE, x |-> [x EXCEPT !.p.unsent[Len(q)].flags = {"FIN"}]]
     ELSE tcp_enqueue_flags(x, {"FIN"})

tcp_write_checks(p, len) ==
  IF p.state \notin {"ESTABLISHED", "CLOSE_WAIT", "SYN_SENT", "SYN_RCVD"} THEN "CONN"
  ELSE IF len = 0 THEN "OK"
  ELSE IF len > p.snd_buf \/ p.qlen >= TCP_SND_QUEUELEN THEN "MEM" ELSE "OK"

\* How much of len bytes fills up the last unsent segment.
Fill(p, len) ==
  IF p.unsent = <<>> \/ Last(p.unsent).data = <<>> THEN 0
  ELSE Min({len, Max({0, Mss(p) - Len(Last(p.unsent).data)})})

\* The segments for the data behind the first fill bytes.
NewSegments(p, data, fill) ==
  LET left == From(data, fill)
  IN [i \in 1..(Len(left) + Mss(p) - 1) \div Mss(p) |->
        [seq |-> Plus(p.lbb, fill + (i - 1) * Mss(p)), flags |-> {}, clen |-> 1,
         data |-> SubSeq(left, (i - 1) * Mss(p) + 1, Min({i * Mss(p), Len(left)}))]]

\* [err, x]
Queue(x, len, q, qlen) ==
  [x EXCEPT !.p.unsent = q, !.p.lbb = Plus(@, len), !.p.snd_buf = @ - len, !.p.qlen = qlen]
Filled(q, d) == IF d = <<>> THEN q ELSE [q EXCEPT ![Len(q)].data = @ \o d, ![Len(q)].clen = @ + 1]
WriteNew(x, data, fill, new) ==
  LET qlen == x.p.qlen + Len(new) + (IF fill > 0 THEN 1 ELSE 0)
  IN IF new # <<>> /\ qlen > TCP_SND_QUEUELEN THEN [err |-> "MEM", x |-> Flag(x, {"NAGLEMEMERR"})]
     ELSE [err |-> "OK",
           x |-> Queue(x, Len(data), Filled(x.p.unsent, SubSeq(data, 1, fill)) \o new, qlen)]
WriteAfter(x, data, fill) == WriteNew(x, data, fill, NewSegments(x.p, data, fill))
tcp_write(x, data) ==
  CASE tcp_write_checks(x.p, Len(data)) = "CONN" -> [err |-> "CONN", x |-> x]
    [] tcp_write_checks(x.p, Len(data)) = "MEM" -> [err |-> "MEM", x |-> Flag(x, {"NAGLEMEMERR"})]
    [] OTHER -> WriteAfter(x, data, Fill(x.p, Len(data)))

tcp_rexmit(x) ==
  IF x.p.unacked = <<>> THEN x
  ELSE [x EXCEPT !.p.unacked = Tail(@), !.p.unsent = Insert(@, Head(x.p.unacked)), !.p.nrtx = @ + 1]

tcp_rexmit_fast(x) ==
  LET half == Max({2 * Mss(x.p), Min({x.p.cwnd, x.p.snd_wnd}) \div 2})
  IN IF x.p.unacked = <<>> \/ "INFR" \in x.p.flags THEN x
     ELSE [Flag(tcp_rexmit(x), {"INFR"}) EXCEPT
             !.p.ssthresh = half, !.p.cwnd = half + 3 * Mss(x.p)]

tcp_rexmit_rto(x) ==
  IF x.p.unacked = <<>> THEN x
  ELSE tcp_output([x EXCEPT !.p.unsent = x.p.unacked \o @, !.p.unacked = <<>>, !.p.nrtx = @ + 1])

tcp_keepalive(x) ==
  [Send(x, {Segment(x.p, {"ACK"}, Plus(x.p.snd_nxt, -1), <<>>)}) EXCEPT
     !.p.edge = Plus(x.p.rcv_nxt, x.p.ann_wnd)]

tcp_zero_window_probe(x) ==
  LET q == x.p.unacked \o x.p.unsent
      fin == "FIN" \in Head(q).flags /\ Head(q).data = <<>>
  IN IF q = <<>> THEN x
     ELSE [Send(x, {Segment(x.p, IF fin THEN {"ACK", "FIN"} ELSE {"ACK"}, Head(q).seq,
                            IF fin THEN <<>> ELSE SubSeq(Head(q).data, 1, 1))}) EXCEPT
             !.p.edge = Plus(x.p.rcv_nxt, x.p.ann_wnd)]

-----------------------------------------------------------------------------
(* tcp.c                                                                     *)
Inflated(p) == Leq(Plus(p.edge, Min({TCP_WND \div 2, Mss(p)})), Plus(p.rcv_nxt, p.rcv_wnd))
tcp_update_rcv_ann_wnd_Zero(x) ==
  [x EXCEPT !.p.ann_wnd = IF Inflated(x.p) THEN x.p.rcv_wnd ELSE 0]
tcp_update_rcv_ann_wnd(x) ==
     [x EXCEPT !.p.ann_wnd =
        IF Inflated(x.p) THEN x.p.rcv_wnd
        ELSE IF Lt(x.p.edge, x.p.rcv_nxt) THEN 0
        ELSE (x.p.edge - x.p.rcv_nxt) % SEQ]

TellWindow(y) ==
  IF Inflated(y.p) /\ (y.p.rcv_nxt + y.p.rcv_wnd - y.p.edge) % SEQ >= TCP_WND \div 4
  THEN tcp_output(tcp_ack_now(y)) ELSE y
tcp_recved(x, len) == TellWindow(tcp_update_rcv_ann_wnd([x EXCEPT !.p.rcv_wnd = Min({@ + len, TCP_WND})]))

\* The queues of the PCB go.
tcp_pcb_purge(x) ==
  IF x.p.state \in {"CLOSED", "TIME_WAIT"} THEN x
  ELSE [x EXCEPT !.p.refused = <<>>, !.p.unsent = <<>>, !.p.unacked = <<>>, !.p.rtime = FALSE]

\* The PCB leaves its list and is freed; a delayed acknowledgement is sent.
tcp_pcb_remove(x) ==
  LET y == tcp_pcb_purge(x)
      z == IF x.p.state # "TIME_WAIT" /\ "ACK_DELAY" \in x.p.flags THEN tcp_output(tcp_ack_now(y)) ELSE y
  IN [z EXCEPT !.p = tcp_alloc(0)]

TimeWait(x) == [tcp_pcb_purge(x) EXCEPT !.p.state = "TIME_WAIT"]

\* err_tcp: the program finds the end of the stream in its mailbox, if there is room.
TCP_EVENT_ERR(x) ==
  IF x.c.state \notin {"open", "closing", "connecting"} THEN x
  ELSE [x EXCEPT !.c.state = "dead", !.c.todo = 0,
                 !.c.mbox = IF Len(@) < MBOX THEN Append(@, <<>>) ELSE @]

tcp_abandon(x, reset) ==
  IF x.p.state = "TIME_WAIT" THEN tcp_pcb_remove(x)
  ELSE LET y == TCP_EVENT_ERR(tcp_pcb_remove(x))
       IN IF reset THEN tcp_rst(y, x.p.snd_nxt, x.p.rcv_nxt) ELSE y

\* [ok, x]: the FIN of f is queued, and the PCB goes to state t.
Finish(f, t) == [ok |-> f.ok, x |-> IF f.ok THEN tcp_output([f.x EXCEPT !.p.state = t]) ELSE f.x]

\* [ok, x]
tcp_close_shutdown(x, rst_on_unacked_data) ==
  IF rst_on_unacked_data /\ (x.p.refused # <<>> \/ x.p.rcv_wnd # TCP_WND)
  THEN [ok |-> TRUE, x |-> TimeWait(tcp_rst(x, x.p.snd_nxt, x.p.rcv_nxt))]
  ELSE IF x.p.state = "SYN_SENT" THEN [ok |-> TRUE, x |-> tcp_pcb_remove(x)]
  ELSE IF x.p.state \in {"SYN_RCVD", "ESTABLISHED", "CLOSE_WAIT"}
  THEN Finish(tcp_send_fin(x), IF x.p.state = "CLOSE_WAIT" THEN "LAST_ACK" ELSE "FIN_WAIT_1")
  ELSE [ok |-> TRUE, x |-> x]

tcp_close(x) == tcp_close_shutdown(Flag(x, {"RXCLOSED"}), TRUE)

\* tcp_shutdown for the sending side.
tcp_shutdown(x) ==
  IF x.p.state \in {"SYN_RCVD", "ESTABLISHED", "CLOSE_WAIT"} THEN tcp_close_shutdown(x, FALSE)
  ELSE [ok |-> TRUE, x |-> x]

-----------------------------------------------------------------------------
(* The netconn above: recv_tcp, sent_tcp, poll_tcp, do_writemore,            *)
(* do_close_internal of api_msg.c.                                           *)
\* recv_tcp, or tcp_recv_null when the netconn is gone: [ok, x].  An empty
\* sequence stands for the end of the stream (a NULL pbuf).
TCP_EVENT_RECV(x, d) ==
  IF x.c.state = "open"
  THEN IF Len(x.c.mbox) < MBOX THEN [ok |-> TRUE, x |-> [x EXCEPT !.c.mbox = Append(@, d)]]
       ELSE [ok |-> FALSE, x |-> x]
  ELSE IF d # <<>> THEN [ok |-> TRUE, x |-> tcp_recved(x, Len(d))]
  ELSE tcp_close(x)

Wrote(w, len) ==
  IF w.err = "CONN" THEN [w.x EXCEPT !.c.todo = 0]
  ELSE tcp_output(IF w.err = "OK" THEN [w.x EXCEPT !.c.todo = @ - len, !.c.wrote = @ + len] ELSE w.x)
WriteSome(x, len) == Wrote(tcp_write(x, [i \in 1..len |-> x.c.wrote + i]), len)
do_writemore(x) == WriteSome(x, Min({x.c.todo, x.p.snd_buf}))

Closed(r) == [r.x EXCEPT !.c.state = IF r.ok THEN "closed" ELSE "closing"]
do_close_internal(x) == Closed(tcp_close(x))

\* What sent_tcp and poll_tcp go on with.
Resume(x) ==
  IF x.c.state = "open" /\ x.c.todo > 0 THEN do_writemore(x)
  ELSE IF x.c.state = "closing" THEN do_close_internal(x) ELSE x

TCP_EVENT_SENT(x) ==
  IF x.c.state \in {"open", "closing"} THEN Resume([x EXCEPT !.c.sent = @ + x.p.acked]) ELSE x

-----------------------------------------------------------------------------
(* tcp_in.c                                                                  *)
UpdateWindow(x, s) ==
  IF Lt(x.p.wl1, s.seq) \/ (x.p.wl1 = s.seq /\ Lt(x.p.wl2, s.ack))
       \/ (x.p.wl2 = s.ack /\ s.wnd > x.p.snd_wnd)
  THEN [x EXCEPT !.p.snd_wnd = s.wnd, !.p.wl1 = s.seq, !.p.wl2 = s.ack,
                 !.p.persist = IF s.wnd > 0 THEN FALSE ELSE @]
  ELSE x

Grow(p, n) == IF p.cwnd + n > CWND_MAX THEN p.cwnd ELSE p.cwnd + n

\* An acknowledgement of nothing new; right is the old edge of the window.
OldAck(x, s, right) ==
  LET dup == Min({x.p.dup + 1, 4})
      y == [x EXCEPT !.p.acked = 0, !.p.dup = dup]
  IN IF TCP_TCPLEN(s) = 0 /\ Plus(x.p.wl2, x.p.snd_wnd) = right /\ x.p.rtime /\ x.p.lastack = s.ack
     THEN CASE dup > 3 -> [y EXCEPT !.p.cwnd = Grow(x.p, Mss(x.p))]
            [] dup = 3 -> tcp_rexmit_fast(y)
            [] OTHER -> y
     ELSE [y EXCEPT !.p.dup = 0]

\* The acknowledged segments at the head of a queue are freed.
FreeAcked_One(x, k, unacked) ==
  LET q == IF unacked THEN x.p.unacked ELSE x.p.unsent
      y == [x EXCEPT !.p.qlen = @ - k]
  IN IF unacked THEN [y EXCEPT !.p.unacked = From(@, k), !.p.rtime = From(q, k) # <<>>]
     ELSE [y EXCEPT !.p.unsent = From(@, k)]
FreeAcked(x, k, unacked) ==
  LET q == IF unacked THEN x.p.unacked ELSE x.p.unsent
      fins == Cardinality({i \in 1..k : "FIN" \in q[i].flags})
      y == [x EXCEPT !.p.qlen = @ - Clen(q, k), !.p.acked = Max({0, @ - fins})]
  IN IF unacked THEN [y EXCEPT !.p.unacked = From(@, k), !.p.rtime = From(q, k) # <<>>]
     ELSE [y EXCEPT !.p.unsent = From(@, k)]

NewAck(x, s) ==
  LET n == (s.ack - x.p.lastack) % SEQ
      cwnd == IF "INFR" \in x.p.flags THEN x.p.ssthresh ELSE x.p.cwnd
      y == [x EXCEPT !.p.flags = @ \ {"INFR"}, !.p.nrtx = 0, !.p.acked = n, !.p.snd_buf = @ + n,
                     !.p.dup = 0, !.p.lastack = s.ack, !.p.cwnd = cwnd]
      z == [y EXCEPT !.p.cwnd = Grow(y.p, IF cwnd < x.p.ssthresh THEN Mss(x.p)
                                          ELSE (Mss(x.p) * Mss(x.p)) \div cwnd)]
  IN FreeAcked(z, Lead(z.p.unacked, LAMBDA r : Leq(Plus(r.seq, TCP_TCPLEN(r)), s.ack)), TRUE)

\* w is the PCB with its window updated, right the edge before that.
TakeAck(w, s, right) ==
  IF Leq(s.ack, w.p.lastack) THEN OldAck(w, s, right)
  ELSE IF Between(s.ack, Plus(w.p.lastack, 1), w.p.snd_nxt) THEN NewAck(w, s)
  ELSE [w EXCEPT !.p.acked = 0]
AckUnsent(y, s) ==
  FreeAcked(y, Lead(y.p.unsent, LAMBDA r : Between(s.ack, Plus(r.seq, TCP_TCPLEN(r)), y.p.snd_nxt)), FALSE)
ReceiveAck(x, s) ==
  AckUnsent(TakeAck(UpdateWindow(x, s), s, Plus(x.p.wl2, x.p.snd_wnd)), s)

\* What is left of the segment inside the window.
Trim_Whole(p, s) ==
  IF Between(p.rcv_nxt, Plus(s.seq, 1), Plus(s.seq, TCP_TCPLEN(s) - 1))
  THEN [s EXCEPT !.seq = p.rcv_nxt] ELSE s
TrimEnd(p, t) ==
  IF t.seq = p.rcv_nxt /\ TCP_TCPLEN(t) > p.rcv_wnd
  THEN [t EXCEPT !.flags = @ \ {"FIN"}, !.data = SubSeq(@, 1, Min({p.rcv_wnd, Len(@)}))] ELSE t
Trim(p, s) ==
  TrimEnd(p, IF Between(p.rcv_nxt, Plus(s.seq, 1), Plus(s.seq, TCP_TCPLEN(s) - 1))
             THEN [s EXCEPT !.seq = p.rcv_nxt, !.data = From(@, (p.rcv_nxt - s.seq) % SEQ)] ELSE s)

\* t is what is left of s, of length n.
TakeData(x, t, n) ==
  tcp_ack([tcp_update_rcv_ann_wnd([x EXCEPT !.p.rcv_nxt = Plus(@, n), !.p.rcv_wnd = @ - n]) EXCEPT
             !.data = t.data, !.recv = @ \cup (IF "FIN" \in t.flags THEN {"GOT_FIN"} ELSE {})])
ReceiveTrimmed(x, s, t) ==
  IF t.seq # x.p.rcv_nxt \/ x.p.rcv_wnd = 0
  THEN tcp_send_empty_ack(IF t.seq = s.seq /\ Lt(s.seq, x.p.rcv_nxt) THEN tcp_ack_now(x) ELSE x)
  ELSE TakeData(x, t, TCP_TCPLEN(t))
ReceiveData(x, s) ==
  IF TCP_TCPLEN(s) > 0 THEN ReceiveTrimmed(x, s, Trim(x.p, s))
  ELSE IF Between(s.seq, x.p.rcv_nxt, Plus(x.p.rcv_nxt, x.p.rcv_wnd - 1)) THEN x
  ELSE tcp_ack_now(x)

tcp_receive(x, s) == ReceiveData(IF "ACK" \in s.flags THEN ReceiveAck(x, s) ELSE x, s)

\* The SYN of this end is acknowledged, with the SYN of the other one.
Connected(x, s) ==
  tcp_ack_now([x EXCEPT !.p.snd_buf = @ + 1, !.p.rcv_nxt = Plus(s.seq, 1), !.p.edge = Plus(s.seq, 1),
                 !.p.lastack = s.ack, !.p.snd_wnd = s.wnd, !.p.wl1 = Plus(s.seq, -1),
                 !.p.state = "ESTABLISHED", !.p.ssthresh = TCP_MSS * 10,
                 !.p.cwnd = IF @ = 1 THEN 2 * TCP_MSS ELSE TCP_MSS,
                 !.p.qlen = @ - 1, !.p.unacked = Tail(@), !.p.rtime = Tail(x.p.unacked) # <<>>,
                 !.p.nrtx = IF Tail(x.p.unacked) = <<>> THEN @ ELSE 0,
                 !.c.state = IF @ = "connecting" THEN "open" ELSE @])

\* What tcp_process does in each state.  r is the outcome of tcp_receive.
GotFin(r) == "GOT_FIN" \in r.recv
Established(r) == IF GotFin(r) THEN [tcp_ack_now(r) EXCEPT !.p.state = "CLOSE_WAIT"] ELSE r
FinWait1(r, acks) ==
  IF GotFin(r) THEN (IF acks THEN TimeWait(tcp_ack_now(r)) ELSE [tcp_ack_now(r) EXCEPT !.p.state = "CLOSING"])
  ELSE IF acks THEN [r EXCEPT !.p.state = "FIN_WAIT_2"] ELSE r
FinWait2(r) == IF GotFin(r) THEN TimeWait(tcp_ack_now(r)) ELSE r
Closing(r, acks) == IF acks THEN TimeWait(r) ELSE r
LastAck_Any(r, acks) == [r EXCEPT !.recv = @ \cup {"CLOSED"}]
LastAck(r, acks) == IF acks THEN [r EXCEPT !.recv = @ \cup {"CLOSED"}] ELSE r

Reset(x, s) ==
  IF IF x.p.state = "SYN_SENT" THEN s.ack = x.p.snd_nxt
     ELSE Between(s.seq, x.p.rcv_nxt, Plus(x.p.rcv_nxt, x.p.rcv_wnd))
  THEN [x EXCEPT !.recv = @ \cup {"RESET"}, !.p.flags = @ \ {"ACK_DELAY"}] ELSE x

SynSent(x, s) ==
  IF {"SYN", "ACK"} \subseteq s.flags /\ s.ack = Plus(Head(x.p.unacked).seq, 1) THEN Connected(x, s)
  ELSE IF "ACK" \in s.flags THEN tcp_rst(x, s.ack, Plus(s.seq, TCP_TCPLEN(s))) ELSE x

\* accept_function: the program at this end accepts one connection; r is the
\* outcome of tcp_receive and old the congestion window before it.
Accept(r, old) ==
  Established([r EXCEPT !.p.acked = Max({0, @ - 1}), !.p.cwnd = IF old = 1 THEN 2 * TCP_MSS ELSE TCP_MSS])

SynAcked(x, s) == "ACK" \in s.flags /\ Between(s.ack, Plus(x.p.lastack, 1), x.p.snd_nxt)
SynRcvd(x, s) ==
  IF SynAcked(x, s)
  THEN IF x.c.state # "none" THEN [tcp_abandon(x, TRUE) EXCEPT !.recv = {"ABRT"}]
       ELSE Accept(tcp_receive([x EXCEPT !.p.state = "ESTABLISHED", !.c.state = "open"], s), x.p.cwnd)
  ELSE IF "ACK" \in s.flags THEN tcp_rst(x, s.ack, Plus(s.seq, TCP_TCPLEN(s)))
  ELSE IF "SYN" \in s.flags /\ s.seq = Plus(x.p.rcv_nxt, -1) THEN tcp_rexmit(x) ELSE x

\* The states of an open connection.
Opened(st, r, acks) ==
  CASE st \in {"CLOSE_WAIT", "ESTABLISHED"} -> Established(r)
    [] st = "FIN_WAIT_1" -> FinWait1(r, acks)
    [] st = "FIN_WAIT_2" -> FinWait2(r)
    [] st = "CLOSING" -> Closing(r, acks)
    [] st = "LAST_ACK" -> LastAck(r, acks)

\* acks is taken for the acknowledgement of the FIN, also while that is unsent.
Cut(st, r, acks) ==
  Opened(st, IF acks /\ r.p.unsent # <<>> /\ st \in {"FIN_WAIT_1", "CLOSING", "LAST_ACK"}
             THEN [r EXCEPT !.c.cut = TRUE] ELSE r, acks)

tcp_process(x, s) ==
  CASE "RST" \in s.flags -> Reset(x, s)
    [] "RST" \notin s.flags /\ "SYN" \in s.flags /\ x.p.state \notin {"SYN_SENT", "SYN_RCVD"} -> tcp_ack_now(x)
    [] OTHER ->
         CASE x.p.state = "SYN_SENT" -> SynSent(x, s)
           [] x.p.state = "SYN_RCVD" -> SynRcvd(x, s)
           [] OTHER -> Cut(x.p.state, tcp_receive(x, s), "ACK" \in s.flags /\ s.ack = x.p.snd_nxt)

\* tcp_listen_input: a new PCB answers a SYN; i has the next sequence number.
Answer(q) == IF q.ok THEN tcp_output(q.x) ELSE tcp_abandon(q.x, FALSE)
NewPcb(i, s) ==
  [i EXCEPT !.p = [tcp_alloc(i.iss) EXCEPT !.state = "SYN_RCVD", !.rcv_nxt = Plus(s.seq, 1),
     !.edge = Plus(s.seq, 1), !.snd_wnd = s.wnd, !.ssthresh = s.wnd, !.wl1 = Plus(s.seq, -1)]]
tcp_listen_input(x, s) ==
  IF "ACK" \in s.flags THEN tcp_rst(x, Plus(s.ack, 1), Plus(s.seq, TCP_TCPLEN(s)))
  ELSE IF "SYN" \in s.flags THEN Answer(tcp_enqueue_flags(NewPcb(tcp_next_iss(x), s), {"SYN", "ACK"})) ELSE x

tcp_timewait_input(x, s) ==
  IF "RST" \in s.flags THEN x
  ELSE IF "SYN" \in s.flags /\ Between(s.seq, x.p.rcv_nxt, Plus(x.p.rcv_nxt, x.p.rcv_wnd))
  THEN tcp_rst(x, s.ack, Plus(s.seq, TCP_TCPLEN(s)))
  ELSE IF TCP_TCPLEN(s) > 0 THEN tcp_output(tcp_ack_now(x)) ELSE x

\* What tcp_input does with the outcome of tcp_process: the program is told of
\* acknowledged data, of data and of the end of the stream.
TellSent(x) == IF x.p.acked > 0 THEN TCP_EVENT_SENT(x) ELSE x
Kept(rcv, data) == IF rcv.ok THEN rcv.x ELSE [rcv.x EXCEPT !.p.refused = data]
TellData(x) == IF x.data = <<>> THEN x ELSE Kept(TCP_EVENT_RECV(x, x.data), x.data)
Missed(rcv) == [rcv.x EXCEPT !.c.missed = ~rcv.ok]
TellFin(x) ==
  IF "GOT_FIN" \notin x.recv THEN x
  ELSE Missed(TCP_EVENT_RECV([x EXCEPT !.p.rcv_wnd = Min({@ + 1, TCP_WND})], <<>>))
Told(x) ==
  IF x.data # <<>> /\ "RXCLOSED" \in x.p.flags THEN tcp_abandon(x, TRUE)
  ELSE tcp_output([TellFin(TellData(x)) EXCEPT !.in = FALSE])
Outcome(x) ==
  CASE "ABRT" \in x.recv -> x
    [] "RESET" \in x.recv -> tcp_pcb_remove(TCP_EVENT_ERR(x))
    [] "CLOSED" \in x.recv -> tcp_pcb_remove(x)
    [] OTHER -> Told(TellSent(x))

\* The data the program has refused is offered again; e is the end that
\* receives s.
Again(x) ==
  IF x.p.refused = <<>> THEN [ok |-> TRUE, x |-> x]
  ELSE TCP_EVENT_RECV([x EXCEPT !.p.refused = <<>>], x.p.refused)
Handle(r, x, s) ==
  IF ~r.ok /\ TCP_TCPLEN(s) > 0 THEN x
  ELSE Outcome(tcp_process([(IF r.ok THEN r.x ELSE x) EXCEPT !.in = TRUE], s))
tcp_input(e, x, s) ==
  CASE x.p.state = "CLOSED" ->
         IF e = "b" THEN tcp_listen_input(x, s)
         ELSE IF "RST" \in s.flags THEN x ELSE tcp_rst(x, s.ack, Plus(s.seq, TCP_TCPLEN(s)))
    [] x.p.state = "TIME_WAIT" -> tcp_timewait_input(x, s)
    [] OTHER -> Handle(Again(x), x, s)

-----------------------------------------------------------------------------
(* Steps.                                                                    *)
\* The outcome x of a handler at e; rest is what is left under way.
Commit(e, x, rest) ==
  /\ pcb' = [pcb EXCEPT ![e] = x.p]
  /\ conn' = [conn EXCEPT ![e] = x.c]
  /\ net' = rest \cup {[to |-> Peer(e), s |-> r] : r \in x.out}
  /\ Cardinality(net') <= MaxNet
  /\ iss' = [iss EXCEPT ![e] = x.iss]

\* do_connect and tcp_connect.
Connect ==
  LET new == tcp_next_iss(Ctx("a"))
      x == tcp_next_iss(new)
      p == [tcp_alloc(new.iss) EXCEPT !.snd_nxt = x.iss, !.lastack = Plus(x.iss, -1), !.lbb = Plus(x.iss, -1),
              !.snd_wnd = TCP_WND, !.ssthresh = SYN_MSS * 10]
      q == tcp_enqueue_flags([x EXCEPT !.p = p], {"SYN"})
  IN /\ conn["a"].state = "none"
     /\ Commit("a", tcp_output([q.x EXCEPT !.p.state = "SYN_SENT", !.c.state = "connecting"]), net)
     /\ UNCHANGED <<ticks, faults>>

\* do_write: the next write of the program at e.
Write(e) ==
  LET i == conn[e].writes + 1
  IN /\ conn[e].state = "open" /\ conn[e].todo = 0 /\ i \in DOMAIN Bytes[e] /\ ~conn[e].shut
     /\ Commit(e, do_writemore([Ctx(e) EXCEPT !.c.todo = Bytes[e][i], !.c.writes = i]), net)
     /\ UNCHANGED <<ticks, faults>>

\* netconn_recv and do_recv, which is told of one byte for the end of the
\* stream.  A PCB that tcp_slowtmr has freed below an open netconn is left alone.
Recv(e) ==
  LET d == Head(conn[e].mbox)
      x == [Ctx(e) EXCEPT !.c.mbox = Tail(@), !.c.got = @ \o d, !.c.eof = @ \/ d = <<>>]
  IN /\ conn[e].state \in {"open", "dead"} /\ conn[e].mbox # <<>>
     /\ Commit(e, IF conn[e].state = "open" /\ pcb[e].state # "CLOSED"
                  THEN tcp_recved(x, Max({1, Len(d)})) ELSE x, net)
     /\ UNCHANGED <<ticks, faults>>

\* netconn_drain: the data nobody read is acknowledged as read.
netconn_drain(x) ==
  LET f[i \in 0..Len(x.c.mbox)] ==
        IF i = 0 THEN x ELSE IF x.c.mbox[i] = <<>> THEN f[i - 1] ELSE tcp_recved(f[i - 1], Len(x.c.mbox[i]))
  IN [f[Len(x.c.mbox)] EXCEPT !.c.mbox = <<>>]

Acknowledged(p) == p.unsent = <<>> /\ p.unacked = <<>>

\* netconn_delete: do_delconn and do_close_internal.
Close(e) ==
  /\ e \in Closers /\ conn[e].todo = 0
  /\ Hasty \/ (conn[e].writes = Len(Bytes[e]) /\ (conn[e].shut \/ Acknowledged(pcb[e])))
  /\ Unread \/ (e = "b" => conn[e].eof)
  /\ \/ /\ conn[e].state = "open"
        /\ Commit(e, do_close_internal(netconn_drain(Ctx(e))), net)
     \/ /\ conn[e].state = "dead"
        /\ Commit(e, [Ctx(e) EXCEPT !.c.state = "closed", !.c.mbox = <<>>], net)
  /\ UNCHANGED <<ticks, faults>>

\* tcp_shutdown of the sending side.
Shutdown(e) ==
  LET r == tcp_shutdown(Ctx(e))
  IN /\ e \in Shutters /\ conn[e].state = "open" /\ ~conn[e].shut /\ conn[e].todo = 0
     /\ Hasty \/ (conn[e].writes = Len(Bytes[e]) /\ Acknowledged(pcb[e]))
     /\ r.ok
     /\ Commit(e, [r.x EXCEPT !.c.shut = TRUE], net)
     /\ UNCHANGED <<ticks, faults>>

\* A segment arrives; a repeated one stays under way.
Deliver(e) ==
  \E m \in net : \E again \in {FALSE} \cup {faults < MaxFaults} :
    /\ m.to = e
    /\ Commit(e, tcp_input(e, Ctx(e), m.s), IF again THEN net ELSE net \ {m})
    /\ faults' = IF again THEN faults + 1 ELSE faults
    /\ UNCHANGED ticks

Lose ==
  /\ faults < MaxFaults
  /\ \E m \in net : net' = net \ {m}
  /\ faults' = faults + 1
  /\ UNCHANGED <<pcb, conn, iss, ticks>>

\* The retransmission or the persist timer of a PCB has expired.
Retransmit(x) ==
  LET eff == Min({x.p.cwnd, x.p.snd_wnd}) \div 2
  IN IF x.p.persist THEN tcp_zero_window_probe(x)
     ELSE IF x.p.rtime /\ x.p.unacked # <<>>
     THEN tcp_rexmit_rto([x EXCEPT !.p.ssthresh = Max({eff, 2 * Mss(x.p)}), !.p.cwnd = Mss(x.p)])
     ELSE x

Lingers(p) == p.state \in {"FIN_WAIT_2", "SYN_RCVD", "LAST_ACK"}

\* tcp_slowtmr for one PCB: due when its timer has expired, old when it has
\* been in its state for too long, idle when nothing has come for a while, or
\* (with old) for so long that keepalive resets the connection.
tcp_slowtmr(x, due, old, idle) ==
  LET given_up == (x.p.state = "SYN_SENT" /\ x.p.nrtx = TCP_SYNMAXRTX) \/ x.p.nrtx = TCP_MAXRTX
      alive == idle /\ x.p.state \in {"ESTABLISHED", "CLOSE_WAIT"}
      y == IF due /\ ~given_up THEN Retransmit(x) ELSE x
      z == IF alive /\ ~old THEN tcp_keepalive(y) ELSE y
      gone == [TCP_EVENT_ERR(tcp_pcb_purge(z)) EXCEPT !.p = tcp_alloc(0)]
  IN IF x.p.state = "TIME_WAIT" THEN tcp_pcb_remove(x)
     ELSE IF alive /\ old THEN tcp_rst(gone, z.p.snd_nxt, z.p.rcv_nxt)
     ELSE IF given_up \/ (old /\ Lingers(x.p)) THEN gone
     ELSE tcp_output(Resume(z))

Delayed(e) == pcb[e].refused # <<>> \/ "ACK_DELAY" \in pcb[e].flags

Quiet == net = {} /\ \A e \in Ends : conn[e].mbox = <<>> /\ ~Delayed(e)
Waiting(e) == Quiet /\ (pcb[e].persist \/ pcb[e].unacked # <<>>)

\* Early = FALSE: a timer takes longer than a segment, the fast timer and the
\* programs that read, both ends back off alike, and the ticks go round.
SlowTimer(e, due, old, idle) ==
  /\ pcb[e].state # "CLOSED"
  /\ IF Early THEN ticks < MaxTicks
     ELSE Quiet /\ (Waiting(Peer(e)) => pcb[e].nrtx <= pcb[Peer(e)].nrtx)
  /\ pcb[e].state = "TIME_WAIT" => net = {}
  /\ Commit(e, tcp_slowtmr(Ctx(e), due, old, idle), net)
  /\ ticks' = (ticks + 1) % (MaxTicks + 1)
  /\ UNCHANGED faults

\* tcp_fasttmr for one PCB.
AckDelayed(x) ==
  IF "ACK_DELAY" \in x.p.flags
  THEN [tcp_output(tcp_ack_now(x)) EXCEPT !.p.flags = @ \ {"ACK_DELAY", "ACK_NOW"}] ELSE x
Offered(r, x) == IF r.ok THEN r.x ELSE x
tcp_fasttmr(x) == AckDelayed(Offered(Again(x), x))

FastTimer(e) ==
  /\ pcb[e].state \notin {"CLOSED", "TIME_WAIT"}
  /\ pcb[e].refused # <<>> \/ "ACK_DELAY" \in pcb[e].flags
  /\ Commit(e, tcp_fasttmr(Ctx(e)), net)
  /\ UNCHANGED <<ticks, faults>>

Init ==
  /\ pcb = [e \in Ends |-> tcp_alloc(0)]
  /\ conn = [e \in Ends |-> NewConn]
  /\ iss = [e \in Ends |-> ISS]
  /\ net = {} /\ ticks = 0 /\ faults = 0

Next ==
  \/ Connect \/ Lose
  \/ \E e \in Ends : Write(e) \/ Recv(e) \/ Close(e) \/ Shutdown(e) \/ Deliver(e)
                       \/ FastTimer(e)
                       \/ \E due \in {~Early, TRUE}, old \in {FALSE, Expire}, idle \in {FALSE, Keepalive} :
                            SlowTimer(e, due, old, idle)

Spec == Init /\ [][Next]_vars

-----------------------------------------------------------------------------
(* Properties.                                                               *)
Live(e) == pcb[e].state \in {"ESTABLISHED", "FIN_WAIT_1", "FIN_WAIT_2", "CLOSE_WAIT", "CLOSING", "LAST_ACK"}
SumLen(q) == MapThenSumSet(LAMBDA i : Len(q[i]), DOMAIN q)
Flat(q) == LET f[i \in 0..Len(q)] == IF i = 0 THEN <<>> ELSE f[i - 1] \o q[i] IN f[Len(q)]
Stream(e) == conn[e].got \o Flat(conn[e].mbox) \o pcb[e].refused

\* What the program at one end has got, finds in its mailbox or is still
\* refused to it (tcp_receive, recv_tcp) is the beginning of what the other
\* one has written, each byte once and in order.
InOrder ==
  \A e \in Ends : conn[e].state # "none" =>
    /\ Len(Stream(e)) <= conn[Peer(e)].wrote
    /\ \A i \in DOMAIN Stream(e) : Stream(e)[i] = i

\* What the counters of the sender say (snd_buf, snd_queuelen) is what it has
\* in its queues, through partial acknowledgements and retransmissions.
Accounts ==
  \A e \in Ends : LET p == pcb[e] IN Live(e) =>
    /\ (p.snd_buf + p.lbb - p.lastack) % SEQ = TCP_SND_BUF
    /\ p.qlen = Clen(p.unacked, Len(p.unacked)) + Clen(p.unsent, Len(p.unsent))

\* No byte of the receive window is lost: what is not in rcv_wnd waits for
\* the program, in its mailbox or refused.
WindowWhole ==
  \A e \in Ends : Live(e) /\ conn[e].state = "open" =>
    pcb[e].rcv_wnd + SumLen(conn[e].mbox) + Len(pcb[e].refused) = TCP_WND

\* tcp_process reads the SYN at the head of the unacked segments without a
\* test: while the connection is being opened, it is there.
SynKept == pcb["a"].state = "SYN_SENT" => pcb["a"].unacked # <<>> /\ Head(pcb["a"].unacked).flags = {"SYN"}

\* A program at "b" is given a connection only when the one at "a" has it.
AcceptKnown == conn["b"].state = "open" => conn["a"].state # "connecting"

\* tcp_output: an acknowledgement that is due now is sent, with the data or
\* alone, before the PCB comes to rest.
\* Not what the code does: README.md, "Known disagreements".
AckSent == \A e \in Ends : Live(e) => "ACK_NOW" \notin pcb[e].flags

\* The right edge of the window that was announced never moves to the left.
EdgeKept ==
  \A e \in Ends : Live(e) /\ Live(e)' => Leq(pcb[e].edge, pcb[e].edge')

\* tcp.h: the program is told of each byte it has sent, once.
\* Not what the code does: README.md, "Known disagreements".
SentOnce == \A e \in Ends : conn[e].sent <= conn[e].wrote

\* tcp_close_shutdown says that what is unsent when it returns is sent by the
\* timers: a connection that was closed, with data unsent or unacknowledged or
\* not, has brought everything across, its end included, when its PCB goes.
\* Not what the code does: README.md, "Known disagreements".
CloseDelivers ==
  \A e \in Ends :
    /\ conn[e].state = "closed" /\ pcb[e].state = "CLOSED" /\ conn[Peer(e)].state = "open"
    => /\ Len(Stream(Peer(e))) = conn[e].wrote
       /\ pcb[Peer(e)].state \notin {"ESTABLISHED", "FIN_WAIT_1", "FIN_WAIT_2"}

\* What is left of it: the same where no acknowledgement of snd_nxt was taken
\* for one of a FIN that is still behind unsent data.
AllArrived ==
  \A e \in Ends :
    /\ conn[e].state = "closed" /\ pcb[e].state = "CLOSED" /\ ~conn[e].cut
    /\ conn[Peer(e)].state = "open"
    => /\ Len(Stream(Peer(e))) = conn[e].wrote
       /\ pcb[Peer(e)].state \notin {"ESTABLISHED", "FIN_WAIT_1", "FIN_WAIT_2"}

Finished(e) == conn[e].state = "open" /\ pcb[e].state \in {"CLOSE_WAIT", "CLOSING", "TIME_WAIT"}
EndSeen(e) ==
  \/ conn[e].eof /\ Stream(e) = conn[e].got
  \/ conn[e].mbox # <<>> /\ conn[e].mbox[Len(conn[e].mbox)] = <<>> /\ pcb[e].refused = <<>>

\* When the other end has finished, the program here has seen the end of the
\* stream or finds it in its mailbox behind the last byte.
\* Not what the code does: README.md, "Known disagreements".
EndAlwaysTold == \A e \in Ends : Finished(e) => EndSeen(e)

\* What is left of it: the same unless the mailbox was full when the end came.
EofTold == \A e \in Ends : Finished(e) /\ ~conn[e].missed => EndSeen(e)
=============================================================================
