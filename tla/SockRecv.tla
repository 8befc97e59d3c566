------------------------------ MODULE SockRecv ------------------------------
(***************************************************************************)
(* lwip_recvfrom of lwip/api/sockets.c with netconn_recv_data and          *)
(* netconn_recved of lwip/api/api_lib.c: one thread reads a socket while   *)
(* the tcpip thread posts buffers to its mailbox, ends the stream or       *)
(* resets it.                                                              *)
(*                                                                         *)
(* Octets are their positions in the stream: a buffer is [at, len, push],  *)
(* its octets at + 1 .. at + len; length 0 is the NULL of the end.         *)
(***************************************************************************)
EXTENDS Integers, Sequences

CONSTANTS Tcp,           \* a TCP or a UDP socket
          Lens,          \* lengths of buffers
          Reads,         \* lengths asked for
          Peeks, Donts,  \* the values MSG_PEEK and MSG_DONTWAIT take
          BoxSize, MaxOctets, MaxReads \* bounds

ASSUME RecvAssumption ==
  /\ Tcp \in BOOLEAN /\ Lens \subseteq Nat \ {0} /\ Reads \subseteq Nat
  /\ Peeks \subseteq BOOLEAN /\ Donts \subseteq BOOLEAN
  /\ BoxSize \in Nat /\ MaxOctets \in Nat /\ MaxReads \in Nat

VARIABLES box, net, sock, rd, spent
vars == <<box, net, sock, rd, spent>>

None == [at |-> 0, len |-> 0, push |-> FALSE]
Resting == [pc |-> "idle", len |-> 0, peek |-> FALSE, dont |-> FALSE, mem |-> <<>>, base |-> 0, buf |-> None, res |-> "none"]

-----------------------------------------------------------------------------
(* The tcpip thread.  A buffer is posted first and counted afterwards. *)

Quiet == ~ net.late /\ ~ net.fin /\ Len(box) < BoxSize /\ UNCHANGED <<sock, rd, spent>>
recv_tcp(len, push) ==
  /\ Quiet /\ net.sent + len <= MaxOctets
  /\ box' = Append(box, [at |-> net.sent, len |-> len, push |-> push])
  /\ net' = [net EXCEPT !.sent = @ + len, !.late = TRUE]
Fin == Quiet /\ Tcp /\ box' = Append(box, None) /\ net' = [net EXCEPT !.fin = TRUE, !.late = TRUE]
event_callback == net.late /\ net' = [net EXCEPT !.late = FALSE] /\ sock' = [sock EXCEPT !.rcv = @ + 1] /\ UNCHANGED <<box, rd, spent>>
(* The error is set first, the mailbox may be full. *)
err_tcp ==
  /\ Tcp /\ ~ net.late /\ ~ net.rst /\ UNCHANGED <<rd, spent>>
  /\ net' = [net EXCEPT !.rst = TRUE, !.fin = TRUE, !.err = "RST"] /\ sock' = [sock EXCEPT !.rcv = @ + 1]
  /\ box' = IF Len(box) < BoxSize THEN Append(box, None) ELSE box

-----------------------------------------------------------------------------
(* The reading thread. *)

lwip_recvfrom(len, peek, dont) ==
  /\ rd.pc = "idle" /\ spent < MaxReads /\ spent' = spent + 1
  /\ rd' = [Resting EXCEPT !.pc = "loop", !.len = len, !.peek = peek, !.dont = dont, !.base = sock.consumed]
  /\ UNCHANGED <<box, net, sock>>
(* do_recv: what was read gives room in the receive window, as long as there  *)
(* is a control block.                                                        *)
do_recv(s, octets) == IF Tcp /\ ~ net.rst THEN [s EXCEPT !.credit = @ + octets] ELSE s
netconn_recved(s, octets) == do_recv(s, octets)
Result(res) == rd' = [rd EXCEPT !.pc = "idle", !.res = res]
(* Leaving without new data: what was read before is the result. *)
Stopped_NoCredit(s, res) == sock' = s /\ Result(IF rd.mem # <<>> THEN "data" ELSE res)
Stopped(s, res) ==
  IF rd.mem # <<>> THEN sock' = netconn_recved(s, Len(rd.mem)) /\ Result("data") ELSE sock' = s /\ Result(res)
HasRest == sock.last.len > 0
LoopNonblock ==
  /\ rd.pc = "loop" /\ ~ HasRest /\ rd.dont /\ sock.rcv <= 0
  /\ Stopped(sock, "WOULDBLOCK") /\ UNCHANGED <<box, net, spent>>
Loop ==
  /\ rd.pc = "loop" /\ (HasRest \/ ~ rd.dont \/ sock.rcv > 0)
  /\ rd' = IF HasRest THEN [rd EXCEPT !.pc = "copy", !.buf = sock.last] ELSE [rd EXCEPT !.pc = "check"]
  /\ UNCHANGED <<box, net, sock, spent>>
AsResult(e) == IF e = "CLSD" THEN "eof" ELSE e
(* netconn_recv_data: after a fatal error nothing is fetched. *)
RecvCheck ==
  /\ rd.pc = "check" /\ UNCHANGED <<box, net, spent>>
  /\ IF net.err # "OK" THEN Stopped(sock, AsResult(net.err)) ELSE rd' = [rd EXCEPT !.pc = "fetch"] /\ UNCHANGED sock
RecvFetch ==
  /\ rd.pc = "fetch" /\ box # <<>> /\ box' = Tail(box)
  /\ rd' = [rd EXCEPT !.pc = "count", !.buf = Head(box)] /\ UNCHANGED <<net, sock, spent>>
(* The end asks for room too, for one octet. *)
RecvRoom ==
  /\ rd.pc = "count" /\ rd.buf.len = 0
  /\ sock' = do_recv(sock, 1) /\ rd' = [rd EXCEPT !.pc = "end"] /\ UNCHANGED <<box, net, spent>>
RecvEnd ==
  /\ rd.pc = "end"
  /\ net' = [net EXCEPT !.err = IF @ = "OK" THEN "CLSD" ELSE @] /\ Stopped([sock EXCEPT !.rcv = @ - 1], "eof")
  /\ UNCHANGED <<box, spent>>
RecvData ==
  /\ rd.pc = "count" /\ rd.buf.len > 0
  /\ sock' = [sock EXCEPT !.rcv = @ - 1, !.last = rd.buf, !.off = 0] /\ rd' = [rd EXCEPT !.pc = "copy"]
  /\ UNCHANGED <<box, net, spent>>
(* The copy: done when enough was read, at a push, when no more is there, or for a datagram. *)
Copied(n) == [i \in 1 .. n |-> rd.buf.at + sock.off + i]
Done(len) == ~ Tcp \/ len = 0 \/ rd.buf.push \/ sock.rcv <= 0 \/ rd.peek
Taken(n) ==
  IF rd.peek THEN sock
  ELSE IF Tcp /\ sock.off + n < rd.buf.len THEN [sock EXCEPT !.off = @ + n, !.consumed = @ + n]
  ELSE [sock EXCEPT !.last = None, !.off = 0, !.consumed = rd.buf.at + rd.buf.len]
CopyOf(n) ==
  LET mem == rd.mem \o Copied(n)
  IN IF Done(rd.len - n)
     THEN sock' = netconn_recved(Taken(n), Len(mem)) /\ rd' = [rd EXCEPT !.pc = "idle", !.mem = mem, !.res = "data"]
     ELSE sock' = Taken(n) /\ rd' = [rd EXCEPT !.pc = "loop", !.mem = mem, !.len = @ - n]
copylen == LET buflen == rd.buf.len - sock.off IN IF rd.len > buflen THEN buflen ELSE rd.len
Copy == rd.pc = "copy" /\ CopyOf(copylen) /\ UNCHANGED <<box, net, spent>>

Init ==
  /\ box = <<>> /\ net = [sent |-> 0, late |-> FALSE, fin |-> FALSE, rst |-> FALSE, err |-> "OK"]
  /\ sock = [last |-> None, off |-> 0, rcv |-> 0, credit |-> 0, consumed |-> 0] /\ rd = Resting /\ spent = 0
Reader == LoopNonblock \/ Loop \/ RecvCheck \/ RecvFetch \/ RecvRoom \/ RecvEnd \/ RecvData \/ Copy
Next ==
  \/ \E len \in Lens, push \in BOOLEAN : recv_tcp(len, push)
  \/ Fin \/ event_callback \/ err_tcp
  \/ \E len \in Reads, peek \in Peeks, dont \in Donts : lwip_recvfrom(len, peek, dont)
  \/ Reader
Spec == Init /\ [][Next]_vars

-----------------------------------------------------------------------------
(* Properties. *)

(* What a call copies are the next octets of the stream, none skipped and  *)
(* none twice, over partial reads, peeks and several buffers.              *)
InOrder == \A i \in DOMAIN rd.mem : rd.mem[i] = rd.base + i

(* Between calls the window of a connection has been opened by exactly the *)
(* octets that were taken out of the stream, and by one more once the end  *)
(* has been met: the arguments of netconn_recved and do_recv are exact.    *)
WindowAccurate ==
  Tcp /\ ~ net.rst /\ rd.pc = "idle" => sock.credit = sock.consumed + (IF net.err = "CLSD" THEN 1 ELSE 0)

(* What tcp_in.c promises, that the application asks for no room for the   *)
(* FIN.  Not what netconn_recv_data does.                                  *)
NoRoomForEnd == Tcp /\ ~ net.rst /\ rd.pc = "idle" => sock.credit = sock.consumed

(* A call that has data already never waits for more. *)
NeverWaitsWithData == rd.pc = "fetch" /\ rd.mem # <<>> => box # <<>>

(* The end of the stream is reported after all its octets. *)
EndLast == rd.res = "eof" => sock.consumed = net.sent \/ net.rst

(* A read of a socket is exact: the octets come in order, the window opens by *)
(* what was taken and by one for the end (a read that only peeks opens it     *)
(* too, so without those), a read with data does not wait, and the end comes  *)
(* last (lwip_recvfrom).                                                      *)
ReadsExact ==
  /\ InOrder /\ NeverWaitsWithData /\ EndLast
  /\ TRUE \notin Peeks => WindowAccurate

=============================================================================
