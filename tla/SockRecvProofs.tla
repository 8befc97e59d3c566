--------------------------- MODULE SockRecvProofs ---------------------------
(***************************************************************************)
(* Reading a socket is exact for every size of buffers, reads, mailbox and *)
(* stream.  The argument follows the position of the stream: what a call   *)
(* has copied, what is left of the buffer in hand and what waits in the    *)
(* mailbox are neighbours, and the event count of the socket is what the   *)
(* mailbox holds, up to the event that is still under way.                 *)
(***************************************************************************)
EXTENDS SockRecv, TLAPS

Buffers == [at : Nat, len : Nat, push : BOOLEAN]

Nets == [sent : Nat, late : BOOLEAN, fin : BOOLEAN, rst : BOOLEAN, err : {"OK", "CLSD", "RST"}]
Socks == [last : Buffers, off : Nat, rcv : Int, credit : Nat, consumed : Nat]
Results == {"none", "data", "WOULDBLOCK", "eof", "RST"}
Readers == [pc : {"idle", "loop", "check", "fetch", "count", "end", "copy"}, len : Nat, peek : BOOLEAN,
            dont : BOOLEAN, mem : Seq(Nat), base : Nat, buf : Buffers, res : Results]

(* Types of the state. *)
Typed ==
  /\ box \in Seq(Buffers) /\ net \in Nets /\ sock \in Socks /\ rd \in Readers
  /\ (rd.peek => TRUE \in Peeks) /\ (net.err = "RST" => net.rst)

(* Where the octets begin that the mailbox holds from place i on. *)
Start(b, sent, i) == IF i \in 1 .. Len(b) /\ b[i].len > 0 THEN b[i].at ELSE sent

(* The buffers of the mailbox are neighbours in the stream, and behind the    *)
(* end of the stream there is nothing but ends.                               *)
Boxed(b, sent) ==
  /\ \A i \in 1 .. Len(b) : b[i].len > 0 => b[i].at + b[i].len = Start(b, sent, i + 1)
  /\ \A i, j \in 1 .. Len(b) : i <= j /\ b[i].len = 0 => b[j].len = 0
Ended == \A i \in 1 .. Len(box) : box[i].len = 0 => net.fin

(* The reader has fetched a buffer and not yet made it the one in hand. *)
Fetched == rd.pc = "count" /\ rd.buf.len > 0

(* Between what has been taken out of the stream and the mailbox there is the *)
(* rest of the buffer in hand, and nothing else.                              *)
Front == Start(box, net.sent, 1)
InHand ==
  /\ rd.pc \in {"check", "fetch", "count", "end"} => sock.last.len = 0
  /\ rd.pc = "copy" => rd.buf = sock.last /\ sock.last.len > 0
  /\ Fetched => rd.buf.at = sock.consumed /\ rd.buf.at + rd.buf.len = Front
  /\ sock.last.len > 0 => /\ sock.off < sock.last.len
                          /\ sock.last.at + sock.off = sock.consumed
                          /\ sock.last.at + sock.last.len = Front
  /\ sock.last.len = 0 /\ ~ Fetched => sock.consumed = Front

(* The end is noticed when everything before it has been taken. *)
AtEnd == net.fin /\ sock.consumed = net.sent /\ sock.last.len = 0
Ends ==
  /\ rd.pc = "end" \/ (rd.pc = "count" /\ rd.buf.len = 0) => AtEnd
  /\ net.err = "CLSD" => AtEnd /\ rd.pc \notin {"fetch", "count", "end"}
  /\ rd.res = "eof" => AtEnd /\ rd.pc = "idle"

(* The reader has fetched something that the events still count. *)
Taking == rd.pc \in {"count", "end"}

(* The events count the buffers, and a call that goes on has seen one. *)
Counted ==
  /\ net.err = "OK" =>
       sock.rcv = Len(box) + (IF Taking THEN 1 ELSE 0) - (IF net.late THEN 1 ELSE 0)
  /\ rd.pc \in {"loop", "check"} /\ rd.mem # <<>> => box # <<>> \/ net.err # "OK"
  /\ NeverWaitsWithData

(* What a call has copied and not yet asked room for, and the octet of room   *)
(* that the end has asked for.                                                *)
Held == IF rd.pc = "idle" THEN 0 ELSE Len(rd.mem)
EndRoom == IF rd.pc = "end" \/ net.err = "CLSD" THEN 1 ELSE 0

(* What a call has copied lies between its beginning and the next octet, and  *)
(* a call that only peeks ends with its first copy.                           *)
Copying ==
  /\ InOrder
  /\ rd.pc # "idle" => rd.base + Len(rd.mem) = sock.consumed
  /\ rd.pc # "idle" /\ rd.peek => rd.mem = <<>>
  /\ Tcp /\ ~ net.rst /\ TRUE \notin Peeks => sock.credit + Held = sock.consumed + EndRoom

(* The inductive invariant. *)
RecvInv == Typed /\ Boxed(box, net.sent) /\ Ended /\ InHand /\ Ends /\ Counted /\ Copying

-----------------------------------------------------------------------------
(* Fields of a buffer are numbers. *)
LEMMA BufferFields == \A x \in Buffers : x.at \in Nat /\ x.len \in Nat
BY DEF Buffers

(* A buffer posted at the end of the stream, or an end, is the neighbour of   *)
(* what the mailbox holds, and the mailbox begins where it began.             *)
LEMMA Posted ==
  ASSUME NEW b \in Seq(Buffers), NEW sent \in Nat, NEW x \in Buffers, Boxed(b, sent),
         x.len > 0 => x.at = sent /\ \A i \in 1 .. Len(b) : b[i].len > 0
  PROVE  /\ Boxed(Append(b, x), sent + x.len)
         /\ Start(Append(b, x), sent + x.len, 1) = Start(b, sent, 1)
<1> DEFINE c == Append(b, x)
           n == Len(b)
<1>1. /\ c \in Seq(Buffers) /\ Len(c) = n + 1 /\ n \in Nat /\ c[n + 1] = x
      /\ \A i \in 1 .. n : c[i] = b[i] /\ b[i] \in Buffers
  OBVIOUS
<1>0. /\ x.at \in Nat /\ x.len \in Nat /\ sent + x.len \in Nat
      /\ \A i \in 1 .. n : b[i].at \in Nat /\ b[i].len \in Nat
  BY <1>1, BufferFields
<1>2. ASSUME NEW i \in 1 .. n + 1 PROVE Start(c, sent + x.len, i) = Start(b, sent, i)
  <2>1. CASE i = n + 1
    BY <1>0, <1>1, <2>1 DEF Start
  <2>2. CASE i \in 1 .. n /\ b[i].len > 0
    BY <1>1, <2>2 DEF Start
  <2>3. CASE i \in 1 .. n /\ ~(b[i].len > 0)
    BY <1>0, <1>1, <2>3 DEF Start
  <2> QED
    BY <1>1, <2>1, <2>2, <2>3
<1>3. Start(c, sent + x.len, n + 2) = sent + x.len
  BY <1>1 DEF Start
<1> HIDE DEF c
<1>4. ASSUME NEW i \in 1 .. n + 1, c[i].len > 0
      PROVE  c[i].at + c[i].len = Start(c, sent + x.len, i + 1)
  <2>1. CASE i = n + 1
    BY <1>0, <1>1, <1>3, <1>4, <2>1
  <2>2. CASE i \in 1 .. n
    <3>1. c[i] = b[i] /\ i + 1 \in 1 .. n + 1
      BY <1>1, <2>2
    <3> QED
      BY <1>2, <1>4, <2>2, <3>1 DEF Boxed
  <2> QED
    BY <1>1, <2>1, <2>2
<1>5. ASSUME NEW i \in 1 .. n + 1, NEW j \in 1 .. n + 1, i <= j, c[i].len = 0 PROVE c[j].len = 0
  <2>1. CASE j = n + 1
    <3>1. CASE x.len = 0
      BY <1>1, <2>1, <3>1
    <3>2. CASE x.len > 0
      <4>1. \A k \in 1 .. n : b[k].len > 0
        BY <3>2
      <4>2. ASSUME NEW k \in 1 .. n + 1 PROVE c[k].len > 0
        <5>1. CASE k = n + 1
          BY <1>1, <3>2, <5>1
        <5>2. CASE k \in 1 .. n
          BY <1>1, <4>1, <5>2
        <5> QED
          BY <1>1, <5>1, <5>2
      <4>3. c[i].len > 0
        BY <4>2
      <4> QED
        BY <1>5, <4>3
    <3> QED
      BY <1>0, <3>1, <3>2
  <2>2. CASE j \in 1 .. n
    <3>1. i \in 1 .. n /\ c[i] = b[i] /\ c[j] = b[j]
      BY <1>1, <1>5, <2>2
    <3> QED
      BY <1>5, <2>2, <3>1 DEF Boxed
  <2> QED
    BY <1>1, <2>1, <2>2
<1> QED
  BY <1>1, <1>2, <1>4, <1>5 DEF Boxed, c

(* Without its first buffer the mailbox begins with the second one. *)
LEMMA Popped ==
  ASSUME NEW b \in Seq(Buffers), NEW sent \in Nat, Boxed(b, sent), b # <<>>
  PROVE  /\ Boxed(Tail(b), sent) /\ Tail(b) \in Seq(Buffers) /\ Head(b) \in Buffers
         /\ Len(Tail(b)) = Len(b) - 1
         /\ Head(b) = b[1] /\ \A i \in 1 .. Len(Tail(b)) : Tail(b)[i] = b[i + 1]
         /\ Start(Tail(b), sent, 1) = Start(b, sent, 2)
<1> DEFINE c == Tail(b)
           n == Len(b)
<1>1. /\ c \in Seq(Buffers) /\ Len(c) = n - 1 /\ n \in Nat \ {0} /\ Head(b) = b[1]
      /\ \A i \in 1 .. n - 1 : c[i] = b[i + 1]
      /\ b[1] \in Buffers
  OBVIOUS
<1> HIDE DEF c
<1>2. ASSUME NEW i \in 1 .. n PROVE Start(c, sent, i) = Start(b, sent, i + 1)
  BY <1>1 DEF Start
<1>3. ASSUME NEW i \in 1 .. n - 1, c[i].len > 0 PROVE c[i].at + c[i].len = Start(c, sent, i + 1)
  <2>1. c[i] = b[i + 1] /\ i + 1 \in 1 .. n
    BY <1>1
  <2> QED
    BY <1>2, <1>3, <2>1 DEF Boxed
<1>4. ASSUME NEW i \in 1 .. n - 1, NEW j \in 1 .. n - 1, i <= j, c[i].len = 0 PROVE c[j].len = 0
  <2>1. c[i] = b[i + 1] /\ c[j] = b[j + 1] /\ i + 1 \in 1 .. n /\ j + 1 \in 1 .. n /\ i + 1 <= j + 1
    BY <1>1, <1>4
  <2> QED
    BY <1>4, <2>1 DEF Boxed
<1>5. Start(c, sent, 1) = Start(b, sent, 2)
  BY <1>1, <1>2
<1> QED
  BY <1>1, <1>3, <1>4, <1>5 DEF Boxed, c

(* What a return without new data changes: the window is opened by what the   *)
(* call has copied, and its result is the one given only if that is nothing.  *)
LEMMA Returned ==
  ASSUME Typed, NEW s \in Socks, NEW res \in Results, Stopped(s, res)
  PROVE  /\ sock' \in Socks /\ rd' \in Readers
         /\ sock'.last = s.last /\ sock'.off = s.off /\ sock'.rcv = s.rcv
         /\ sock'.consumed = s.consumed
         /\ Tcp /\ ~ net.rst => sock'.credit = s.credit + Len(rd.mem)
         /\ rd'.pc = "idle" /\ rd'.mem = rd.mem /\ rd'.base = rd.base /\ rd'.peek = rd.peek
         /\ rd'.res = "eof" => res = "eof"
<1>1. Len(rd.mem) \in Nat /\ (rd.mem = <<>> => Len(rd.mem) = 0)
  BY DEF Typed, Readers
<1>2. CASE rd.mem # <<>> /\ Tcp /\ ~ net.rst
  <2>1. sock' = [s EXCEPT !.credit = @ + Len(rd.mem)] /\ rd' = [rd EXCEPT !.pc = "idle", !.res = "data"]
    BY <1>2 DEF Stopped, netconn_recved, do_recv, Result
  <2>0. \A k \in Nat : [s EXCEPT !.credit = @ + k] \in Socks
    BY DEF Socks
  <2>2. rd' \in Readers /\ sock' \in Socks
    BY <1>1, <2>0, <2>1 DEF Typed, Readers, Results
  <2> QED
    BY <1>1, <2>1, <2>2 DEF Typed, Readers, Socks
<1>3. CASE rd.mem # <<>> /\ ~(Tcp /\ ~ net.rst)
  <2>1. sock' = s /\ rd' = [rd EXCEPT !.pc = "idle", !.res = "data"]
    BY <1>3 DEF Stopped, netconn_recved, do_recv, Result
  <2> QED
    BY <1>3, <2>1 DEF Typed, Readers, Results
<1>4. CASE rd.mem = <<>>
  <2>1. sock' = s /\ rd' = [rd EXCEPT !.pc = "idle", !.res = res]
    BY <1>4 DEF Stopped, Result
  <2>2. rd' \in Readers /\ sock' \in Socks
    BY <2>1 DEF Typed, Readers, Results
  <2>3. s.credit = s.credit + Len(rd.mem)
    BY <1>1, <1>4 DEF Socks
  <2> QED
    BY <2>1, <2>2, <2>3 DEF Typed, Readers
<1> QED
  BY <1>2, <1>3, <1>4

-----------------------------------------------------------------------------
(* The tcpip thread posts something: a buffer at the end of the stream, or an *)
(* end.                                                                       *)
LEMMA PostStep ==
  ASSUME RecvInv, NEW x \in Buffers, box' = Append(box, x), UNCHANGED rd, net' \in Nets, sock' \in Socks,
         x.len > 0 => x.at = net.sent /\ ~ net.fin,
         x.len = 0 => net'.fin,
         net.fin => net'.fin,
         net'.sent = net.sent + x.len,
         (net'.err = net.err /\ net'.rst = net.rst) \/ (net'.err = "RST" /\ net'.rst),
         sock'.last = sock.last, sock'.off = sock.off, sock'.credit = sock.credit,
         sock'.consumed = sock.consumed,
         net'.err = "OK" => ~ net.late /\ net'.late /\ sock'.rcv = sock.rcv
  PROVE  RecvInv'
<1> USE DEF RecvInv
<1>0. box \in Seq(Buffers) /\ net.sent \in Nat /\ x.len \in Nat /\ Len(box) \in Nat
  BY DEF Typed, Nets, Buffers
<1>1. net.fin \/ \A i \in 1 .. Len(box) : box[i].len > 0
  <2>1. \A i \in 1 .. Len(box) : box[i] \in Buffers
    BY <1>0
  <2>2. \A i \in 1 .. Len(box) : box[i].len \in Nat
    BY <2>1, BufferFields
  <2> QED
    BY <2>2 DEF Ended
<1>2. Boxed(box', net'.sent) /\ Front' = Front
  BY <1>0, <1>1, Posted DEF Front
<1>3. /\ Len(box') = Len(box) + 1 /\ box' \in Seq(Buffers)
      /\ \A i \in 1 .. Len(box') : box'[i] = IF i = Len(box) + 1 THEN x ELSE box[i]
      /\ box' # <<>>
  BY <1>0
<1>4. Typed'
  BY <1>3 DEF Typed
<1>5. Ended'
  BY <1>0, <1>3 DEF Ended
<1>6. InHand'
  BY <1>2 DEF InHand, Fetched
<1>7. Ends'
  BY <1>0 DEF Ends, AtEnd, Typed, Nets, Buffers
<1>8. Counted'
  <2>1. net'.err = "OK" => net.err = "OK"
    BY DEF Typed
  <2>2. net'.err = "OK" =>
          sock'.rcv = Len(box') + (IF Taking' THEN 1 ELSE 0) - (IF net'.late THEN 1 ELSE 0)
    <3> SUFFICES ASSUME net'.err = "OK"
                 PROVE  sock'.rcv = Len(box') + (IF Taking' THEN 1 ELSE 0) - 1
      OBVIOUS
    <3>1. sock.rcv = Len(box) + (IF Taking THEN 1 ELSE 0) - 0 /\ sock'.rcv = sock.rcv
      BY <2>1 DEF Counted
    <3>2. Taking' = Taking
      BY DEF Taking
    <3> QED
      BY <1>0, <1>3, <3>1, <3>2
  <2> QED
    BY <1>3, <2>2 DEF Counted, NeverWaitsWithData, Taking
<1>9. Copying'
  <2>1. Held' = Held /\ (~ net'.rst => EndRoom' = EndRoom /\ ~ net.rst)
    BY DEF Held, EndRoom
  <2> QED
    BY <2>1 DEF Copying, InOrder
<1> QED
  BY <1>2, <1>4, <1>5, <1>6, <1>7, <1>8, <1>9

(* A step that leaves the mailbox and the stream alone. *)
LEMMA QuietStep ==
  ASSUME RecvInv, UNCHANGED box, net'.sent = net.sent, net'.fin = net.fin,
         Typed', InHand', Ends', Counted', Copying'
  PROVE  RecvInv'
BY DEF RecvInv, Ended
(* A call that returns without new data; s is the socket before the window is *)
(* opened.                                                                    *)
LEMMA ReturnStep ==
  ASSUME RecvInv, rd.pc # "idle", UNCHANGED box, net' \in Nets,
         net'.sent = net.sent, net'.fin = net.fin, net'.late = net.late,
         net'.rst = net.rst, net'.err = "RST" => net.rst,
         ~ net.rst => (net'.err = "CLSD" <=> rd.pc = "end" \/ net.err = "CLSD"),
         NEW s \in Socks, NEW res \in Results, Stopped(s, res),
         s.last = sock.last, s.off = sock.off, s.consumed = sock.consumed, s.credit = sock.credit,
         ~ Fetched,
         net'.err = "OK" => /\ net.err = "OK" /\ ~ Taking /\ s.rcv = sock.rcv,
         net'.err = "CLSD" => AtEnd,
         res = "eof" => AtEnd
  PROVE  RecvInv'
<1> USE DEF RecvInv
<1>1. /\ sock' \in Socks /\ rd' \in Readers
      /\ sock'.last = sock.last /\ sock'.off = sock.off /\ sock'.rcv = s.rcv
      /\ sock'.consumed = sock.consumed
      /\ Tcp /\ ~ net.rst => sock'.credit = sock.credit + Len(rd.mem)
      /\ rd'.pc = "idle" /\ rd'.mem = rd.mem /\ rd'.base = rd.base /\ rd'.peek = rd.peek
      /\ rd'.res = "eof" => res = "eof"
  BY Returned
<1>2. Typed'
  BY <1>1 DEF Typed
<1>3. InHand'
  BY <1>1 DEF InHand, Fetched, Front
<1>4. Ends'
  BY <1>1 DEF Ends, AtEnd
<1>5. Counted'
  BY <1>1 DEF Counted, NeverWaitsWithData, Taking
<1>6. Copying'
  <2>1. InOrder'
    BY <1>1 DEF Copying, InOrder, Held, EndRoom
  <2>2. ASSUME Tcp, ~ net'.rst, TRUE \notin Peeks PROVE sock'.credit = sock'.consumed + EndRoom'
    <3>1. EndRoom' = EndRoom /\ Held = Len(rd.mem)
      BY <1>1, <2>2 DEF EndRoom, Held
    <3> QED
      BY <1>1, <2>2, <3>1 DEF Copying
  <2>3. sock'.credit \in Nat
    BY <1>1 DEF Socks
  <2>4. Tcp /\ ~ net'.rst /\ TRUE \notin Peeks => sock'.credit + Held' = sock'.consumed + EndRoom'
    BY <1>1, <2>2, <2>3 DEF Held
  <2> QED
    BY <1>1, <2>1, <2>4 DEF Copying
<1> QED
  BY <1>2, <1>3, <1>4, <1>5, <1>6, QuietStep

(* recv_tcp posts a buffer behind the stream. *)
LEMMA DataStep ==
  ASSUME RecvInv, NEW len \in Lens, NEW push \in BOOLEAN, recv_tcp(len, push)
  PROVE  RecvInv'
<1> DEFINE x == [at |-> net.sent, len |-> len, push |-> push]
<1>1. /\ len \in Nat \ {0} /\ net \in Nets /\ net.sent \in Nat
  BY RecvAssumption DEF RecvInv, Typed, Nets
<1>2. x \in Buffers /\ x.len = len /\ x.at = net.sent
  BY <1>1 DEF Buffers
<1>3. /\ ~ net.late /\ ~ net.fin /\ UNCHANGED <<sock, rd>> /\ box' = Append(box, x)
      /\ net' = [net EXCEPT !.sent = @ + len, !.late = TRUE]
  BY DEF recv_tcp, Quiet
<1>4. /\ net' \in Nets /\ net'.sent = net.sent + len /\ net'.late /\ net'.err = net.err
      /\ net'.fin = net.fin /\ net'.rst = net.rst
  <2>1. net.sent + len \in Nat
    BY <1>1
  <2>2. net' = [net EXCEPT !.sent = net.sent + len, !.late = TRUE]
    BY <1>3
  <2> QED
    BY <1>1, <2>1, <2>2 DEF Nets
<1>5. sock' \in Socks
  BY <1>3 DEF RecvInv, Typed
<1> HIDE DEF x
<1> QED
  BY <1>1, <1>2, <1>3, <1>4, <1>5, PostStep

(* recv_tcp posts the end of the stream. *)
LEMMA FinStep == ASSUME RecvInv, Fin PROVE RecvInv'
<1>1. None \in Buffers /\ None.len = 0
  BY DEF None, Buffers
<1>2. /\ ~ net.late /\ UNCHANGED <<sock, rd>> /\ box' = Append(box, None)
      /\ net' = [net EXCEPT !.fin = TRUE, !.late = TRUE]
  BY DEF Fin, Quiet
<1>3. /\ net' \in Nets /\ net'.sent = net.sent /\ net'.late /\ net'.err = net.err /\ net'.fin
      /\ net.sent \in Nat /\ net'.rst = net.rst
  BY <1>2 DEF RecvInv, Typed, Nets
<1>4. sock' \in Socks
  BY <1>2 DEF RecvInv, Typed
<1> QED
  BY <1>1, <1>2, <1>3, <1>4, PostStep

(* err_tcp resets the connection; its message finds no room in a full mailbox. *)
LEMMA ErrStep == ASSUME RecvInv, err_tcp PROVE RecvInv'
<1>1. None \in Buffers /\ None.len = 0
  BY DEF None, Buffers
<1>2. /\ UNCHANGED rd /\ net' = [net EXCEPT !.rst = TRUE, !.fin = TRUE, !.err = "RST"]
      /\ sock' = [sock EXCEPT !.rcv = @ + 1]
      /\ box' = Append(box, None) \/ box' = box
  BY DEF err_tcp
<1>3. net' \in Nets /\ net'.sent = net.sent /\ net'.err = "RST" /\ net'.fin /\ net.sent \in Nat /\ net'.rst
  BY <1>2 DEF RecvInv, Typed, Nets
<1>4. /\ sock' \in Socks /\ sock'.last = sock.last /\ sock'.off = sock.off
      /\ sock'.credit = sock.credit /\ sock'.consumed = sock.consumed
  BY <1>2 DEF RecvInv, Typed, Socks
<1>5. CASE box' = Append(box, None)
  BY <1>1, <1>2, <1>3, <1>4, <1>5, PostStep
<1>6. CASE box' = box
  <2> USE DEF RecvInv
  <2>1. Typed' /\ Boxed(box', net'.sent) /\ Ended'
    BY <1>2, <1>3, <1>4, <1>6 DEF Typed, Ended
  <2>2. InHand'
    BY <1>2, <1>3, <1>4, <1>6 DEF InHand, Fetched, Front
  <2>3. Ends'
    BY <1>2, <1>3, <1>4, <1>6 DEF Ends, AtEnd
  <2>4. Counted'
    BY <1>2, <1>3, <1>4, <1>6 DEF Counted, NeverWaitsWithData, Taking
  <2>5. Copying'
    BY <1>2, <1>3, <1>4, <1>6 DEF Copying, InOrder
  <2> QED
    BY <2>1, <2>2, <2>3, <2>4, <2>5
<1> QED
  BY <1>2, <1>5, <1>6

(* event_callback counts what was posted. *)
LEMMA EventStep == ASSUME RecvInv, event_callback PROVE RecvInv'
<1> USE DEF RecvInv
<1>1. /\ UNCHANGED <<box, rd>> /\ net.late /\ net' = [net EXCEPT !.late = FALSE]
      /\ sock' = [sock EXCEPT !.rcv = @ + 1]
  BY DEF event_callback
<1>2. /\ net' \in Nets /\ net'.sent = net.sent /\ net'.err = net.err /\ net'.fin = net.fin
      /\ net'.late = FALSE /\ net'.rst = net.rst
  BY <1>1 DEF Typed, Nets
<1>3. /\ sock' \in Socks /\ sock'.last = sock.last /\ sock'.off = sock.off
      /\ sock'.credit = sock.credit /\ sock'.consumed = sock.consumed
      /\ sock'.rcv = sock.rcv + 1 /\ sock.rcv \in Int
  BY <1>1 DEF Typed, Socks
<1>4. Typed'
  BY <1>1, <1>2, <1>3 DEF Typed
<1>0. Held' = Held /\ EndRoom' = EndRoom /\ Taking' = Taking
  BY <1>1, <1>2 DEF Held, EndRoom, Taking
<1>5. InHand' /\ Ends' /\ Copying'
  BY <1>0, <1>1, <1>2, <1>3 DEF InHand, Fetched, Front, Ends, AtEnd, Copying, InOrder
<1>6. Counted'
  <2>1. Len(box) \in Nat
    BY DEF Typed
  <2>2. net.err = "OK" => sock.rcv = Len(box) + (IF Taking THEN 1 ELSE 0) - 1
    BY <1>1 DEF Counted
  <2>3. net'.err = "OK" => sock'.rcv = Len(box') + (IF Taking' THEN 1 ELSE 0) - 0
    BY <1>0, <1>1, <1>2, <1>3, <2>1, <2>2
  <2> QED
    BY <1>1, <1>2, <2>3 DEF Counted, NeverWaitsWithData, Taking
<1> QED
  BY <1>1, <1>2, <1>4, <1>5, <1>6, QuietStep

(* A call begins where the last one that took something has ended. *)
LEMMA BeginStep ==
  ASSUME RecvInv, NEW len \in Reads, NEW peek \in Peeks, NEW dont \in Donts,
         lwip_recvfrom(len, peek, dont)
  PROVE  RecvInv'
<1> USE DEF RecvInv
<1>1. /\ rd.pc = "idle" /\ UNCHANGED <<box, net, sock>>
      /\ rd' = [Resting EXCEPT !.pc = "loop", !.len = len, !.peek = peek, !.dont = dont,
                               !.base = sock.consumed]
  BY DEF lwip_recvfrom
<1>2. sock.consumed \in Nat /\ len \in Nat /\ peek \in BOOLEAN /\ dont \in BOOLEAN
  BY RecvAssumption DEF Typed, Socks
<1>3. /\ rd'.pc = "loop" /\ rd'.mem = <<>> /\ rd'.base = sock.consumed /\ rd'.peek = peek
      /\ rd'.res = "none"
  BY <1>1 DEF Resting
<1>4. rd' \in Readers
  <2>1. Resting \in Readers
    <3>1. None \in Buffers /\ <<>> \in Seq(Nat)
      BY DEF None, Buffers
    <3> QED
      BY <3>1 DEF Resting, Readers, Results
  <2> QED
    BY <1>1, <1>2, <2>1 DEF Readers
<1>5. Typed'
  BY <1>1, <1>2, <1>3, <1>4 DEF Typed
<1>6. InHand' /\ Ends'
  BY <1>1, <1>3 DEF InHand, Fetched, Front, Ends, AtEnd
<1>7. Counted'
  BY <1>1, <1>3 DEF Counted, NeverWaitsWithData, Taking
<1>8. Copying'
  <2>1. Len(rd'.mem) = 0 /\ DOMAIN rd'.mem = {}
    BY <1>3
  <2>2. InOrder'
    BY <2>1 DEF InOrder
  <2>3. rd'.base + Len(rd'.mem) = sock'.consumed
    BY <1>1, <1>2, <1>3, <2>1
  <2>4. Held' = Held /\ EndRoom' = EndRoom
    BY <1>1, <1>3, <2>1 DEF Held, EndRoom
  <2> QED
    BY <1>1, <1>3, <2>1, <2>2, <2>3, <2>4 DEF Copying
<1> QED
  BY <1>1, <1>5, <1>6, <1>7, <1>8, QuietStep
-----------------------------------------------------------------------------
(* The next round of a call: it goes on with the buffer in hand or fetches,   *)
(* or, when it shall not wait and no event has come, returns.                 *)
LEMMA LoopStep == ASSUME RecvInv, Loop \/ LoopNonblock PROVE RecvInv'
<1> USE DEF RecvInv
<1>1. ASSUME LoopNonblock PROVE RecvInv'
  <2>1. rd.pc = "loop" /\ Stopped(sock, "WOULDBLOCK") /\ UNCHANGED <<box, net>>
    BY <1>1 DEF LoopNonblock
  <2>2. sock \in Socks /\ net' \in Nets /\ "WOULDBLOCK" \in Results /\ ~ Fetched /\ ~ Taking
    BY <2>1 DEF Typed, Results, Fetched, Taking
  <2>3. (net'.err = "CLSD" => AtEnd) /\ (net'.err = "RST" => net.rst)
    BY <2>1 DEF Ends, Typed
  <2> QED
    BY <2>1, <2>2, <2>3, ReturnStep
<1>2. ASSUME Loop PROVE RecvInv'
  <2>1. /\ rd.pc = "loop" /\ UNCHANGED <<box, net, sock>>
        /\ \/ HasRest /\ rd' = [rd EXCEPT !.pc = "copy", !.buf = sock.last]
           \/ ~ HasRest /\ rd' = [rd EXCEPT !.pc = "check"]
    BY <1>2 DEF Loop
  <2>2. sock.last \in Buffers /\ sock.last.len \in Nat
    BY BufferFields DEF Typed, Socks
  <2>3. /\ rd' \in Readers /\ rd'.mem = rd.mem /\ rd'.base = rd.base /\ rd'.peek = rd.peek
        /\ rd'.res = rd.res
        /\ \/ sock.last.len > 0 /\ rd'.pc = "copy" /\ rd'.buf = sock.last
           \/ sock.last.len = 0 /\ rd'.pc = "check"
    <3>1. CASE HasRest
      BY <2>1, <2>2, <3>1 DEF Typed, Readers, HasRest
    <3>2. CASE ~ HasRest
      <4>1. rd' = [rd EXCEPT !.pc = "check"] /\ sock.last.len = 0
        BY <2>1, <2>2, <3>2 DEF HasRest
      <4> QED
        BY <4>1 DEF Typed, Readers
    <3> QED
      BY <3>1, <3>2
  <2>4. Typed'
    BY <2>1, <2>3 DEF Typed
  <2>5. InHand'
    BY <2>1, <2>3 DEF InHand, Fetched, Front
  <2>6. Ends'
    BY <2>1, <2>3 DEF Ends, AtEnd
  <2>7. Counted'
    BY <2>1, <2>3 DEF Counted, NeverWaitsWithData, Taking
  <2>8. Copying'
    BY <2>1, <2>3 DEF Copying, InOrder, Held, EndRoom
  <2> QED
    BY <2>1, <2>4, <2>5, <2>6, <2>7, <2>8, QuietStep
<1> QED
  BY <1>1, <1>2

(* netconn_recv_data: an error that is set ends the call. *)
LEMMA CheckStep == ASSUME RecvInv, RecvCheck PROVE RecvInv'
<1> USE DEF RecvInv
<1>0. rd.pc = "check" /\ UNCHANGED <<box, net>>
  BY DEF RecvCheck
<1>1. CASE net.err # "OK"
  <2>1. Stopped(sock, AsResult(net.err))
    BY <1>1 DEF RecvCheck
  <2>2. sock \in Socks /\ net' \in Nets /\ ~ Fetched /\ (net'.err = "RST" => net.rst)
    BY <1>0 DEF Typed, Fetched
  <2>3. AsResult(net.err) \in Results /\ (AsResult(net.err) = "eof" => net.err = "CLSD")
    BY <1>1 DEF AsResult, Results, Typed, Nets
  <2>4. net.err = "CLSD" => AtEnd
    BY DEF Ends
  <2> QED
    BY <1>0, <1>1, <2>1, <2>2, <2>3, <2>4, ReturnStep
<1>2. CASE net.err = "OK"
  <2>1. rd' = [rd EXCEPT !.pc = "fetch"] /\ UNCHANGED sock
    BY <1>2 DEF RecvCheck
  <2>2. /\ rd' \in Readers /\ rd'.mem = rd.mem /\ rd'.base = rd.base /\ rd'.peek = rd.peek
        /\ rd'.res = rd.res /\ rd'.pc = "fetch"
    BY <2>1 DEF Typed, Readers
  <2>3. Typed'
    BY <1>0, <2>1, <2>2 DEF Typed
  <2>4. InHand'
    BY <1>0, <2>1, <2>2 DEF InHand, Fetched, Front
  <2>5. Ends'
    BY <1>0, <1>2, <2>1, <2>2 DEF Ends, AtEnd
  <2>6. Counted'
    BY <1>0, <1>2, <2>1, <2>2 DEF Counted, NeverWaitsWithData, Taking
  <2>7. Copying'
    BY <1>0, <2>1, <2>2 DEF Copying, InOrder, Held, EndRoom
  <2> QED
    BY <1>0, <2>3, <2>4, <2>5, <2>6, <2>7, QuietStep
<1> QED
  BY <1>1, <1>2

(* The reader takes the first buffer out of the mailbox. *)
LEMMA FetchStep == ASSUME RecvInv, RecvFetch PROVE RecvInv'
<1> USE DEF RecvInv
<1>1. /\ rd.pc = "fetch" /\ box # <<>> /\ box' = Tail(box) /\ UNCHANGED <<net, sock>>
      /\ rd' = [rd EXCEPT !.pc = "count", !.buf = Head(box)]
  BY DEF RecvFetch
<1>2. /\ box \in Seq(Buffers) /\ net.sent \in Nat /\ Len(box) \in Nat /\ Len(box) > 0
  BY <1>1 DEF Typed, Nets
<1>3. /\ Boxed(box', net.sent) /\ box' \in Seq(Buffers) /\ Head(box) = box[1] /\ Head(box) \in Buffers
      /\ Len(box') = Len(box) - 1 /\ \A i \in 1 .. Len(box') : box'[i] = box[i + 1]
      /\ Start(box', net.sent, 1) = Start(box, net.sent, 2)
  BY <1>1, <1>2, Popped
<1>4. /\ rd' \in Readers /\ rd'.mem = rd.mem /\ rd'.base = rd.base /\ rd'.peek = rd.peek
      /\ rd'.res = rd.res /\ rd'.pc = "count" /\ rd'.buf = box[1] /\ box[1].len \in Nat
  BY <1>1, <1>3, BufferFields DEF Typed, Readers
<1>5. Typed'
  BY <1>1, <1>3, <1>4 DEF Typed
<1>6. Ended'
  <2>1. \A i \in 1 .. Len(box') : i + 1 \in 1 .. Len(box)
    BY <1>2, <1>3
  <2> QED
    BY <1>1, <1>3, <2>1 DEF Ended
<1>7. sock.last.len = 0 /\ sock.consumed = Front
  BY <1>1 DEF InHand, Fetched
<1>8. CASE box[1].len > 0
  <2>1. box[1].at = sock.consumed /\ box[1].at + box[1].len = Front'
    <3>1. 1 \in 1 .. Len(box) /\ 1 + 1 = 2
      BY <1>2
    <3>2. box[1].at = Front
      BY <1>8, <3>1 DEF Front, Start
    <3>3. box[1].at + box[1].len = Start(box, net.sent, 1 + 1)
      BY <1>8, <3>1 DEF Boxed
    <3>4. Front' = Start(box, net.sent, 2)
      BY <1>1, <1>3 DEF Front
    <3> QED
      BY <1>7, <3>1, <3>2, <3>3, <3>4
  <2>2. InHand'
    BY <1>1, <1>4, <1>7, <1>8, <2>1 DEF InHand, Fetched
  <2>3. Ends'
    BY <1>1, <1>4, <1>8 DEF Ends, AtEnd
  <2> QED
    <3>1. Counted'
      BY <1>1, <1>2, <1>3, <1>4 DEF Counted, NeverWaitsWithData, Taking
    <3>2. Copying'
      BY <1>1, <1>4 DEF Copying, InOrder, Held, EndRoom
    <3> QED
      BY <1>1, <1>3, <1>5, <1>6, <2>2, <2>3, <3>1, <3>2
<1>9. CASE box[1].len = 0
  <2>1. net.fin /\ sock.consumed = net.sent
    BY <1>2, <1>7, <1>9 DEF Front, Start, Ended
  <2>2. Front' = net.sent
    <3>1. 2 \in 1 .. Len(box) => box[2].len = 0
      BY <1>2, <1>9 DEF Boxed
    <3>2. Start(box, net.sent, 2) = net.sent
      BY <3>1 DEF Start
    <3> QED
      BY <1>1, <1>3, <3>2 DEF Front
  <2>3. InHand'
    BY <1>1, <1>4, <1>7, <1>9, <2>1, <2>2 DEF InHand, Fetched
  <2>4. Ends'
    BY <1>1, <1>4, <1>7, <1>9, <2>1 DEF Ends, AtEnd
  <2> QED
    <3>1. Counted'
      BY <1>1, <1>2, <1>3, <1>4 DEF Counted, NeverWaitsWithData, Taking
    <3>2. Copying'
      BY <1>1, <1>4 DEF Copying, InOrder, Held, EndRoom
    <3> QED
      BY <1>1, <1>3, <1>5, <1>6, <2>3, <2>4, <3>1, <3>2
<1> QED
  BY <1>4, <1>8, <1>9
(* The reader has fetched the end of the stream and asks for room for it. *)
LEMMA RoomStep == ASSUME RecvInv, RecvRoom PROVE RecvInv'
<1> USE DEF RecvInv
<1>1. /\ rd.pc = "count" /\ rd.buf.len = 0 /\ UNCHANGED <<box, net>>
      /\ sock' = do_recv(sock, 1) /\ rd' = [rd EXCEPT !.pc = "end"]
  BY DEF RecvRoom
<1>2. /\ rd' \in Readers /\ rd'.mem = rd.mem /\ rd'.base = rd.base /\ rd'.peek = rd.peek
      /\ rd'.res = rd.res /\ rd'.pc = "end"
  BY <1>1 DEF Typed, Readers
<1>3. /\ sock' \in Socks /\ sock'.last = sock.last /\ sock'.off = sock.off /\ sock'.rcv = sock.rcv
      /\ sock'.consumed = sock.consumed /\ sock.credit \in Nat
      /\ Tcp /\ ~ net.rst => sock'.credit = sock.credit + 1
  <2>1. sock \in Socks /\ sock.credit \in Nat /\ sock.credit + 1 \in Nat
    BY DEF Typed, Socks
  <2>2. CASE Tcp /\ ~ net.rst
    <3>1. sock' = [sock EXCEPT !.credit = sock.credit + 1]
      BY <1>1, <2>2 DEF do_recv
    <3> QED
      BY <2>1, <3>1 DEF Socks
  <2>3. CASE ~(Tcp /\ ~ net.rst)
    BY <1>1, <2>1, <2>3 DEF do_recv
  <2> QED
    BY <2>2, <2>3
<1>4. Typed'
  BY <1>1, <1>2, <1>3 DEF Typed
<1>5. InHand'
  BY <1>1, <1>2, <1>3 DEF InHand, Fetched, Front
<1>6. Ends'
  BY <1>1, <1>2, <1>3 DEF Ends, AtEnd
<1>7. Counted'
  BY <1>1, <1>2, <1>3 DEF Counted, NeverWaitsWithData, Taking
<1>8. Copying'
  <2>1. Len(rd.mem) \in Nat /\ sock.consumed \in Nat
    BY DEF Typed, Readers, Socks
  <2>2. EndRoom = 0 /\ EndRoom' = 1 /\ Held = Len(rd.mem) /\ Held' = Len(rd.mem)
    BY <1>1, <1>2 DEF EndRoom, Held, Ends
  <2>3. ASSUME Tcp, ~ net.rst, TRUE \notin Peeks PROVE sock'.credit + Held' = sock'.consumed + EndRoom'
    <3>1. sock.credit + Len(rd.mem) = sock.consumed + 0
      BY <2>2, <2>3 DEF Copying
    <3> QED
      BY <1>3, <2>1, <2>2, <2>3, <3>1
  <2> QED
    BY <1>1, <1>2, <1>3, <2>3 DEF Copying, InOrder
<1> QED
  BY <1>1, <1>4, <1>5, <1>6, <1>7, <1>8, QuietStep

(* The end is counted and the call returns. *)
LEMMA EndStep == ASSUME RecvInv, RecvEnd PROVE RecvInv'
<1> USE DEF RecvInv
<1> DEFINE s == [sock EXCEPT !.rcv = @ - 1]
<1>1. /\ rd.pc = "end" /\ Stopped(s, "eof") /\ UNCHANGED box
      /\ net' = [net EXCEPT !.err = IF @ = "OK" THEN "CLSD" ELSE @]
  BY DEF RecvEnd
<1>2. /\ s \in Socks /\ s.last = sock.last /\ s.off = sock.off /\ s.consumed = sock.consumed
      /\ s.credit = sock.credit
  BY DEF Typed, Socks
<1>3. /\ net' \in Nets /\ net'.sent = net.sent /\ net'.fin = net.fin /\ net'.late = net.late
      /\ net'.err # "OK" /\ net'.rst = net.rst
      /\ net'.err = (IF net.err = "OK" THEN "CLSD" ELSE net.err)
  BY <1>1 DEF Typed, Nets
<1>4. AtEnd /\ ~ Fetched /\ "eof" \in Results
  BY <1>1 DEF Ends, Fetched, Results
<1>5. net.err \in {"OK", "CLSD", "RST"} /\ (net.err = "RST" => net.rst)
  BY DEF Typed, Nets
<1>6. (net'.err = "RST" => net.rst) /\ (~ net.rst => net'.err = "CLSD")
  BY <1>3, <1>5
<1> HIDE DEF s
<1> QED
  BY <1>1, <1>2, <1>3, <1>4, <1>6, ReturnStep

(* The buffer that was fetched becomes the one in hand. *)
LEMMA TakeStep == ASSUME RecvInv, RecvData PROVE RecvInv'
<1> USE DEF RecvInv
<1>1. /\ rd.pc = "count" /\ rd.buf.len > 0 /\ UNCHANGED <<box, net>>
      /\ sock' = [sock EXCEPT !.rcv = @ - 1, !.last = rd.buf, !.off = 0]
      /\ rd' = [rd EXCEPT !.pc = "copy"]
  BY DEF RecvData
<1>2. rd.buf \in Buffers /\ rd.buf.len \in Nat /\ rd.buf.at \in Nat
  BY BufferFields DEF Typed, Readers
<1>3. /\ rd' \in Readers /\ rd'.mem = rd.mem /\ rd'.base = rd.base /\ rd'.peek = rd.peek
      /\ rd'.res = rd.res /\ rd'.pc = "copy" /\ rd'.buf = rd.buf
  BY <1>1 DEF Typed, Readers
<1>4. /\ sock' \in Socks /\ sock'.last = rd.buf /\ sock'.off = 0 /\ sock'.credit = sock.credit
      /\ sock'.consumed = sock.consumed /\ sock'.rcv = sock.rcv - 1 /\ sock.rcv \in Int
  <2>1. sock.rcv \in Int /\ sock.rcv - 1 \in Int /\ sock \in Socks
    BY DEF Typed, Socks
  <2>2. sock' = [sock EXCEPT !.rcv = sock.rcv - 1, !.last = rd.buf, !.off = 0]
    BY <1>1
  <2> QED
    BY <1>2, <2>1, <2>2 DEF Socks
<1>5. Typed'
  BY <1>1, <1>3, <1>4 DEF Typed
<1>6. InHand'
  BY <1>1, <1>2, <1>3, <1>4 DEF InHand, Fetched, Front
<1>7. Ends'
  BY <1>1, <1>3, <1>4 DEF Ends, AtEnd
<1>8. Counted'
  <2>1. Len(box) \in Nat
    BY DEF Typed
  <2>2. net.err = "OK" => sock.rcv = Len(box) + 1 - (IF net.late THEN 1 ELSE 0)
    BY <1>1 DEF Counted, Taking
  <2>3. net'.err = "OK" => sock'.rcv = Len(box') + 0 - (IF net'.late THEN 1 ELSE 0)
    BY <1>1, <1>4, <2>1, <2>2
  <2> QED
    BY <1>3, <2>3 DEF Counted, NeverWaitsWithData, Taking
<1>9. Copying'
  BY <1>1, <1>3, <1>4 DEF Copying, InOrder, Held, EndRoom
<1> QED
  BY <1>1, <1>5, <1>6, <1>7, <1>8, <1>9, QuietStep

(* The octets of m are those that follow base; the n octets that follow m. *)
Follow(m, base) == \A i \in DOMAIN m : m[i] = base + i
More(m, base, n) == [i \in 1 .. n |-> base + Len(m) + i]

(* A sequence followed by octets that go on where it ends. *)
LEMMA Continued ==
  ASSUME NEW m \in Seq(Nat), NEW base \in Nat, NEW n \in Nat, Follow(m, base)
  PROVE  /\ m \o More(m, base, n) \in Seq(Nat) /\ Len(m \o More(m, base, n)) = Len(m) + n
         /\ Follow(m \o More(m, base, n), base)
<1> SUFFICES ASSUME NEW c, c = [i \in 1 .. n |-> base + Len(m) + i],
                    \A i \in DOMAIN m : m[i] = base + i
             PROVE  /\ m \o c \in Seq(Nat) /\ Len(m \o c) = Len(m) + n
                    /\ \A i \in DOMAIN (m \o c) : (m \o c)[i] = base + i
  BY DEF Follow, More
<1>1. Len(m) \in Nat /\ DOMAIN m = 1 .. Len(m)
  OBVIOUS
<1>2. c \in Seq(Nat) /\ Len(c) = n
  <2>1. \A i \in 1 .. n : base + Len(m) + i \in Nat
    BY <1>1
  <2>2. c \in [1 .. n -> Nat]
    BY <2>1
  <2> QED
    BY <2>2
<1>3. m \o c \in Seq(Nat) /\ Len(m \o c) = Len(m) + n /\ DOMAIN (m \o c) = 1 .. Len(m) + n
  BY <1>1, <1>2
<1>4. ASSUME NEW i \in 1 .. Len(m) + n PROVE (m \o c)[i] = base + i
  <2>1. CASE i <= Len(m)
    <3>1. i \in 1 .. Len(m) /\ (m \o c)[i] = m[i]
      BY <1>1, <1>2, <2>1
    <3> QED
      BY <1>1, <3>1
  <2>2. CASE i > Len(m)
    <3>1. i - Len(m) \in 1 .. n /\ (m \o c)[i] = c[i - Len(m)]
      BY <1>1, <1>2, <2>2
    <3>2. c[i - Len(m)] = base + Len(m) + (i - Len(m))
      BY <3>1
    <3> QED
      BY <1>1, <3>1, <3>2
  <2> QED
    BY <1>1, <2>1, <2>2
<1> QED
  BY <1>3, <1>4

(* What the copy has read: the octets of Continued. *)
LEMMA CopiedOn ==
  ASSUME rd.mem \in Seq(Nat), rd.base \in Nat, NEW n \in Nat,
         Copied(n) = More(rd.mem, rd.base, n), Follow(rd.mem, rd.base)
  PROVE  /\ rd.mem \o Copied(n) \in Seq(Nat) /\ Len(rd.mem \o Copied(n)) = Len(rd.mem) + n
         /\ Follow(rd.mem \o Copied(n), rd.base)
<1>1. /\ rd.mem \o More(rd.mem, rd.base, n) \in Seq(Nat)
      /\ Len(rd.mem \o More(rd.mem, rd.base, n)) = Len(rd.mem) + n
      /\ Follow(rd.mem \o More(rd.mem, rd.base, n), rd.base)
  BY Continued, Zenon
<1> QED
  BY <1>1, Zenon

(* netconn_recved opens the window and changes nothing else. *)
LEMMA WindowOpened ==
  ASSUME NEW s \in Socks, NEW k \in Nat, NEW t, t = netconn_recved(s, k)
  PROVE  /\ t \in Socks /\ t.last = s.last /\ t.off = s.off /\ t.rcv = s.rcv
         /\ t.consumed = s.consumed
         /\ Tcp /\ ~ net.rst => t.credit = s.credit + k
<1>1. CASE Tcp /\ ~ net.rst
  <2>1. t = [s EXCEPT !.credit = s.credit + k] /\ s.credit + k \in Nat
    BY <1>1 DEF netconn_recved, do_recv, Socks
  <2> QED
    BY <2>1 DEF Socks
<1>2. CASE ~(Tcp /\ ~ net.rst)
  BY <1>2 DEF netconn_recved, do_recv
<1> QED
  BY <1>1, <1>2

(* What the copy takes out of the stream: nothing when it peeks, what it has  *)
(* copied, or the whole buffer in hand.                                       *)
LEMMA TakenIs ==
  ASSUME RecvInv, rd.pc = "copy", NEW n \in Nat, n <= rd.len, n <= rd.buf.len - sock.off,
         rd.len > n => n = rd.buf.len - sock.off
  PROVE  /\ Taken(n) \in Socks /\ Taken(n).rcv = sock.rcv /\ Taken(n).credit = sock.credit
         /\ Taken(n).last.len > 0 =>
               /\ Taken(n).off < Taken(n).last.len
               /\ Taken(n).last.at + Taken(n).off = Taken(n).consumed
               /\ Taken(n).last.at + Taken(n).last.len = Front
         /\ Taken(n).last.len = 0 => Taken(n).consumed = Front
         /\ Tcp /\ ~ rd.peek => Taken(n).consumed = sock.consumed + n
         /\ ~ Done(rd.len - n) => Taken(n).last.len = 0 /\ Tcp /\ ~ rd.peek
<1>0. /\ sock \in Socks /\ rd.buf = sock.last /\ sock.last \in Buffers /\ sock.off \in Nat
      /\ sock.last.at \in Nat /\ sock.last.len \in Nat /\ sock.consumed \in Nat /\ rd.len \in Nat
  BY BufferFields DEF RecvInv, Typed, Socks, InHand, Readers
<1>1. /\ sock.last.len > 0 /\ sock.off < sock.last.len
      /\ sock.last.at + sock.off = sock.consumed /\ sock.last.at + sock.last.len = Front
  BY DEF RecvInv, InHand
<1>2. CASE rd.peek
  <2>1. Taken(n) = sock /\ Done(rd.len - n)
    BY <1>2 DEF Taken, Done
  <2> QED
    BY <1>0, <1>1, <1>2, <2>1
<1>3. CASE ~ rd.peek /\ Tcp /\ sock.off + n < rd.buf.len
  <2> DEFINE t == Taken(n)
  <2>1. t = [sock EXCEPT !.off = sock.off + n, !.consumed = sock.consumed + n]
    BY <1>3 DEF Taken
  <2>2. sock.off + n \in Nat /\ sock.consumed + n \in Nat
    BY <1>0
  <2>3. /\ t \in Socks /\ t.rcv = sock.rcv /\ t.credit = sock.credit /\ t.last = sock.last
        /\ t.off = sock.off + n /\ t.consumed = sock.consumed + n
    BY <1>0, <2>1, <2>2 DEF Socks
  <2>4. rd.len - n = 0
    BY <1>0, <1>3
  <2>5. Done(rd.len - n)
    BY <2>4 DEF Done
  <2> HIDE DEF t
  <2>6. t.off < t.last.len /\ t.last.at + t.off = t.consumed
    BY <1>0, <1>1, <1>3, <2>3
  <2> QED
    BY <1>0, <1>1, <2>3, <2>5, <2>6 DEF t
<1>4. CASE ~ rd.peek /\ ~(Tcp /\ sock.off + n < rd.buf.len)
  <2> DEFINE t == Taken(n)
  <2>1. t = [sock EXCEPT !.last = None, !.off = 0, !.consumed = sock.last.at + sock.last.len]
    BY <1>0, <1>4 DEF Taken
  <2>2. None \in Buffers /\ None.len = 0 /\ sock.last.at + sock.last.len \in Nat
    BY <1>0 DEF None, Buffers
  <2>3. /\ t \in Socks /\ t.rcv = sock.rcv /\ t.credit = sock.credit /\ t.last = None
        /\ t.off = 0 /\ t.consumed = sock.last.at + sock.last.len
    <3> DEFINE x == sock.last.at + sock.last.len
    <3>1. sock \in Socks /\ x \in Nat /\ None \in Buffers
      BY <1>0, <2>2
    <3>2. t = [sock EXCEPT !.last = None, !.off = 0, !.consumed = x]
      BY <2>1
    <3> HIDE DEF t, x
    <3>3. t.rcv = sock.rcv /\ t.credit = sock.credit /\ t.last = None /\ t.off = 0 /\ t.consumed = x
      BY <3>1, <3>2 DEF Socks
    <3>4. t \in Socks
      BY <3>1, <3>2 DEF Socks
    <3> QED
      BY <3>3, <3>4 DEF x
  <2>4. Tcp => t.consumed = sock.consumed + n
    <3>1. Tcp => sock.off + n = sock.last.len
      BY <1>0, <1>1, <1>4
    <3>2. t.consumed = sock.last.at + sock.last.len
      BY <2>3
    <3> HIDE DEF t
    <3> QED
      BY <1>0, <1>1, <3>1, <3>2
  <2>5. ~ Done(rd.len - n) => Tcp
    BY DEF Done
  <2> HIDE DEF t
  <2> QED
    BY <1>1, <1>4, <2>2, <2>3, <2>4, <2>5 DEF t
<1> QED
  BY <1>2, <1>3, <1>4

(* The copy: the octets that come next, and the call returns or goes on. *)
LEMMA CopyStep == ASSUME RecvInv, Copy PROVE RecvInv'
<1> USE DEF RecvInv
<1> DEFINE n == copylen
           mem == rd.mem \o Copied(n)
<1>1. rd.pc = "copy" /\ CopyOf(n) /\ UNCHANGED <<box, net>>
  BY DEF Copy
<1>2. /\ sock \in Socks /\ rd \in Readers /\ rd.buf = sock.last /\ sock.off \in Nat
      /\ sock.last.at \in Nat /\ sock.last.len \in Nat /\ sock.consumed \in Nat /\ rd.len \in Nat
      /\ rd.mem \in Seq(Nat) /\ rd.base \in Nat /\ sock.credit \in Nat /\ sock.rcv \in Int
      /\ Len(rd.mem) \in Nat /\ Len(box) \in Nat
  BY <1>1, BufferFields DEF Typed, Socks, InHand, Readers
<1>3. sock.off < sock.last.len /\ sock.last.at + sock.off = sock.consumed
  BY <1>1 DEF InHand
<1>4. /\ n \in Nat /\ n <= rd.len /\ n <= rd.buf.len - sock.off
      /\ rd.len > n => n = rd.buf.len - sock.off
  BY <1>2, <1>3 DEF copylen
<1> HIDE DEF n
<1>5. rd.base + Len(rd.mem) = sock.consumed /\ InOrder
  BY <1>1 DEF Copying
<1>6. /\ mem \in Seq(Nat) /\ Len(mem) = Len(rd.mem) + n
      /\ \A i \in DOMAIN mem : mem[i] = rd.base + i
  <2>1. \A i \in 1 .. n : rd.buf.at + sock.off + i = rd.base + Len(rd.mem) + i
    BY <1>2, <1>3, <1>5
  <2>2. Copied(n) = More(rd.mem, rd.base, n)
    BY <2>1 DEF Copied, More
  <2>3. Follow(rd.mem, rd.base)
    BY <1>5 DEF InOrder, Follow
  <2>4. mem \in Seq(Nat) /\ Len(mem) = Len(rd.mem) + n /\ Follow(mem, rd.base)
    BY <1>2, <1>4, <2>2, <2>3, CopiedOn
  <2> HIDE DEF mem
  <2> QED
    BY <2>4 DEF Follow
<1> HIDE DEF mem
<1> DEFINE t == Taken(n)
<1>7. /\ t \in Socks /\ t.rcv = sock.rcv /\ t.credit = sock.credit
      /\ t.last.len > 0 => /\ t.off < t.last.len /\ t.last.at + t.off = t.consumed
                           /\ t.last.at + t.last.len = Front
      /\ t.last.len = 0 => t.consumed = Front
      /\ Tcp /\ ~ rd.peek => t.consumed = sock.consumed + n
      /\ ~ Done(rd.len - n) => t.last.len = 0 /\ Tcp /\ ~ rd.peek
  BY <1>1, <1>4, TakenIs
<1> HIDE DEF t
<1>8. Front' = Front
  BY <1>1 DEF Front
<1>9. net.err # "CLSD" /\ rd.res # "eof" /\ EndRoom = 0 /\ Held = Len(rd.mem)
  BY <1>1 DEF Ends, AtEnd, InHand, EndRoom, Held
<1>10. CASE Done(rd.len - n)
  <2>1. /\ sock' = netconn_recved(t, Len(mem))
        /\ rd' = [rd EXCEPT !.pc = "idle", !.mem = mem, !.res = "data"]
    BY <1>1, <1>10 DEF CopyOf, mem, t
  <2>2. /\ rd' \in Readers /\ rd'.pc = "idle" /\ rd'.mem = mem /\ rd'.res = "data"
        /\ rd'.base = rd.base /\ rd'.peek = rd.peek /\ rd'.buf = rd.buf
    BY <1>2, <1>6, <2>1 DEF Readers, Results
  <2>3. /\ sock' \in Socks /\ sock'.last = t.last /\ sock'.off = t.off /\ sock'.rcv = sock.rcv
        /\ sock'.consumed = t.consumed
        /\ Tcp /\ ~ net.rst => sock'.credit = sock.credit + Len(mem)
    <3>1. Len(mem) \in Nat
      BY <1>2, <1>4, <1>6
    <3>2. t \in Socks /\ t.rcv = sock.rcv /\ t.credit = sock.credit
      BY <1>7
    <3> QED
      BY <2>1, <3>1, <3>2, WindowOpened
  <2>4. Typed'
    BY <1>1, <2>2, <2>3 DEF Typed
  <2>5. InHand'
    BY <1>7, <1>8, <2>2, <2>3 DEF InHand, Fetched
  <2>6. Ends'
    BY <1>1, <1>9, <2>2 DEF Ends
  <2>7. Counted'
    BY <1>1, <2>2, <2>3 DEF Counted, NeverWaitsWithData, Taking
  <2>8. InOrder'
    BY <1>6, <2>2 DEF InOrder
  <2>9. ASSUME Tcp, ~ net.rst, TRUE \notin Peeks PROVE sock'.credit + 0 = sock'.consumed
    <3>0. sock.credit + Len(rd.mem) = sock.consumed + 0
      BY <1>9, <2>9 DEF Copying
    <3>1. sock.credit + Len(rd.mem) = sock.consumed
      BY <1>2, <3>0
    <3>2. ~ rd.peek
      BY <2>9, Zenon DEF Typed
    <3>3. sock'.consumed = sock.consumed + n /\ sock'.credit = sock.credit + Len(mem)
      BY <1>7, <2>3, <2>9, <3>2
    <3> QED
      BY <1>2, <1>4, <1>6, <3>1, <3>3
  <2> QED
    <3>0. EndRoom' = 0 /\ Held' = 0 /\ sock'.consumed \in Nat
      BY <1>1, <1>9, <2>2, <2>3 DEF EndRoom, Held, Socks
    <3>2. Tcp /\ ~ net.rst /\ TRUE \notin Peeks => sock'.credit + Held' = sock'.consumed + EndRoom'
      BY <2>9, <3>0
    <3>1. Copying'
      BY <1>1, <2>2, <2>8, <3>2 DEF Copying
    <3> QED
      BY <1>1, <2>4, <2>5, <2>6, <2>7, <3>1, QuietStep
<1>11. CASE ~ Done(rd.len - n)
  <2>1. /\ sock' = t /\ rd' = [rd EXCEPT !.pc = "loop", !.mem = mem, !.len = rd.len - n]
    BY <1>1, <1>11 DEF CopyOf, mem, t
  <2>2. /\ rd' \in Readers /\ rd'.pc = "loop" /\ rd'.mem = mem /\ rd'.res = rd.res
        /\ rd'.base = rd.base /\ rd'.peek = rd.peek /\ rd'.buf = rd.buf
    <3>1. rd.len - n \in Nat
      BY <1>2, <1>4
    <3> QED
      BY <1>2, <1>6, <2>1, <3>1 DEF Readers
  <2>3. Tcp /\ ~ rd.peek /\ t.last.len = 0 /\ sock.rcv > 0
    BY <1>2, <1>7, <1>11 DEF Done
  <2>4. Typed'
    BY <1>1, <1>7, <2>1, <2>2 DEF Typed
  <2>5. InHand'
    BY <1>7, <1>8, <2>1, <2>2, <2>3 DEF InHand, Fetched
  <2>6. Ends'
    BY <1>1, <1>9, <2>2 DEF Ends
  <2>7. net.err = "OK" => box # <<>>
    <3>1. net.err = "OK" => sock.rcv = Len(box) + 0 - (IF net.late THEN 1 ELSE 0)
      BY <1>1 DEF Counted, Taking
    <3>2. net.err = "OK" => Len(box) # 0
      BY <1>2, <2>3, <3>1
    <3> QED
      BY <3>2
  <2>8. Counted'
    BY <1>1, <1>7, <2>1, <2>2, <2>7 DEF Counted, NeverWaitsWithData, Taking
  <2>9. InOrder'
    BY <1>6, <2>2 DEF InOrder
  <2>10. rd'.base + Len(rd'.mem) = sock'.consumed
    BY <1>2, <1>4, <1>5, <1>6, <1>7, <2>1, <2>2, <2>3
  <2>11. ASSUME ~ net.rst, TRUE \notin Peeks PROVE sock'.credit + Len(rd'.mem) = sock'.consumed
    <3>0. sock.credit + Len(rd.mem) = sock.consumed + 0
      BY <1>9, <2>3, <2>11 DEF Copying
    <3>1. sock.credit + Len(rd.mem) = sock.consumed
      BY <1>2, <3>0
    <3>2. t.credit = sock.credit /\ t.consumed = sock.consumed + n
      BY <1>7, <2>3
    <3>3. sock'.credit = sock.credit /\ sock'.consumed = sock.consumed + n
      BY <2>1, <3>2
    <3>4. Len(rd'.mem) = Len(rd.mem) + n
      BY <1>6, <2>2
    <3> QED
      BY <1>2, <1>4, <3>1, <3>3, <3>4
  <2>12. Copying'
    <3>1. EndRoom' = 0 /\ Held' = Len(rd'.mem) /\ sock'.consumed \in Nat
      BY <1>1, <1>7, <1>9, <2>1, <2>2 DEF EndRoom, Held, Socks
    <3>2. ~ net.rst /\ TRUE \notin Peeks => sock'.credit + Held' = sock'.consumed + EndRoom'
      BY <2>11, <3>1
    <3> QED
      BY <1>1, <2>2, <2>3, <2>9, <2>10, <3>2 DEF Copying
  <2> QED
    BY <1>1, <2>4, <2>5, <2>6, <2>8, <2>12, QuietStep
<1> QED
  BY <1>10, <1>11

-----------------------------------------------------------------------------
(* The invariant holds at first ... *)
LEMMA RecvInit == Init => RecvInv
<1> SUFFICES ASSUME Init PROVE RecvInv
  OBVIOUS
<1>1. None \in Buffers /\ None.len = 0 /\ <<>> \in Seq(Nat) /\ <<>> \in Seq(Buffers)
  BY DEF None, Buffers
<1>2. /\ box = <<>> /\ Len(box) = 0 /\ 1 .. Len(box) = {} /\ net \in Nets /\ net.sent = 0 /\ ~ net.late
      /\ net.err = "OK"
  BY DEF Init, Nets
<1>3. sock \in Socks /\ sock.last = None /\ sock.rcv = 0 /\ sock.credit = 0 /\ sock.consumed = 0
  BY <1>1 DEF Init, Socks
<1>4. /\ rd \in Readers /\ rd.pc = "idle" /\ rd.mem = <<>> /\ ~ rd.peek /\ rd.res = "none"
  BY <1>1 DEF Init, Resting, Readers, Results
<1>5. Typed
  BY <1>1, <1>2, <1>3, <1>4 DEF Typed
<1>6. Boxed(box, net.sent) /\ Ended /\ Front = 0
  BY <1>2 DEF Boxed, Ended, Front, Start
<1>7. InHand /\ Ends
  BY <1>1, <1>2, <1>3, <1>4, <1>6 DEF InHand, Fetched, Ends
<1>8. Counted
  BY <1>2, <1>3, <1>4 DEF Counted, NeverWaitsWithData, Taking
<1>9. Copying
  <2>1. Held = 0 /\ EndRoom = 0 /\ DOMAIN rd.mem = {}
    BY <1>2, <1>4 DEF Held, EndRoom
  <2> QED
    BY <1>3, <1>4, <2>1 DEF Copying, InOrder
<1> QED
  BY <1>5, <1>6, <1>7, <1>8, <1>9 DEF RecvInv

(* ... and every step of the tcpip thread and of the reader keeps it. *)
LEMMA RecvStep == RecvInv /\ [Next]_vars => RecvInv'
<1> SUFFICES ASSUME RecvInv, [Next]_vars PROVE RecvInv'
  OBVIOUS
<1>1. CASE UNCHANGED vars
  <2>1. UNCHANGED <<box, net, sock, rd>>
    BY <1>1 DEF vars
  <2>2. Held' = Held /\ EndRoom' = EndRoom /\ Taking' = Taking
    BY <2>1 DEF Held, EndRoom, Taking
  <2>3. Typed' /\ InHand' /\ Ends'
    BY <2>1 DEF RecvInv, Typed, InHand, Fetched, Front, Ends, AtEnd
  <2>4. Counted' /\ Copying'
    BY <2>1, <2>2 DEF RecvInv, Counted, NeverWaitsWithData, Copying, InOrder
  <2> QED
    BY <2>1, <2>3, <2>4, QuietStep
<1>2. CASE \E len \in Lens, push \in BOOLEAN : recv_tcp(len, push)
  BY <1>2, DataStep
<1>3. CASE \E len \in Reads, peek \in Peeks, dont \in Donts : lwip_recvfrom(len, peek, dont)
  BY <1>3, BeginStep
<1>4. CASE Fin \/ event_callback \/ err_tcp
  BY <1>4, FinStep, EventStep, ErrStep
<1>5. CASE Reader
  BY <1>5, LoopStep, CheckStep, FetchStep, RoomStep, EndStep, TakeStep, CopyStep DEF Reader
<1> QED
  BY <1>1, <1>2, <1>3, <1>4, <1>5 DEF Next

(* Every read of a socket is exact (lwip_recvfrom): the octets are the next   *)
(* ones of the stream, none skipped and none twice; a call that has data does *)
(* not wait for more; the end comes behind the last octet; and without peeks  *)
(* the receive window of a connection is opened by exactly what was taken,    *)
(* and by the one octet that netconn_recv_data asks for at the end.           *)
THEOREM ReadsRight == Spec => []ReadsExact
<1>1. RecvInv => ReadsExact
  <2> SUFFICES ASSUME RecvInv PROVE ReadsExact
    OBVIOUS
  <2>1. InOrder /\ NeverWaitsWithData
    BY DEF RecvInv, Copying, Counted
  <2>2. EndLast
    BY DEF RecvInv, Ends, AtEnd, EndLast
  <2>3. TRUE \notin Peeks => WindowAccurate
    <3>1. sock.credit \in Nat
      BY DEF RecvInv, Typed, Socks
    <3>2. ASSUME rd.pc = "idle" PROVE Held = 0 /\ EndRoom = (IF net.err = "CLSD" THEN 1 ELSE 0)
      BY <3>2 DEF Held, EndRoom
    <3>3. ASSUME rd.pc = "idle", Tcp, ~ net.rst, TRUE \notin Peeks PROVE sock.credit = sock.consumed + EndRoom
      <4>1. sock.credit + 0 = sock.consumed + EndRoom
        BY <3>2, <3>3 DEF RecvInv, Copying
      <4> QED
        BY <3>1, <4>1
    <3> QED
      BY <3>2, <3>3 DEF WindowAccurate
  <2> QED
    BY <2>1, <2>2, <2>3 DEF ReadsExact
<1> QED
  BY RecvInit, RecvStep, <1>1, PTL DEF Spec
=============================================================================
