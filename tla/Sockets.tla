------------------------------ MODULE Sockets ------------------------------
(***************************************************************************)
(* The socket layer (lwip/api/sockets.c): the table of sockets, the events *)
(* netconns report for them, select, accept and close.  Threads of the     *)
(* application and the tcpip thread run concurrently; a step is what the   *)
(* code does between SYS_ARCH_PROTECT and SYS_ARCH_UNPROTECT.              *)
(*                                                                         *)
(* sk[s] is a socket, cn[k] a netconn as far as this layer sees it         *)
(* (external), sel[t] what thread t is doing, with its entry of the list   *)
(* of selecting threads, ev[a] the event_callback an actor is in, list the *)
(* select_cb_list and ctr the select_cb_ctr.                               *)
(***************************************************************************)
EXTENDS Integers, Sequences, FiniteSets, FiniteSetsExt, SequencesExt

CONSTANTS Socks,     \* 0 .. NUM_SOCKETS - 1
          Conns,     \* the pool of netconns
          Threads, Tcpip, NULL,
          Types,     \* "TCP", "UDP"
          Kinds,     \* what select asks for: "r", "w", "x"
          Timeouts,  \* of select: "zero", "some", "none"
          BoxSize,   \* of a mailbox
          MaxCall, MaxSelect, MaxEvent, MaxFail \* bounds

VARIABLES sk, cn, sel, ev, list, ctr, spent
vars == <<sk, cn, sel, ev, list, ctr, spent>>
Actors == Threads \cup {Tcpip}

NoSock == [conn |-> 0, last |-> FALSE, rcv |-> 0, send |-> FALSE, err |-> FALSE, waiting |-> 0]
NoConn == [st |-> "free", type |-> "TCP", socket |-> -1, box |-> <<>>]
Idle == [pc |-> "idle", want |-> {}, todo |-> {}, found |-> {}, tmo |-> "none", sig |-> FALSE, sem |-> 0, s |-> 0, got |-> 0]
Quiet == [pc |-> "none", s |-> 0, conn |-> 0, todo |-> <<>>, cur |-> NULL, last |-> 0]

Spend(what, bound) == spent[what] < bound /\ spent' = [spent EXCEPT ![what] = @ + 1]
Failing(ok) == (ok \/ spent.fail < MaxFail) /\ spent' = [spent EXCEPT !.fail = IF ok THEN @ ELSE @ + 1]

-----------------------------------------------------------------------------
(* The table. *)

get_socket(s) == sk[s].conn # 0
FreeSocks == {s \in Socks : sk[s].conn = 0}
alloc_socket(s, k, accepted) ==
  sk' = [sk EXCEPT ![s] = [NoSock EXCEPT !.conn = k, !.send = cn[k].type # "TCP" \/ accepted]]
free_socket(s) == sk' = [sk EXCEPT ![s] = [@ EXCEPT !.last = FALSE, !.conn = 0]]

-----------------------------------------------------------------------------
(* event_callback: actor a reports the events ev[a].todo of a netconn. *)

Begin(a, k, events) == ev' = [ev EXCEPT ![a] = [Quiet EXCEPT !.conn = k, !.todo = events]]
Ended(a) == [ev[a] EXCEPT !.pc = "none", !.todo = Tail(@), !.cur = NULL, !.last = 0, !.s = 0]
Silent(a) == ev[a].todo = <<>>
(* The socket number is read without protection first. *)
ReadSocket(a) ==
  /\ ~ Silent(a) /\ ev[a].pc = "none"
  /\ ev' = [ev EXCEPT ![a] = IF cn[ev[a].conn].socket < 0 THEN [@ EXCEPT !.pc = "recheck"]
                             ELSE [@ EXCEPT !.pc = "apply", !.s = cn[ev[a].conn].socket]]
  /\ UNCHANGED <<sk, cn, sel, list, ctr, spent>>
(* No socket yet: what was received is counted in the socket number. *)
Recheck(a) ==
  /\ ev[a].pc = "recheck"
  /\ LET k == ev[a].conn
     IN IF cn[k].socket < 0
        THEN /\ cn' = [cn EXCEPT ![k].socket = IF Head(ev[a].todo) = "RCVPLUS" THEN @ - 1 ELSE @]
             /\ ev' = [ev EXCEPT ![a] = Ended(a)]
        ELSE /\ ev' = [ev EXCEPT ![a] = [@ EXCEPT !.pc = "apply", !.s = cn[k].socket]]
             /\ UNCHANGED cn
  /\ UNCHANGED <<sk, sel, list, ctr, spent>>
Noted(rec, e) ==
  CASE e = "RCVPLUS" -> [rec EXCEPT !.rcv = @ + 1] [] e = "RCVMINUS" -> [rec EXCEPT !.rcv = @ - 1]
    [] e = "SENDPLUS" -> [rec EXCEPT !.send = TRUE] [] e = "SENDMINUS" -> [rec EXCEPT !.send = FALSE]
    [] e = "ERROR" -> [rec EXCEPT !.err = TRUE]
Hit(rec, s, want) ==
  (rec.rcv > 0 /\ <<"r", s>> \in want) \/ (rec.send /\ <<"w", s>> \in want) \/ (rec.err /\ <<"x", s>> \in want)
Woken(rec, s, scb) == ~ sel[scb].sig /\ Hit(rec, s, sel[scb].want)
(* One entry of the list: its semaphore is signalled once. *)
Visit(a, rec, s, scb) ==
  /\ sel' = IF Woken(rec, s, scb) THEN [sel EXCEPT ![scb].sig = TRUE, ![scb].sem = @ + 1] ELSE sel
  /\ ev' = [ev EXCEPT ![a] = [@ EXCEPT !.pc = "walk", !.cur = scb, !.last = ctr]]
Leave(a) == ev' = [ev EXCEPT ![a] = Ended(a)] /\ UNCHANGED sel
ApplyTo_Old(a, s, rec) ==
  /\ sk' = [sk EXCEPT ![s] = rec]
  /\ IF rec.waiting = 0 \/ list = <<>> THEN Leave(a) ELSE Visit(a, sk[s], s, Head(list))
ApplyTo(a, s, rec) ==
  /\ sk' = [sk EXCEPT ![s] = rec]
  /\ IF rec.waiting = 0 \/ list = <<>> THEN Leave(a) ELSE Visit(a, rec, s, Head(list))
event_callback(a) ==
  /\ ev[a].pc = "apply"
  /\ IF get_socket(ev[a].s) THEN ApplyTo(a, ev[a].s, Noted(sk[ev[a].s], Head(ev[a].todo)))
     ELSE Leave(a) /\ UNCHANGED sk
  /\ UNCHANGED <<cn, list, ctr, spent>>
Position(scb) == CHOOSE i \in DOMAIN list : list[i] = scb
After(scb) == IF scb \in ToSet(list) /\ Position(scb) < Len(list) THEN list[Position(scb) + 1] ELSE NULL
(* The list may have changed while it was not protected: then from its head. *)
WalkOn(a) == IF ev[a].last = ctr THEN After(ev[a].cur) ELSE IF list = <<>> THEN NULL ELSE Head(list)
Walk(a) ==
  /\ ev[a].pc = "walk"
  /\ IF WalkOn(a) = NULL THEN Leave(a) ELSE Visit(a, sk[ev[a].s], ev[a].s, WalkOn(a))
  /\ UNCHANGED <<sk, cn, list, ctr, spent>>

-----------------------------------------------------------------------------
(* select. *)

At(t, pc) == sel[t].pc = pc /\ Silent(t)
Wanted(t) == {w[2] : w \in sel[t].want}
Go(t, pc) == sel' = [sel EXCEPT ![t] = [@ EXCEPT !.pc = pc, !.todo = Wanted(t), !.found = {}]]
Return(t) == sel' = [sel EXCEPT ![t] = Idle]
ReadyFor(kind, rec) ==
  rec.conn # 0 /\ CASE kind = "r" -> rec.last \/ rec.rcv > 0 [] kind = "w" -> rec.send [] kind = "x" -> rec.err
Scans == {"scan1", "scan2", "scan3"}
(* lwip_selscan reads the sockets one after the other. *)
lwip_selscan(t) ==
  /\ sel[t].pc \in Scans /\ Silent(t) /\ sel[t].todo # {}
  /\ LET s == Min(sel[t].todo)
     IN sel' = [sel EXCEPT ![t].todo = @ \ {s}, ![t].found = @ \cup {w \in sel[t].want : w[2] = s /\ ReadyFor(w[1], sk[s])}]
  /\ UNCHANGED <<sk, cn, ev, list, ctr, spent>>
Scanned(t, pc) == At(t, pc) /\ sel[t].todo = {} /\ UNCHANGED <<sk, cn, ev>>
(* The application does not close a socket that a thread still uses. *)
Closing(s) == \E u \in Threads : sel[u].pc \in {"deleted", "free"} /\ sel[u].s = s
ReadingTcp(s) == \E u \in Threads : sel[u].pc = "recv" /\ sel[u].s = s /\ cn[sk[s].conn].type = "TCP"
lwip_select(t, want, tmo) ==
  /\ At(t, "idle") /\ \A w \in want : get_socket(w[2]) /\ ~ Closing(w[2]) /\ ~ ReadingTcp(w[2])
  /\ Spend("select", MaxSelect)
  /\ sel' = [sel EXCEPT ![t] = [Idle EXCEPT !.pc = "scan1", !.want = want, !.tmo = tmo, !.todo = {w[2] : w \in want}]]
  /\ UNCHANGED <<sk, cn, ev, list, ctr>>
(* Something is ready, or nothing and the call may not wait, or there is no semaphore. *)
SelectAtOnce(t) ==
  /\ Scanned(t, "scan1") /\ Failing(sel[t].found # {} \/ sel[t].tmo = "zero") /\ Return(t) /\ UNCHANGED <<list, ctr>>
Enlist(t) ==
  /\ Scanned(t, "scan1") /\ sel[t].found = {} /\ sel[t].tmo # "zero"
  /\ list' = <<t>> \o list /\ ctr' = ctr + 1 /\ Go(t, "inc") /\ UNCHANGED spent
(* select_waiting is changed for each socket of the call. *)
Count(t, pc, step) ==
  /\ At(t, pc) /\ sel[t].todo # {}
  /\ LET s == Min(sel[t].todo)
     IN sk' = [sk EXCEPT ![s].waiting = @ + step] /\ sel' = [sel EXCEPT ![t].todo = @ \ {s}]
  /\ UNCHANGED <<cn, ev, list, ctr, spent>>
Counted(t) == At(t, "inc") /\ sel[t].todo = {} /\ Go(t, "scan2") /\ UNCHANGED <<sk, cn, ev, list, ctr, spent>>
Scan2Done(t) ==
  Scanned(t, "scan2") /\ Go(t, IF sel[t].found = {} THEN "wait" ELSE "dec") /\ UNCHANGED <<list, ctr, spent>>
SelectWoken(t) ==
  /\ At(t, "wait") /\ sel[t].sem > 0
  /\ sel' = [sel EXCEPT ![t] = [@ EXCEPT !.pc = "dec", !.sem = @ - 1, !.todo = Wanted(t)]]
  /\ UNCHANGED <<sk, cn, ev, list, ctr, spent>>
SelectTimeout(t) ==
  /\ At(t, "wait") /\ sel[t].tmo = "some"
  /\ sel' = [sel EXCEPT ![t] = [@ EXCEPT !.pc = "dec", !.tmo = "over", !.todo = Wanted(t)]]
  /\ UNCHANGED <<sk, cn, ev, list, ctr, spent>>
Delist(t) ==
  /\ At(t, "dec") /\ sel[t].todo = {} /\ list' = SelectSeq(list, LAMBDA u : u # t) /\ ctr' = ctr + 1
  /\ IF sel[t].tmo = "over" THEN Return(t) ELSE Go(t, "scan3")
  /\ UNCHANGED <<sk, cn, ev, spent>>
SelectReturn(t) == Scanned(t, "scan3") /\ Return(t) /\ UNCHANGED <<list, ctr, spent>>

-----------------------------------------------------------------------------
(* Sockets come and go.  A call that fails changes none of this state. *)

Calm(t) == At(t, "idle") /\ UNCHANGED <<list, ctr>>
InUse(s) == \E t \in Threads : sel[t].pc # "idle" /\ (s \in Wanted(t) \/ sel[t].s = s)
FreeConns == {k \in Conns : cn[k].st = "free"}
lwip_socket(t, type) ==
  /\ Calm(t) /\ FreeConns # {} /\ FreeSocks # {} /\ Spend("call", MaxCall) /\ UNCHANGED <<sel, ev>>
  /\ LET k == Min(FreeConns)  s == Min(FreeSocks)
     IN /\ cn' = [cn EXCEPT ![k] = [NoConn EXCEPT !.st = "new", !.type = type, !.socket = s]]
        /\ sk' = [sk EXCEPT ![s] = [NoSock EXCEPT !.conn = k, !.send = type # "TCP"]]
Owned(s, st, type) == get_socket(s) /\ cn[sk[s].conn].st = st /\ cn[sk[s].conn].type = type
lwip_listen(t, s) ==
  /\ Calm(t) /\ Owned(s, "new", "TCP") /\ Spend("call", MaxCall)
  /\ cn' = [cn EXCEPT ![sk[s].conn].st = "listen"] /\ UNCHANGED <<sk, sel, ev>>
(* The connection is there: the tcpip thread reports it before the call returns. *)
lwip_connect(t, s) ==
  /\ Calm(t) /\ Owned(s, "new", "TCP") /\ Silent(Tcpip) /\ Spend("call", MaxCall)
  /\ cn' = [cn EXCEPT ![sk[s].conn].st = "up"] /\ Begin(Tcpip, sk[s].conn, <<"SENDPLUS">>) /\ UNCHANGED <<sk, sel>>
(* accept: a connection from the mailbox, its peer, a socket, what arrived before. *)
lwip_accept(t, s) ==
  /\ Calm(t) /\ Owned(s, "listen", "TCP") /\ ~ InUse(s) /\ cn[sk[s].conn].box # <<>> /\ Spend("call", MaxCall)
  /\ sel' = [sel EXCEPT ![t] = [@ EXCEPT !.pc = "peer", !.s = s, !.got = Head(cn[sk[s].conn].box)]]
  /\ cn' = [cn EXCEPT ![sk[s].conn].box = Tail(@)] /\ Begin(t, sk[s].conn, <<"RCVMINUS">>) /\ UNCHANGED sk
netconn_delete(k) == Silent(Tcpip) /\ cn' = [cn EXCEPT ![k] = NoConn]
AcceptPeer(t) ==
  /\ At(t, "peer") /\ Silent(Tcpip)
  /\ IF cn[sel[t].got].st = "up" THEN sel' = [sel EXCEPT ![t].pc = "alloc"] /\ UNCHANGED cn
     ELSE netconn_delete(sel[t].got) /\ Return(t)
  /\ UNCHANGED <<sk, ev, list, ctr, spent>>
AcceptAlloc(t) ==
  /\ At(t, "alloc")
  /\ IF FreeSocks = {} THEN netconn_delete(sel[t].got) /\ Return(t) /\ UNCHANGED sk
     ELSE alloc_socket(Min(FreeSocks), sel[t].got, TRUE) /\ sel' = [sel EXCEPT ![t].pc = "assign", ![t].s = Min(FreeSocks)] /\ UNCHANGED cn
  /\ UNCHANGED <<ev, list, ctr, spent>>
AcceptAssign(t) ==
  /\ At(t, "assign")
  /\ sk' = [sk EXCEPT ![sel[t].s].rcv = @ - 1 - cn[sel[t].got].socket]
  /\ cn' = [cn EXCEPT ![sel[t].got].socket = sel[t].s]
  /\ Return(t) /\ UNCHANGED <<ev, list, ctr, spent>>
(* The part of lwip_recvfrom that takes a buffer; part of it may be left   *)
(* for the next call.  Only a UDP socket is read while another thread uses *)
(* it: what is left of a TCP buffer wakes no select.                       *)
Readable(s) == get_socket(s) /\ cn[sk[s].conn].st \in {"up", "new"} /\ cn[sk[s].conn].box # <<>> /\ ~ sk[s].last
lwip_recvfrom(t, s) ==
  /\ Calm(t) /\ Readable(s) /\ ~ Closing(s) /\ (InUse(s) => cn[sk[s].conn].type = "UDP") /\ Spend("call", MaxCall)
  /\ cn' = [cn EXCEPT ![sk[s].conn].box = Tail(@)]
  /\ sel' = [sel EXCEPT ![t] = [@ EXCEPT !.pc = "recv", !.s = s]] /\ Begin(t, sk[s].conn, <<"RCVMINUS">>) /\ UNCHANGED sk
RecvDone(t, left) ==
  /\ At(t, "recv") /\ (left => cn[sk[sel[t].s].conn].type = "TCP")
  /\ sk' = [sk EXCEPT ![sel[t].s].last = left] /\ Return(t) /\ UNCHANGED <<cn, ev, list, ctr, spent>>
RecvRest(t, s) ==
  /\ Calm(t) /\ get_socket(s) /\ sk[s].last /\ ~ InUse(s) /\ Spend("call", MaxCall)
  /\ sk' = [sk EXCEPT ![s].last = FALSE] /\ UNCHANGED <<cn, sel, ev>>
(* close: the netconn reports its end, is freed, then the socket. *)
lwip_close(t, s) ==
  /\ Calm(t) /\ get_socket(s) /\ ~ InUse(s) /\ ~ Closing(s) /\ Silent(Tcpip) /\ Spend("call", MaxCall)
  /\ cn' = [k \in Conns |-> IF k = sk[s].conn THEN [cn[k] EXCEPT !.st = "closing", !.box = <<>>]
                            ELSE IF cn[sk[s].conn].st = "listen" /\ k \in ToSet(cn[sk[s].conn].box) THEN NoConn ELSE cn[k]]
  /\ Begin(Tcpip, sk[s].conn, (IF cn[sk[s].conn].type = "TCP" /\ cn[sk[s].conn].st # "failed" THEN <<"ERROR">> ELSE <<>>)
                              \o <<"RCVPLUS", "SENDPLUS">>)
  /\ sel' = [sel EXCEPT ![t] = [@ EXCEPT !.pc = "deleted", !.s = s]] /\ UNCHANGED sk
CloseDeleted(t) ==
  /\ At(t, "deleted") /\ netconn_delete(sk[sel[t].s].conn) /\ sel' = [sel EXCEPT ![t].pc = "free"]
  /\ UNCHANGED <<sk, ev, list, ctr, spent>>
CloseFree(t) == At(t, "free") /\ free_socket(sel[t].s) /\ Return(t) /\ UNCHANGED <<cn, ev, list, ctr, spent>>

-----------------------------------------------------------------------------
(* The tcpip thread: what happens to the netconns (external). *)

Happens == Silent(Tcpip) /\ Spend("event", MaxEvent) /\ UNCHANGED <<sk, sel, list, ctr>>
Fits(k) == Len(cn[k].box) < BoxSize
DataIn(k) ==
  /\ Happens /\ (cn[k].st = "up" \/ (cn[k].st = "new" /\ cn[k].type = "UDP")) /\ Fits(k)
  /\ cn' = [cn EXCEPT ![k].box = Append(@, 0)] /\ Begin(Tcpip, k, <<"RCVPLUS">>)
Space(k, e) == Happens /\ cn[k].st = "up" /\ cn[k].socket >= 0 /\ Begin(Tcpip, k, <<e>>) /\ UNCHANGED cn
Fail(k) ==
  /\ Happens /\ cn[k].st = "up" /\ cn' = [cn EXCEPT ![k].st = "failed"] /\ Begin(Tcpip, k, <<"ERROR", "RCVPLUS", "SENDPLUS">>)
Incoming(l) ==
  /\ Happens /\ cn[l].st = "listen" /\ FreeConns # {} /\ Fits(l)
  /\ LET k == Min(FreeConns)
     IN cn' = [cn EXCEPT ![k] = [NoConn EXCEPT !.st = "up"], ![l].box = Append(@, k)]
  /\ Begin(Tcpip, l, <<"RCVPLUS">>)

Init ==
  /\ sk = [s \in Socks |-> NoSock] /\ cn = [k \in Conns |-> NoConn] /\ list = <<>> /\ ctr = 0
  /\ sel = [t \in Threads |-> Idle] /\ ev = [a \in Actors |-> Quiet]
  /\ spent = [w \in {"call", "select", "event", "fail"} |-> 0]
Wants == {want \in SUBSET (Kinds \X Socks) : want # {}}
Select(t) ==
  \/ \E want \in Wants, tmo \in Timeouts : lwip_select(t, want, tmo)
  \/ lwip_selscan(t) \/ SelectAtOnce(t) \/ Enlist(t) \/ Count(t, "inc", 1) \/ Counted(t) \/ Scan2Done(t)
  \/ SelectWoken(t) \/ SelectTimeout(t) \/ Count(t, "dec", -1) \/ Delist(t) \/ SelectReturn(t)
Use(t) ==
  \/ \E type \in Types : lwip_socket(t, type)
  \/ \E s \in Socks : lwip_listen(t, s) \/ lwip_connect(t, s) \/ lwip_accept(t, s) \/ lwip_recvfrom(t, s) \/ RecvRest(t, s) \/ lwip_close(t, s)
  \/ \E left \in BOOLEAN : RecvDone(t, left)
  \/ AcceptPeer(t) \/ AcceptAlloc(t) \/ AcceptAssign(t) \/ CloseDeleted(t) \/ CloseFree(t)
Callback(a) == ReadSocket(a) \/ Recheck(a) \/ event_callback(a) \/ Walk(a)
Happening(k) == DataIn(k) \/ Space(k, "SENDMINUS") \/ Space(k, "SENDPLUS") \/ Fail(k) \/ Incoming(k)
Next ==
  \/ \E t \in Threads : Select(t) \/ Use(t)
  \/ \E a \in Actors : Callback(a)
  \/ \E k \in Conns : Happening(k)
Spec == Init /\ [][Next]_vars

-----------------------------------------------------------------------------
(* Properties. *)

(* Types: select_waiting counts at most the threads, mailboxes keep to their *)
(* size, and no thread is twice in select_cb_list.                          *)
TypeOK ==
  /\ \A s \in Socks : sk[s].conn \in Conns \cup {0} /\ sk[s].waiting \in 0 .. Cardinality(Threads)
  /\ \A k \in Conns : Len(cn[k].box) <= BoxSize /\ cn[k].socket < Cardinality(Socks)
  /\ IsInjective(list) /\ ToSet(list) \subseteq Threads

(* event_callback never looks at the entry of a select that has returned:  *)
(* the entry is a local variable of lwip_select.                           *)
EntryAlive == \A a \in Actors : ev[a].pc = "walk" /\ ev[a].last = ctr => ev[a].cur \in ToSet(list)

OnItsWay(t, s) == \E a \in Actors :
  ev[a].pc = "walk" /\ ev[a].s = s /\ (ev[a].last # ctr \/ (ev[a].cur \in ToSet(list) /\ Position(ev[a].cur) < Position(t)))
(* No wake-up is lost: a select that waits has been signalled, or nothing  *)
(* it asks for is ready, or a callback for that socket is still on its way *)
(* to its entry.                                                           *)
NoLostWakeup == \A t \in Threads : sel[t].pc = "wait" /\ ~ sel[t].sig =>
  \A w \in sel[t].want : ReadyFor(w[1], sk[w[2]]) => OnItsWay(t, w[2])

(* A socket counts the selects that wait for it, never below zero (an      *)
(* assertion of the code), so that events look at the list when they must. *)
WaitingCounts == \A s \in Socks : sk[s].waiting =
  Cardinality({t \in Threads : s \in Wanted(t) /\ (CASE sel[t].pc = "inc" -> s \notin sel[t].todo
                                                     [] sel[t].pc \in {"scan2", "wait"} -> TRUE
                                                     [] sel[t].pc = "dec" -> s \in sel[t].todo
                                                     [] OTHER -> FALSE)})

Pending(k, e) == Cardinality({a \in Actors : ev[a].conn = k /\ ~ Silent(a) /\ ev[a].pc # "walk" /\ Head(ev[a].todo) = e})
CountedFor(k) == IF cn[k].socket < 0 THEN -1 - cn[k].socket ELSE sk[cn[k].socket].rcv
(* What a socket counts as received is what is in the mailbox of its       *)
(* netconn, also when it arrived before accept had a socket for it: a      *)
(* select that says readable is right, and nothing received is missed.     *)
ReceivedCounted == \A k \in Conns : cn[k].st \in {"new", "listen", "up"} =>
  CountedFor(k) + Pending(k, "RCVPLUS") = Len(cn[k].box) + Pending(k, "RCVMINUS")

(* A netconn and its socket point to each other. *)
Paired == \A k \in Conns : cn[k].socket >= 0 => sk[cn[k].socket].conn = k

(* An error of a connection reaches its socket, so that a select for       *)
(* exceptions sees it.                                                     *)
(* Not what the code does: README.md, "Known disagreements". *)
ErrorSeen == \A k \in Conns : cn[k].st = "failed" /\ cn[k].socket >= 0 /\ Silent(Tcpip) => sk[cn[k].socket].err

(* A select sleeps although something it asks for is ready. *)
Oversleeps(t) == sel[t].pc = "wait" /\ \E w \in sel[t].want : ReadyFor(w[1], sk[w[2]])
=============================================================================
