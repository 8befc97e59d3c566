------------------------------ MODULE SnmpAgent -----------------------------
(***************************************************************************)
(* The SNMP agent (lwip/core/snmp/msg_in.c, msg_out.c): requests with a    *)
(* list of variables are checked, resolved one variable at a time and      *)
(* answered.  An object of a private MIB may live outside the agent        *)
(* ("external"): then the request waits in its slot for an event between   *)
(* each question and its answer, other requests are served meanwhile, and  *)
(* the object may come and go.                                             *)
(*                                                                         *)
(* The names of objects are numbers, in the order of the tree; the tree    *)
(* and the encoding are modules of their own.  g is the state of the       *)
(* agent:                                                                  *)
(*   slot   msg_input_list;  vb, va  free elements of the pools            *)
(*   MEMP_SNMP_VARBIND and MEMP_SNMP_VALUE;  there  the objects that can   *)
(*   be found now;  last  the response that was sent last;  stats          *)
(* A variable binding is [name, id, val, good]: its name (0 once it was    *)
(* moved away), whether it holds memory for a name and for a value, and    *)
(* whether the value of a set request is acceptable.                       *)
(***************************************************************************)
EXTENDS Integers, Sequences, FiniteSets, FiniteSetsExt, SequencesExt

CONSTANTS Slots,                      \* 0 .. SNMP_CONCURRENT_REQUESTS - 1
          Objects, External, Writable, Unreadable, Empty, \* the objects and their kinds; Empty: no bytes of value
          Hot,                        \* objects that may come and go
          Requests,                   \* requests a manager may send: [rt, vbs]
          NumVarbinds, NumValues,     \* MEMP_NUM_SNMP_VARBIND, MEMP_NUM_SNMP_VALUE
          TrapDsts,                   \* SNMP_TRAP_DESTINATIONS
          Buffers,                    \* outcomes of pbuf_alloc for a response: "ok", "small" (only an empty one), "none"
          MaxReq, MaxBad, MaxHot      \* bounds: requests, messages that are rejected, comings and goings

VARIABLES g, dst, spent
vars == <<g, dst, spent>>

Ext == {"EXT_GET_OBJDEF", "EXT_GET_VALUE", "EXT_SET_TEST", "EXT_GET_OBJDEF_S", "EXT_SET_VALUE"}
Counters == {"inpkts", "inbadversions", "inbadcommunitynames", "inasnparseerrs", "ingetresponses", "intraps", "inerrors",
             "outpkts", "outgetresponses", "outtraps", "inaccepted"}
NoResponse == [rt |-> "", status |-> "", eidx |-> 0, req |-> <<>>, sum |-> <<>>, enc |-> <<>>, did |-> {}]
EmptySlot == [state |-> "EMPTY", rt |-> "", req |-> <<>>, invb |-> <<>>, outvb |-> <<>>, idx |-> 0, ptr |-> 0,
              obj |-> 0, status |-> "noError", eidx |-> 0, did |-> {}]

Inc(s, what) == [s EXCEPT !.stats[what] = @ + 1]
Names(vbs) == [i \in DOMAIN vbs |-> vbs[i].name]
SetState(s, r, st) == [s EXCEPT !.slot[r].state = st]

-----------------------------------------------------------------------------
(* Variable bindings and their memory. *)

Cells(vb) == (IF vb.id THEN 1 ELSE 0) + (IF vb.val THEN 1 ELSE 0)
snmp_varbind_free(s, vb) == [s EXCEPT !.vb = @ + 1, !.va = @ + Cells(vb)]
snmp_varbind_list_free(s, vbs) == FoldLeft(LAMBDA t, vb : snmp_varbind_free(t, vb), s, vbs)

CanAlloc(s, cells) == s.vb > 0 /\ s.va >= cells
snmp_varbind_alloc(s, vb) == [s EXCEPT !.vb = @ - 1, !.va = @ - Cells(vb)]
snmp_varbind_tail_add(list, vb) == Append(list, vb)

-----------------------------------------------------------------------------
(* Responses and traps. *)

(* The lengths are summed over the bindings of the response; a tooBig response is encoded without any. *)
snmp_send_response(s, r, buf) ==
  LET m == s.slot[r]
      status == IF buf = "ok" THEN m.status ELSE "tooBig"
      sum == IF buf = "ok" THEN Names(m.outvb) ELSE <<>>
      enc == IF status = "tooBig" THEN <<>> ELSE Names(m.outvb)
  IN IF buf = "none" THEN s
     ELSE Inc(Inc([s EXCEPT !.last = [rt |-> m.rt, status |-> status, eidx |-> IF buf = "ok" THEN m.eidx ELSE 0,
                                      req |-> Names(m.req), sum |-> sum, enc |-> enc, did |-> m.did]],
                  "outgetresponses"), "outpkts")

snmp_error_response(s, r, error, buf) ==
  LET m == s.slot[r]
      t == [snmp_varbind_list_free(s, m.outvb) EXCEPT
              !.slot[r] = [m EXCEPT !.outvb = m.invb, !.invb = <<>>, !.status = error, !.eidx = 1 + m.idx]]
  IN [snmp_varbind_list_free(snmp_send_response(t, r, buf), m.invb) EXCEPT !.slot[r] = EmptySlot]

snmp_ok_response(s, r, buf) ==
  LET m == s.slot[r]
  IN [snmp_varbind_list_free(snmp_varbind_list_free(snmp_send_response(s, r, buf), m.invb), m.outvb) EXCEPT !.slot[r] = EmptySlot]

(* One trap to each destination that is enabled and has an address, until memory runs out. *)
snmp_send_trap(s, buf) == LET n == IF buf = "ok" THEN Cardinality({d \in TrapDsts : dst[d].enable /\ dst[d].ip}) ELSE 0
                          IN [s EXCEPT !.stats["outtraps"] = @ + n, !.stats["outpkts"] = @ + n]
snmp_authfail_trap(s, enabled, buf) == IF enabled THEN snmp_send_trap(s, buf) ELSE s

-----------------------------------------------------------------------------
(* GET.  Next variable: the first, or the one after the current one. *)

Advance(m) == [m EXCEPT !.ptr = IF m.idx = 0 THEN 1 ELSE @ + 1]
Current(s, r) == s.slot[r].invb[s.slot[r].ptr]
Ask(s, r, st, o) == [s EXCEPT !.slot[r].state = st, !.slot[r].obj = o]

(* The name moves from the request to the response; without memory for the value it moves back. *)
MoveName(s, r, o, buf) ==
  LET m == s.slot[r]
      vb == [name |-> m.invb[m.ptr].name, id |-> TRUE, val |-> o \notin Empty, good |-> TRUE]
      cells == IF o \in Empty THEN 0 ELSE 1
  IN IF ~ CanAlloc(s, cells) THEN snmp_error_response(s, r, "tooBig", buf)
     ELSE [s EXCEPT !.vb = @ - 1, !.va = @ - cells,
                    !.slot[r] = [m EXCEPT !.invb[m.ptr].name = 0, !.invb[m.ptr].id = FALSE, !.state = "SEARCH_OBJ",
                                          !.outvb = snmp_varbind_tail_add(@, vb), !.idx = @ + 1]]

GetObjDefAnswer(s, r, buf) ==
  IF s.slot[r].obj \in s.there \ Unreadable THEN SetState(s, r, "EXT_GET_VALUE")
  ELSE snmp_error_response(s, r, "noSuchName", buf)
GetValueAnswer(s, r, buf) == MoveName(s, r, s.slot[r].obj, buf)

RECURSIVE GetSearch(_, _, _)
GetSearch(s, r, buf) ==
  LET t == [s EXCEPT !.slot[r] = Advance(@)]  o == Current(t, r).name
  IN CASE s.slot[r].state # "SEARCH_OBJ" -> s
       [] s.slot[r].state = "SEARCH_OBJ" /\ s.slot[r].idx = Len(s.slot[r].invb) -> snmp_ok_response(s, r, buf)
       [] OTHER -> IF o \notin s.there THEN snmp_error_response(t, r, "noSuchName", buf)
                   ELSE IF o \in External THEN Ask(t, r, "EXT_GET_OBJDEF", o)
                   ELSE IF o \in Unreadable THEN snmp_error_response(t, r, "noSuchName", buf)
                   ELSE GetSearch(MoveName(t, r, o, buf), r, buf)

snmp_msg_get_event(s, r, buf) ==
  GetSearch(CASE s.slot[r].state = "EXT_GET_OBJDEF" -> GetObjDefAnswer(s, r, buf)
              [] s.slot[r].state = "EXT_GET_VALUE" -> GetValueAnswer(s, r, buf)
              [] OTHER -> s, r, buf)

-----------------------------------------------------------------------------
(* GETNEXT: the binding of the response has the name of the next object. *)

AddNext(s, r, o, buf) ==
  LET vb == [name |-> o, id |-> TRUE, val |-> o \notin Empty, good |-> TRUE]
  IN IF ~ CanAlloc(s, Cells(vb)) THEN snmp_error_response(s, r, "tooBig", buf)
     ELSE [snmp_varbind_alloc(s, vb) EXCEPT !.slot[r].outvb = snmp_varbind_tail_add(@, vb), !.slot[r].idx = @ + 1,
                                            !.slot[r].state = "SEARCH_OBJ"]
NextObjDefAnswer(s, r, buf) ==
  IF s.slot[r].obj \in s.there THEN SetState(s, r, "EXT_GET_VALUE") ELSE snmp_error_response(s, r, "noSuchName", buf)
NextValueAnswer(s, r, buf) == AddNext(s, r, s.slot[r].obj, buf)

RECURSIVE NextSearch(_, _, _)
NextSearch(s, r, buf) ==
  LET t == [s EXCEPT !.slot[r] = Advance(@)]  later == {o \in s.there : o > Current(t, r).name}
  IN CASE s.slot[r].state # "SEARCH_OBJ" -> s
       [] s.slot[r].state = "SEARCH_OBJ" /\ s.slot[r].idx = Len(s.slot[r].invb) -> snmp_ok_response(s, r, buf)
       [] OTHER -> IF later = {} THEN snmp_error_response(t, r, "noSuchName", buf)
                   ELSE IF Min(later) \in External THEN Ask(t, r, "EXT_GET_OBJDEF", Min(later))
                   ELSE NextSearch(AddNext(t, r, Min(later), buf), r, buf)

snmp_msg_getnext_event(s, r, buf) ==
  NextSearch(CASE s.slot[r].state = "EXT_GET_OBJDEF" -> NextObjDefAnswer(s, r, buf)
               [] s.slot[r].state = "EXT_GET_VALUE" -> NextValueAnswer(s, r, buf)
               [] OTHER -> s, r, buf)

-----------------------------------------------------------------------------
(* SET: all values are tested, then all are set. *)

Tested(s, r) == [s EXCEPT !.slot[r].state = "SEARCH_OBJ", !.slot[r].idx = @ + 1]
SetObjDefAnswer(s, r, buf) ==
  IF s.slot[r].obj \in s.there THEN SetState(s, r, "EXT_SET_TEST") ELSE snmp_error_response(s, r, "noSuchName", buf)
(* Each value is set as soon as it was tested. *)
SetTestAnswer_Sets(s, r, buf) ==
  IF s.slot[r].obj \notin Writable THEN snmp_error_response(s, r, "noSuchName", buf)
  ELSE IF Current(s, r).good THEN [Tested(s, r) EXCEPT !.slot[r].did = @ \cup {s.slot[r].obj}]
       ELSE snmp_error_response(s, r, "badValue", buf)
SetTestAnswer(s, r, buf) ==
  IF s.slot[r].obj \notin Writable THEN snmp_error_response(s, r, "noSuchName", buf)
  ELSE IF Current(s, r).good THEN Tested(s, r) ELSE snmp_error_response(s, r, "badValue", buf)
SetObjDefAnswerS(s, r, buf) ==
  IF s.slot[r].obj \in s.there THEN SetState(s, r, "EXT_SET_VALUE") ELSE snmp_error_response(s, r, "genErr", buf)
WasSet(s, r, o) == [s EXCEPT !.slot[r].state = "INTERNAL_SET_VALUE", !.slot[r].idx = @ + 1, !.slot[r].did = @ \cup {o}]
SetValueAnswer(s, r) == WasSet(s, r, s.slot[r].obj)

RECURSIVE SetTests(_, _, _)
SetTests(s, r, buf) ==
  LET t == [s EXCEPT !.slot[r] = Advance(@)]  o == Current(t, r).name
  IN CASE s.slot[r].state # "SEARCH_OBJ" -> s
       [] s.slot[r].state = "SEARCH_OBJ" /\ s.slot[r].idx = Len(s.slot[r].invb) ->
            [s EXCEPT !.slot[r].idx = 0, !.slot[r].state = "INTERNAL_SET_VALUE"]
       [] OTHER -> IF o \notin s.there THEN snmp_error_response(t, r, "noSuchName", buf)
                   ELSE IF o \in External THEN Ask(t, r, "EXT_GET_OBJDEF", o)
                   ELSE IF o \notin Writable THEN snmp_error_response(t, r, "noSuchName", buf)
                   ELSE IF ~ Current(t, r).good THEN snmp_error_response(t, r, "badValue", buf)
                   ELSE SetTests(Tested(t, r), r, buf)

(* An object that is gone leaves the index where it is and the loop runs off the list of bindings. *)
RECURSIVE SetValues(_, _, _)
SetValues(s, r, buf) ==
  LET m == s.slot[r]  t == [s EXCEPT !.slot[r] = Advance(@)]  o == Current(t, r).name
  IN CASE m.state # "INTERNAL_SET_VALUE" -> s
       [] m.state = "INTERNAL_SET_VALUE" /\ m.idx = Len(m.invb) ->
            snmp_ok_response([s EXCEPT !.slot[r].outvb = m.invb, !.slot[r].invb = <<>>], r, buf)
       [] OTHER -> IF o \notin s.there THEN SetState(t, r, "LOST")
                   ELSE IF o \in External THEN Ask(t, r, "EXT_GET_OBJDEF_S", o)
                   ELSE SetValues(WasSet(t, r, o), r, buf)

SetAnswer(s, r, buf) == CASE s.slot[r].state = "EXT_GET_OBJDEF" -> SetObjDefAnswer(s, r, buf)
                          [] s.slot[r].state = "EXT_SET_TEST" -> SetTestAnswer(s, r, buf)
                          [] s.slot[r].state = "EXT_GET_OBJDEF_S" -> SetObjDefAnswerS(s, r, buf)
                          [] s.slot[r].state = "EXT_SET_VALUE" -> SetValueAnswer(s, r)
                          [] OTHER -> s
snmp_msg_set_event(s, r, buf) == SetValues(SetTests(SetAnswer(s, r, buf), r, buf), r, buf)

snmp_msg_event(s, r, buf) == CASE s.slot[r].rt = "next" -> snmp_msg_getnext_event(s, r, buf)
                               [] s.slot[r].rt = "get" -> snmp_msg_get_event(s, r, buf)
                               [] s.slot[r].rt = "set" -> snmp_msg_set_event(s, r, buf)

-----------------------------------------------------------------------------
(* Receiving. *)

Spend(what, bound) == spent[what] < bound /\ spent' = [spent EXCEPT ![what] = @ + 1]
FreeSlot == Min({r \in Slots : g.slot[r].state = "EMPTY"})
HasFreeSlot == \E r \in Slots : g.slot[r].state = "EMPTY"

(* The bindings are allocated one by one; when one cannot be, the ones before it are freed. *)
Decoded(s, vbs) == FoldLeft(LAMBDA t, vb : [ok |-> t.ok /\ CanAlloc(t.s, Cells(vb)),
                                            s |-> IF t.ok /\ CanAlloc(t.s, Cells(vb)) THEN snmp_varbind_alloc(t.s, vb) ELSE t.s],
                            [ok |-> TRUE, s |-> s], vbs)
snmp_pdu_dec_varbindlist(s, vbs) == IF Decoded(s, vbs).ok THEN [ok |-> TRUE, s |-> Inc(Decoded(s, vbs).s, "inaccepted")]
                                    ELSE [ok |-> FALSE, s |-> Inc(s, "inasnparseerrs")]

snmp_recv(q, buf) ==
  LET s == Inc(g, "inpkts")  r == FreeSlot  d == snmp_pdu_dec_varbindlist(s, q.vbs)
      m == [EmptySlot EXCEPT !.state = "SEARCH_OBJ", !.rt = q.rt, !.req = q.vbs, !.invb = q.vbs]
  IN /\ HasFreeSlot /\ Spend("req", MaxReq) /\ UNCHANGED dst
     /\ g' = IF d.ok /\ q.vbs # <<>> THEN snmp_msg_event([d.s EXCEPT !.slot[r] = m], r, buf) ELSE d.s

(* All slots are taken: the message is dropped. *)
RecvBusy(q) == ~ HasFreeSlot /\ Spend("req", MaxReq) /\ UNCHANGED <<g, dst>>

(* snmp_pdu_header_check refuses the message; why is one of the counters. *)
snmp_pdu_header_check(why, enabled, buf) ==
  LET s == Inc(Inc(g, "inpkts"), why)
  IN /\ HasFreeSlot /\ Spend("bad", MaxBad) /\ UNCHANGED dst
     /\ g' = IF why = "inbadcommunitynames" THEN snmp_authfail_trap(s, enabled, buf) ELSE s

(* The external part answers the question of a request. *)
ExtAnswer(r, buf) == /\ g.slot[r].state \in Ext /\ g' = snmp_msg_event(g, r, buf) /\ UNCHANGED <<dst, spent>>

Come(o) == Spend("hot", MaxHot) /\ o \notin g.there /\ g' = [g EXCEPT !.there = @ \cup {o}] /\ UNCHANGED dst
Go(o) == Spend("hot", MaxHot) /\ o \in g.there /\ g' = [g EXCEPT !.there = @ \ {o}] /\ UNCHANGED dst

snmp_trap_dst_enable(d, e) == Spend("bad", MaxBad) /\ dst[d].enable # e /\ dst' = [dst EXCEPT ![d].enable = e] /\ UNCHANGED g
snmp_trap_dst_ip_set(d) == Spend("bad", MaxBad) /\ ~ dst[d].ip /\ dst' = [dst EXCEPT ![d].ip = TRUE] /\ UNCHANGED g

Init == /\ g = [slot |-> [r \in Slots |-> EmptySlot], vb |-> NumVarbinds, va |-> NumValues, there |-> Objects,
                last |-> NoResponse, stats |-> [c \in Counters |-> 0]]
        /\ dst = [d \in TrapDsts |-> [enable |-> FALSE, ip |-> FALSE]]
        /\ spent = [what \in {"req", "bad", "hot"} |-> 0]
Next == \/ \E q \in Requests, buf \in Buffers : snmp_recv(q, buf)
        \/ \E q \in Requests : RecvBusy(q)
        \/ \E why \in {"inbadversions", "inbadcommunitynames", "inasnparseerrs", "ingetresponses", "intraps", "inerrors"} :
             \E e \in BOOLEAN, buf \in Buffers : snmp_pdu_header_check(why, e, buf)
        \/ \E r \in Slots, buf \in Buffers : ExtAnswer(r, buf)
        \/ \E o \in Hot : Come(o) \/ Go(o)
        \/ \E d \in TrapDsts, e \in BOOLEAN : snmp_trap_dst_enable(d, e)
        \/ \E d \in TrapDsts : snmp_trap_dst_ip_set(d)
Spec == Init /\ [][Next]_vars

-----------------------------------------------------------------------------
(* Properties. *)

Held(r) == g.slot[r].invb \o g.slot[r].outvb
(* Every binding and every cell of name and value memory is free or in a list of a request, once:    *)
(* names that move between the lists are counted in one of them (snmp_msg_get_event,                 *)
(* snmp_error_response, snmp_ok_response).                                                           *)
MemoryBalanced ==
  /\ g.vb + MapThenSumSet(LAMBDA r : Len(Held(r)), Slots) = NumVarbinds
  /\ g.va + MapThenSumSet(LAMBDA r : FoldLeft(LAMBDA n, vb : n + Cells(vb), 0, Held(r)), Slots) = NumValues

(* A set request writes nothing before all of its values were tested, and then its objects in their  *)
(* order: a response without error means all of them, one that refuses a name or a value none, and   *)
(* genErr, for an object that went away between test and set, those in front of the one it names;    *)
(* tooBig may stand for any of these (snmp_msg_set_event).                                           *)
FirstOf(vbs, n) == {vbs[i] : i \in 1 .. n}
AllOrNothing ==
  /\ \A r \in Slots :
       LET m == g.slot[r]
       IN  m.did = IF m.state \in {"EXT_GET_OBJDEF_S", "EXT_SET_VALUE", "LOST"} THEN FirstOf(Names(m.req), m.idx) ELSE {}
  /\ LET l == g.last
     IN l.rt = "set" =>
          /\ l.status = "noError" => l.did = Range(l.req)
          /\ l.status \in {"noSuchName", "badValue"} => l.did = {}
          /\ l.status = "genErr" => l.did = FirstOf(l.req, l.eidx - 1)
          /\ l.status = "tooBig" => \E n \in 0 .. Len(l.req) : l.did = FirstOf(l.req, n)

(* A set request that is answered with an error has written nothing: the values are set "atomically" *)
(* (snmp_msg_set_event).  Not what the code does: README.md, "Known disagreements".                  *)
SetAtomic == g.last.rt = "set" /\ g.last.status # "noError" => g.last.did = {}

(* A response with an error names the variable that failed, at the index it gives, as the request    *)
(* did; a response without one has a variable for each of the request, and for a get the same ones   *)
(* (snmp_error_response, snmp_ok_response).                                                          *)
FailureNamed ==
  LET l == g.last
  IN /\ l.status \in {"noSuchName", "badValue", "genErr"} => l.eidx \in DOMAIN l.req /\ l.enc[l.eidx] = l.req[l.eidx]
     /\ l.status = "noError" => Len(l.enc) = Len(l.req)
     /\ (l.status = "noError" /\ l.rt # "next") => l.enc = l.req
     /\ (l.status = "noError" /\ l.rt = "next") => \A i \in DOMAIN l.enc : l.enc[i] > l.req[i]

(* The lengths in the header of a response are those of the bindings that follow (snmp_send_response). *)
(* Not what the code does: README.md, "Known disagreements". *)
LengthsMatch == g.last.sum = g.last.enc

(* The agent never runs off the list of bindings while it sets values (snmp_msg_set_event). *)
(* Not what the code does: README.md, "Known disagreements". *)
NeverLost == \A r \in Slots : g.slot[r].state # "LOST"

(* Each message that was taken in is counted once: as refused, or as accepted (snmp_recv); each that *)
(* was sent is a response or a trap.                                                                 *)
PacketsCounted ==
  LET c == g.stats
  IN /\ c["inpkts"] = c["inaccepted"] + c["inbadversions"] + c["inbadcommunitynames"] + c["inasnparseerrs"]
                      + c["ingetresponses"] + c["intraps"] + c["inerrors"]
     /\ c["outpkts"] = c["outgetresponses"] + c["outtraps"]

=============================================================================
