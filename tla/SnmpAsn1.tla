------------------------------ MODULE SnmpAsn1 ------------------------------
(***************************************************************************)
(* The octets of SNMP messages: lwip/core/snmp/asn1_enc.c and asn1_dec.c,  *)
(* the headers and variable lists of msg_out.c, and their decoding in      *)
(* msg_in.c.  A message lies in a chain of pbufs that may end anywhere in  *)
(* it.  Responses are written in two passes: the first adds up every       *)
(* length, the second writes the octets at the offsets that follow.        *)
(*                                                                         *)
(* A 32 bit word, signed or not, is the integer of the same bits between   *)
(* -2^31 and 2^31 - 1.  A variable is [id, type, val].                     *)
(***************************************************************************)
EXTENDS Integers, Sequences, FiniteSets, FiniteSetsExt, SequencesExt

CONSTANTS ObjIdLen,        \* LWIP_SNMP_OBJ_ID_LEN
          CommunityLen,    \* SNMP_COMMUNITY_STR_LEN
          Public,          \* snmp_publiccommunity: the octets of a name
          Messages,        \* responses: [community, rid, status, eidx, vbs]
          Traps,           \* traps: [eid, addr, gen, spc, ts]
          Cuts,            \* chains: <<octets in the first pbuf, octets in the others>>
          ReCuts,          \* chains of what is received
          Losses           \* how many octets at the end get lost

VARIABLES at, kind, spoilt, lost, msg, chain, tot, ofs, got
vars == <<at, kind, spoilt, lost, msg, chain, tot, ofs, got>>

SEQ == 48
INTEG == 2
OC_STR == 4
NUL == 5
OBJ_ID == 6
IPADDR == 64
COUNTER == 65
GAUGE == 66
TIMETICKS == 67
OPAQUE == 68
GET_REQ == 160
GET_NEXT_REQ == 161
GET_RESP == 162
SET_REQ == 163
TRAP == 164
Version == 0
Hole == -1                 \* an octet of a new pbuf that was not written

-----------------------------------------------------------------------------
(* Words. *)

Octet(v, k) == (v \div (2^(8 * k))) % 256
Wrap(v, bits) == IF v % 2^bits >= 2^(bits - 1) THEN (v % 2^bits) - 2^bits ELSE v % 2^bits
Shl8(v, o) == Wrap(v, 24) * 256 + o
Shl7(v, o) == Wrap(v, 25) * 128 + o

-----------------------------------------------------------------------------
(* The position of an octet in a chain: pbuf p (0: behind the end), index k, offset, end of pbuf p.  *)

Place(p, k, o, plen) == [p |-> p, k |-> k, ofs |-> o, plen |-> plen]
RECURSIVE FindFrom(_, _, _, _)
FindFrom(ch, o, p, base) == IF p > Len(ch) THEN Place(0, 0, o, base)
                            ELSE IF o < base + Len(ch[p]) THEN Place(p, o - base + 1, o, base + Len(ch[p]))
                            ELSE FindFrom(ch, o, p + 1, base + Len(ch[p]))
Find(ch, o) == FindFrom(ch, o, 1, 0)
Step(ch, c) == CASE c.ofs + 1 < c.plen -> Place(c.p, c.k + 1, c.ofs + 1, c.plen)
                 [] c.ofs + 1 >= c.plen /\ c.p < Len(ch) -> Place(c.p + 1, 1, c.ofs + 1, c.plen + Len(ch[c.p + 1]))
                 [] OTHER -> Place(0, 0, c.ofs + 1, c.plen)

RECURSIVE Places(_, _, _)
Places(ch, c, n) == IF n = 0 \/ c.p = 0 THEN <<>> ELSE <<[p |-> c.p, k |-> c.k]>> \o Places(ch, Step(ch, c), n - 1)
Octets(ch, o, n) == LET at1 == Places(ch, Find(ch, o), n) IN [i \in DOMAIN at1 |-> ch[at1[i].p][at1[i].k]]
StoreAt(ch, os, at1) ==
  [p \in DOMAIN ch |-> [k \in DOMAIN ch[p] |->
     IF \E i \in DOMAIN at1 : at1[i] = [p |-> p, k |-> k] THEN os[CHOOSE i \in DOMAIN at1 : at1[i] = [p |-> p, k |-> k]]
     ELSE ch[p][k]]]
Store(ch, o, os) == StoreAt(ch, os, Places(ch, Find(ch, o), Len(os)))
RECURSIVE FlatFrom(_, _)
FlatFrom(ch, p) == IF p > Len(ch) THEN <<>> ELSE ch[p] \o FlatFrom(ch, p + 1)
Flat(ch) == FlatFrom(ch, 1)
Chop(os, cut) == (* the octets in a chain of the given shape *)
  LET n == Len(os)  first == SubSeq(os, 1, Min({cut[1], n}))  rest == SubSeq(os, cut[1] + 1, n)
  IN <<first>> \o [i \in 1 .. (Len(rest) + cut[2] - 1) \div cut[2] |->
                     SubSeq(rest, (i - 1) * cut[2] + 1, Min({i * cut[2], Len(rest)}))]

-----------------------------------------------------------------------------
(* Encoding: how many octets, and which. *)

snmp_asn1_enc_length_cnt(n) == IF n < 128 THEN 1 ELSE IF n < 256 THEN 2 ELSE 3
snmp_asn1_enc_u32t_cnt(v) == IF v < 0 THEN 5 ELSE IF v < 2^7 THEN 1 ELSE IF v < 2^15 THEN 2 ELSE IF v < 2^23 THEN 3 ELSE 4
(* The sign takes no room. *)
snmp_asn1_enc_s32t_cnt_Bare(v) ==
  LET w == IF v < 0 THEN -1 - v ELSE v IN IF w < 2^8 THEN 1 ELSE IF w < 2^16 THEN 2 ELSE IF w < 2^24 THEN 3 ELSE 4
snmp_asn1_enc_s32t_cnt(v) ==
  LET w == IF v < 0 THEN -1 - v ELSE v IN IF w < 2^7 THEN 1 ELSE IF w < 2^15 THEN 2 ELSE IF w < 2^23 THEN 3 ELSE 4
SubIdCnt(id) == 1 + Cardinality({k \in 1 .. 4 : id \div (2^(7 * k)) > 0})
snmp_asn1_enc_oid_cnt(ids) ==
  IF Len(ids) > 1 THEN 1 + FoldLeft(LAMBDA n, id : n + SubIdCnt(id), 0, SubSeq(ids, 3, Len(ids)))
  ELSE FoldLeft(LAMBDA n, id : n + SubIdCnt(id), 0, ids)

snmp_asn1_enc_type(ch, o, type) == Store(ch, o, <<type>>)
snmp_asn1_enc_length(ch, o, n) ==
  Store(ch, o, IF n < 128 THEN <<n>> ELSE IF n < 256 THEN <<129, n>> ELSE <<130, n \div 256, n % 256>>)
Word(n, v) == [i \in 1 .. n |-> Octet(v, n - i)]
snmp_asn1_enc_u32t(ch, o, n, v) == Store(ch, o, IF n = 5 THEN <<0>> \o Word(4, v) ELSE Word(n, v))
snmp_asn1_enc_s32t(ch, o, n, v) == Store(ch, o, Word(n, v))
Base128(id) ==
  LET code(k) == (id \div (2^(7 * k))) % 256  lead == {k \in 1 .. 4 : code(k) # 0}
  IN [i \in 1 .. (IF lead = {} THEN 0 ELSE Max(lead)) |->
        LET x == code(Max(lead) + 1 - i) IN IF x < 128 THEN x + 128 ELSE x] \o <<id % 128>>
snmp_asn1_enc_oid(ch, o, ids) ==
  IF Len(ids) <= 1 THEN ch
  ELSE Store(ch, o, <<(ids[1] * 40 + ids[2]) % 256>> \o FoldLeft(LAMBDA a, id : a \o Base128(id), <<>>, SubSeq(ids, 3, Len(ids))))
snmp_asn1_enc_raw(ch, o, raw) == Store(ch, o, raw)

-----------------------------------------------------------------------------
(* First pass: the lengths. *)

Len3(n) == 1 + snmp_asn1_enc_length_cnt(n) + n        \* type, length and contents
ValueLen(vb) == CASE vb.type = INTEG -> snmp_asn1_enc_s32t_cnt(vb.val)
                  [] vb.type \in {COUNTER, GAUGE, TIMETICKS} -> snmp_asn1_enc_u32t_cnt(vb.val)
                  [] vb.type \in {OC_STR, IPADDR, OPAQUE, NUL} -> Len(vb.val)
                  [] vb.type = OBJ_ID -> snmp_asn1_enc_oid_cnt(vb.val)
VarbindLen(vb) == Len3(ValueLen(vb)) + Len3(snmp_asn1_enc_oid_cnt(vb.id))
ListLen(vbs) == FoldLeft(LAMBDA n, vb : n + Len3(VarbindLen(vb)), 0, vbs)
snmp_varbind_list_sum(vbs) == Len3(ListLen(vbs))

PduLen(m) == snmp_varbind_list_sum(m.vbs) + Len3(snmp_asn1_enc_s32t_cnt(m.eidx)) + Len3(snmp_asn1_enc_s32t_cnt(m.status))
             + Len3(snmp_asn1_enc_s32t_cnt(m.rid))
SeqLen(pdulen, comlen) == Len3(pdulen) + Len3(comlen) + Len3(snmp_asn1_enc_s32t_cnt(Version))
snmp_resp_header_sum(m) == Len3(SeqLen(PduLen(m), Len(m.community)))

TrapLen(t) == Len3(snmp_asn1_enc_u32t_cnt(t.ts)) + Len3(snmp_asn1_enc_s32t_cnt(t.spc)) + Len3(snmp_asn1_enc_s32t_cnt(t.gen))
              + Len3(4) + Len3(snmp_asn1_enc_oid_cnt(t.eid)) + snmp_varbind_list_sum(<<>>)
snmp_trap_header_sum(t) == Len3(SeqLen(TrapLen(t), Len(Public)))

-----------------------------------------------------------------------------
(* Second pass: a writer [ch, ofs] moves on by the lengths of the first pass. *)

TypeLength(w, type, n) ==
  [ch |-> snmp_asn1_enc_length(snmp_asn1_enc_type(w.ch, w.ofs, type), w.ofs + 1, n), ofs |-> w.ofs + 1 + snmp_asn1_enc_length_cnt(n)]
S32(w, v) == LET n == snmp_asn1_enc_s32t_cnt(v)  u == TypeLength(w, INTEG, n)
             IN [ch |-> snmp_asn1_enc_s32t(u.ch, u.ofs, n, v), ofs |-> u.ofs + n]
U32(w, type, n, v) == LET u == TypeLength(w, type, n) IN [ch |-> snmp_asn1_enc_u32t(u.ch, u.ofs, n, v), ofs |-> u.ofs + n]
Raw(w, type, os) == LET u == TypeLength(w, type, Len(os)) IN [ch |-> snmp_asn1_enc_raw(u.ch, u.ofs, os), ofs |-> u.ofs + Len(os)]
Oid(w, ids) == LET n == snmp_asn1_enc_oid_cnt(ids)  u == TypeLength(w, OBJ_ID, n)
               IN [ch |-> snmp_asn1_enc_oid(u.ch, u.ofs, ids), ofs |-> u.ofs + n]

snmp_resp_header_enc(w, m) ==
  S32(S32(S32(TypeLength(Raw(S32(TypeLength(w, SEQ, SeqLen(PduLen(m), Len(m.community))), Version), OC_STR, m.community),
                         GET_RESP, PduLen(m)), m.rid), m.status), m.eidx)
snmp_trap_header_enc(w, t) ==
  U32(U32(U32(Raw(Oid(TypeLength(Raw(S32(TypeLength(w, SEQ, SeqLen(TrapLen(t), Len(Public))), Version), OC_STR, Public),
                                 TRAP, TrapLen(t)), t.eid), IPADDR, t.addr),
              INTEG, snmp_asn1_enc_s32t_cnt(t.gen), t.gen), INTEG, snmp_asn1_enc_s32t_cnt(t.spc), t.spc),
      TIMETICKS, snmp_asn1_enc_u32t_cnt(t.ts), t.ts)
EncValue(w, vb) == CASE vb.type = INTEG -> S32(w, vb.val)
                     [] vb.type \in {COUNTER, GAUGE, TIMETICKS} -> U32(w, vb.type, snmp_asn1_enc_u32t_cnt(vb.val), vb.val)
                     [] vb.type \in {OC_STR, IPADDR, OPAQUE, NUL} -> Raw(w, vb.type, vb.val)
                     [] vb.type = OBJ_ID -> Oid(w, vb.val)
snmp_varbind_list_enc(w, vbs) ==
  FoldLeft(LAMBDA u, vb : EncValue(Oid(TypeLength(u, SEQ, VarbindLen(vb)), vb.id), vb), TypeLength(w, SEQ, ListLen(vbs)), vbs)

-----------------------------------------------------------------------------
(* Decoding. *)

Err == [ok |-> FALSE]
Ok(v) == [ok |-> TRUE, val |-> v]
snmp_asn1_dec_type(ch, o) == Octets(ch, o, 1)
(* Indefinite: up to and including the first two zeros in a row. *)
IndefiniteLength(os) ==
  LET ends == {n \in 3 .. Len(os) : os[n] = 0 /\ os[n - 1] = 0}
  IN IF ends = {} THEN Err ELSE [ok |-> TRUE, used |-> 1, len |-> Min(ends) - 1]
DecLength(ch, o, os) ==
  IF os = <<>> THEN Err
  ELSE IF os[1] < 128 THEN [ok |-> TRUE, used |-> 1, len |-> os[1]]
  ELSE IF os[1] = 128 THEN IndefiniteLength(Octets(ch, o, Len(Flat(ch))))
  ELSE IF os[1] = 129 /\ Len(os) >= 2 THEN [ok |-> TRUE, used |-> 2, len |-> os[2]]
  ELSE IF os[1] = 130 /\ Len(os) >= 3 THEN [ok |-> TRUE, used |-> 3, len |-> os[2] * 256 + os[3]]
  ELSE Err
snmp_asn1_dec_length(ch, o) == DecLength(ch, o, Octets(ch, o, 3))
snmp_asn1_dec_u32t(ch, o, n) ==
  LET os == Octets(ch, o, n)  body == IF n > 1 /\ os[1] = 0 THEN Tail(os) ELSE os
  IN IF n \notin 1 .. 5 \/ Len(os) < n THEN Err
     ELSE IF os[1] >= 128 THEN Err ELSE Ok(FoldLeft(Shl8, 0, body))
snmp_asn1_dec_s32t(ch, o, n) ==
  LET os == Octets(ch, o, n)
  IN IF n \notin 1 .. 4 \/ Len(os) < n THEN Err ELSE Ok(FoldLeft(Shl8, IF os[1] >= 128 THEN -1 ELSE 0, os))

(* Octets os from k on, n of them belong to the name; a last octet that announces another one leaves *)
(* an identifier without a value.                                                                    *)
RECURSIVE DecIds(_, _, _, _)
DecIds(os, k, n, ids) ==
  LET more == {j \in 0 .. n - 1 : \A i \in 0 .. j - 1 : k + i <= Len(os) /\ os[k + i] >= 128}
      m == Max(more)
  IN IF n = 0 THEN Ok(ids)
     ELSE IF Len(ids) = ObjIdLen \/ k + m > Len(os) THEN Err
     ELSE IF os[k + m] < 128
       THEN DecIds(os, k + m + 1, n - m - 1, Append(ids, FoldLeft(LAMBDA v, x : Shl7(v, x % 128), 0, SubSeq(os, k, k + m))))
       ELSE DecIds(os, k + m + 1, 1, Append(ids, "unset"))
snmp_asn1_dec_oid(ch, o, n) ==
  LET os == Octets(ch, o, n + ObjIdLen)  x == os[1]
  IN IF os = <<>> THEN Err
     ELSE IF n = 0 THEN Ok(<<>>)
     ELSE DecIds(os, 2, n - 1, IF x < 40 THEN <<0, x>> ELSE IF x < 80 THEN <<1, x - 40>> ELSE <<2, x - 80>>)
snmp_asn1_dec_raw(ch, o, n, room) ==
  IF n = 0 THEN Ok(<<>>) ELSE IF room < n \/ Len(Octets(ch, o, n)) < n THEN Err ELSE Ok(Octets(ch, o, n))

(* Type and length at an offset: the type, the length, where the contents begin and end. *)
TlvOf(ch, o, l) == IF ~ l.ok THEN Err ELSE [ok |-> TRUE, type |-> snmp_asn1_dec_type(ch, o)[1], len |-> l.len,
                                             at |-> o + 1 + l.used, end |-> o + 1 + l.used + l.len]
Tlv(ch, o) == TlvOf(ch, o, snmp_asn1_dec_length(ch, o + 1))
DecInteger(ch, t) == IF ~ t.ok THEN Err ELSE IF t.type # INTEG THEN Err ELSE snmp_asn1_dec_s32t(ch, t.at, t.len)
WithEnd(t, v) == IF v.ok THEN [ok |-> TRUE, val |-> v.val, end |-> t.end] ELSE Err
IntegerOf(ch, t) == WithEnd(t, DecInteger(ch, t))
IntegerAt(ch, o) == IntegerOf(ch, Tlv(ch, o))
DecValue(ch, t) ==
  CASE t.type = INTEG -> snmp_asn1_dec_s32t(ch, t.at, t.len)
    [] t.type \in {COUNTER, GAUGE, TIMETICKS} -> snmp_asn1_dec_u32t(ch, t.at, t.len)
    [] t.type \in {OC_STR, OPAQUE} -> snmp_asn1_dec_raw(ch, t.at, t.len, t.len % 256)
    [] t.type = NUL -> Ok(<<>>)
    [] t.type = OBJ_ID -> snmp_asn1_dec_oid(ch, t.at, t.len)
    [] t.type = IPADDR -> IF t.len = 4 THEN snmp_asn1_dec_raw(ch, t.at, t.len, 4) ELSE Err
    [] OTHER -> Err

Refused(why) == [why |-> why]
HeaderIndex(pdu, q, rid, status, eidx) ==
  IF ~ eidx.ok THEN Refused("asnparseerrs")
  ELSE [why |-> "", rt |-> pdu.type, community |-> q, rid |-> rid.val, status |-> status.val, eidx |-> eidx.val, ofs |-> eidx.end]
HeaderStatus(ch, pdu, q, rid, status) ==
  IF ~ status.ok THEN Refused("asnparseerrs") ELSE HeaderIndex(pdu, q, rid, status, IntegerAt(ch, status.end))
HeaderRid(ch, pdu, q, rid) ==
  IF ~ rid.ok THEN Refused("asnparseerrs") ELSE HeaderStatus(ch, pdu, q, rid, IntegerAt(ch, rid.end))
HeaderPdu(ch, pdu, q) ==
  CASE ~ pdu.ok -> Refused("asnparseerrs")
    [] pdu.ok /\ pdu.type = GET_RESP -> Refused("getresponses")
    [] pdu.ok /\ pdu.type = TRAP -> Refused("traps")
    [] pdu.ok /\ pdu.type \in {GET_REQ, GET_NEXT_REQ, SET_REQ} ->
         IF pdu.len # Len(Flat(ch)) - pdu.at THEN Refused("asnparseerrs") ELSE HeaderRid(ch, pdu, q, IntegerAt(ch, pdu.at))
    [] OTHER -> Refused("asnparseerrs")
HeaderCommunity(ch, com, raw) ==
  IF ~ raw.ok THEN Refused("asnparseerrs")
  ELSE IF raw.val # Public THEN Refused("badcommunitynames")
  ELSE HeaderPdu(ch, Tlv(ch, com.end), raw.val)
CommunityAt(ch, com) == IF ~ com.ok THEN Err ELSE IF com.type # OC_STR THEN Err ELSE snmp_asn1_dec_raw(ch, com.at, com.len, CommunityLen)
HeaderAfter(ch, com) == HeaderCommunity(ch, com, CommunityAt(ch, com))
HeaderVersion(ch, version) ==
  IF ~ version.ok THEN Refused("asnparseerrs")
  ELSE IF version.val # Version THEN Refused("badversions")
  ELSE HeaderAfter(ch, Tlv(ch, version.end))
HeaderAll(ch, all) ==
  IF ~ all.ok THEN Refused("asnparseerrs")
  ELSE IF all.end # Len(Flat(ch)) \/ all.type # SEQ THEN Refused("asnparseerrs")
  ELSE HeaderVersion(ch, IntegerAt(ch, all.at))
snmp_pdu_header_check(ch) == HeaderAll(ch, Tlv(ch, 0))

(* One variable: the sequence, its name, its value; o is where it begins.                             *)
WithId(ids, value, val) ==
  IF val.ok THEN [ok |-> TRUE, end |-> value.end, vb |-> [id |-> ids.val, type |-> value.type, val |-> val.val]] ELSE Err
VarbindValue(ch, ids, value) == IF ~ ids.ok \/ ~ value.ok THEN Err ELSE WithId(ids, value, DecValue(ch, value))
VarbindName(ch, name) ==
  IF ~ name.ok THEN Err
  ELSE IF name.type # OBJ_ID THEN Err
  ELSE VarbindValue(ch, snmp_asn1_dec_oid(ch, name.at, name.len), Tlv(ch, name.end))
DecVarbind(ch, vb, left) ==
  IF ~ vb.ok THEN Err ELSE IF vb.type # SEQ \/ vb.len = 0 \/ vb.len > left THEN Err ELSE VarbindName(ch, Tlv(ch, vb.at))
(* left: octets of the list that are still to come, a u16_t. *)
RECURSIVE DecVarbinds(_, _, _, _)
AddVarbind(ch, o, left, vbs, d) ==
  IF d.ok THEN DecVarbinds(ch, d.end, (left - (d.end - o)) % 65536, Append(vbs, d.vb)) ELSE Err
DecVarbinds(ch, o, left, vbs) == IF left = 0 THEN Ok(vbs) ELSE AddVarbind(ch, o, left, vbs, DecVarbind(ch, Tlv(ch, o), left))
DecList(ch, list) == IF ~ list.ok THEN Err ELSE IF list.type # SEQ THEN Err ELSE DecVarbinds(ch, list.at, list.len, <<>>)
snmp_pdu_dec_varbindlist(ch, o) == DecList(ch, Tlv(ch, o))

Accept(q, d) == IF d.ok THEN [why |-> "accepted", rt |-> q.rt, community |-> q.community, rid |-> q.rid, vbs |-> d.val]
                ELSE Refused("asnparseerrs")
RecvHeader(ch, q) == IF q.why # "" THEN q
                     ELSE IF q.status # 0 \/ q.eidx # 0 THEN Refused("errors")
                     ELSE Accept(q, snmp_pdu_dec_varbindlist(ch, q.ofs))
snmp_recv(ch) == RecvHeader(ch, snmp_pdu_header_check(ch))

-----------------------------------------------------------------------------
(* The agent writes a message; the octets, or a request that a manager writes in the same way, come  *)
(* back to it in pbufs of another shape, whole or without their end.                                 *)

New(n, cut) == [ch |-> Chop([i \in 1 .. n |-> Hole], cut), ofs |-> 0]
Write(w, k, m, n) == /\ at = "idle" /\ at' = "written" /\ kind' = k /\ msg' = m /\ tot' = n
                     /\ chain' = w.ch /\ ofs' = w.ofs /\ UNCHANGED <<spoilt, lost, got>>
snmp_send_response(m, cut) ==
  LET n == snmp_resp_header_sum(m)
  IN Write(snmp_varbind_list_enc(snmp_resp_header_enc(New(n, cut), m), m.vbs), GET_RESP, m, n)
snmp_send_trap(t, cut) ==
  LET n == snmp_trap_header_sum(t)
  IN Write(snmp_varbind_list_enc(snmp_trap_header_enc(New(n, cut), t), <<>>), TRAP, t, n)

(* Where the contents of the outer sequence begin, and the type of the PDU. *)
Inside == 1 + snmp_asn1_enc_length_cnt(SeqLen(PduLen(msg), Len(msg.community)))
PduAt == Inside + Len3(1) + Len3(Len(msg.community))
Deliver(os, k, bad, cut) == /\ at' = "received" /\ chain' = Chop(os, cut) /\ kind' = k /\ spoilt' = bad
                            /\ UNCHANGED <<lost, msg, tot, ofs, got>>
Echo(cut) == at = "written" /\ Deliver(Flat(chain), kind, "", cut)
Manager(rt, cut) == /\ at = "written" /\ kind = GET_RESP
                    /\ Deliver([Flat(chain) EXCEPT ![PduAt + 1] = rt], rt, "", cut)
ManagerWith(what, cut) ==
  /\ at = "written" /\ kind = GET_RESP
  /\ Deliver([Flat(chain) EXCEPT ![PduAt + 1] = GET_REQ,
                                 ![IF what = "badversions" THEN Inside + 3 ELSE PduAt] = @ + 1], GET_REQ, what, cut)
Lose(n) == /\ at = "received" /\ lost = 0 /\ n < Len(Flat(chain)) /\ lost' = n
           /\ chain' = Chop(SubSeq(Flat(chain), 1, Len(Flat(chain)) - n), <<Len(chain[1]), Len(Last(chain))>>)
           /\ UNCHANGED <<at, kind, spoilt, msg, tot, ofs, got>>
Recv == at = "received" /\ at' = "done" /\ got' = snmp_recv(chain) /\ UNCHANGED <<kind, spoilt, lost, msg, chain, tot, ofs>>

Init == /\ at = "idle" /\ kind = 0 /\ spoilt = "" /\ lost = 0 /\ msg = <<>> /\ chain = <<>> /\ tot = 0 /\ ofs = 0 /\ got = Refused("")
Next == \/ \E m \in Messages, cut \in Cuts : snmp_send_response(m, cut)
        \/ \E t \in Traps, cut \in Cuts : snmp_send_trap(t, cut)
        \/ \E cut \in ReCuts : Echo(cut) \/ \E rt \in {GET_REQ, GET_NEXT_REQ, SET_REQ} : Manager(rt, cut)
        \/ \E cut \in ReCuts, what \in {"badversions", "badcommunitynames"} : ManagerWith(what, cut)
        \/ \E n \in Losses : Lose(n)
        \/ Recv
Spec == Init /\ [][Next]_vars

-----------------------------------------------------------------------------
(* Properties. *)

(* What the first pass adds up is what the second pass writes: it ends at the end of the buffer, no  *)
(* octet is left out, and the outer length is that of the message (snmp_send_response,               *)
(* snmp_send_trap, the functions _cnt).                                                              *)
LengthsAnnounced ==
  at = "written" => ofs = tot /\ Hole \notin Range(Flat(chain)) /\ Tlv(chain, 0).end = tot

(* The variables of a response can be read from it (snmp_varbind_list_sum, snmp_varbind_list_enc).   *)
ResponseReadable ==
  (at = "written" /\ kind = GET_RESP) => snmp_pdu_dec_varbindlist(chain, tot - snmp_varbind_list_sum(msg.vbs)) = Ok(msg.vbs)

(* A request reads back as it was written, values at the limits of every length included, wherever   *)
(* the pbufs end (the functions snmp_asn1_dec against snmp_asn1_enc).                                          *)
RoundTrip ==
  (at = "done" /\ lost = 0 /\ spoilt = "" /\ kind \in {GET_REQ, GET_NEXT_REQ, SET_REQ}) =>
    IF msg.status # 0 \/ msg.eidx # 0 THEN got.why = "errors"
    ELSE got = [why |-> "accepted", rt |-> kind, community |-> msg.community, rid |-> msg.rid, vbs |-> msg.vbs]

(* A message that lost its end is refused as unreadable, whatever it was; a whole one that is not a  *)
(* request is refused as what it is (snmp_pdu_header_check).                                         *)
RefusedAs ==
  at = "done" => /\ lost > 0 => got.why = "asnparseerrs"
                 /\ (lost = 0 /\ kind = GET_RESP) => got.why = "getresponses"
                 /\ (lost = 0 /\ kind = TRAP) => got.why = "traps"
                 /\ (lost = 0 /\ spoilt # "") => got.why = spoilt
=============================================================================
