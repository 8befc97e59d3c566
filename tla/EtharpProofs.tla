---------------------------- MODULE EtharpProofs ----------------------------
(***************************************************************************)
(* Proofs about Etharp for every size of the table, every pool of queue    *)
(* elements, with and without queueing, static entries and learning from   *)
(* IP frames, and for every set of hosts and hardware addresses.           *)
(*                                                                         *)
(* The invariant is about the table, what every host announced last and    *)
(* where each packet was to go; what the last step has sent is no part of  *)
(* it.                                                                     *)
(***************************************************************************)
EXTENDS Etharp, FiniteSetTheorems, WellFoundedInduction, TLAPS

Entry == [state : {"EMPTY", "PENDING", "STABLE"}, ip : Nat, mac : Nat, ctime : 0 .. MaxAge, static : BOOLEAN,
          q : Seq(Nat)]
Sent == [kind : {"IP", "REQUEST", "REPLY"}, ip : Nat, mac : Nat, pkt : Nat]
Table == [Entries -> Entry]
States == [tab : Table, hint : Entries, held : SUBSET Nat, elems : SUBSET Nat, out : Seq(Sent)]

(* An entry in use has a unicast address and is not too old, one that is      *)
(* stable has the hardware address t its host announced last.                 *)
InUse(e, t) ==
  /\ e.state # "EMPTY" => ~ IsSpecial(e.ip) /\ e.ctime < MaxAge
  /\ e.state = "STABLE" /\ e.ip \in Hosts => e.mac = t[e.ip]

(* The packets that wait for an entry are in order and were to go to its      *)
(* address, d being where each packet was to go.                              *)
QueueFits(e, d) ==
  /\ e.q # <<>> => e.state = "PENDING"
  /\ \A k \in DOMAIN e.q : e.q[k] \in DOMAIN d /\ d[e.q[k]] = e.ip
  /\ \A k, l \in DOMAIN e.q : k < l => e.q[k] < e.q[l]

Distinct(tab) == \A i, j \in Entries :
  tab[i].state # "EMPTY" /\ tab[j].state # "EMPTY" /\ tab[i].ip = tab[j].ip => i = j

HeldFits(st) ==
  /\ st.held = Waiting(st.tab, Entries)
  /\ st.elems = IF Queueing THEN st.held ELSE {}
  /\ IsFiniteSet(st.elems) /\ Cardinality(st.elems) <= QueueSize

Good(st, t, d) ==
  /\ st \in States
  /\ \A i \in Entries : InUse(st.tab[i], t) /\ QueueFits(st.tab[i], d)
  /\ Distinct(st.tab)
  /\ HeldFits(st)

Known == /\ told \in [Hosts -> Nat] /\ dst \in Seq(Nat) /\ ours \in {IpAny, Own}
         /\ spent \in [{"out", "in", "fail", "static", "addr"} -> Nat] /\ Len(dst) = spent.out

ArpInv == Good(a, told, dst) /\ Known /\ SentToOwner /\ InOrder

-----------------------------------------------------------------------------
(* Least, greatest and oldest entries. *)

(* A set of numbers that is not empty has a least one. *)
LEMMA LeastNumber ==
    ASSUME NEW S \in SUBSET Nat, S # {}
    PROVE  \E n \in S : \A m \in S : n <= m
<1>1. \E n \in S : \A m \in S : ~(<<m, n>> \in OpToRel(<, Nat))
  BY NatLessThanWellFounded, WFMin
<1>2. OpToRel(<, Nat) = {ss \in Nat \X Nat : ss[1] < ss[2]}
  BY DEF OpToRel
<1>3. PICK n \in S : \A m \in S : <<m, n>> \notin {ss \in Nat \X Nat : ss[1] < ss[2]}
  BY <1>1, <1>2
<1>4. ASSUME NEW m \in S, m < n PROVE FALSE
  <2>1. <<m, n>> \in {ss \in Nat \X Nat : ss[1] < ss[2]}
    BY <1>4
  <2> QED
    BY <1>3, <2>1
<1> QED
  BY <1>4

(* Min picks an element (FiniteSetsExt). *)
LEMMA MinIn ==
    ASSUME NEW S \in SUBSET Nat, S # {}
    PROVE  Min(S) \in S
  BY LeastNumber DEF Min

(* A bounded set of numbers that is not empty has a greatest one. *)
LEMMA GreatestNumber ==
    ASSUME NEW n \in Nat, NEW S \in SUBSET (0 .. n), S # {}
    PROVE  \E x \in S : \A y \in S : y <= x
<1> DEFINE T == {n - x : x \in S}
<1>1. T \in SUBSET Nat /\ T # {}
  OBVIOUS
<1> HIDE DEF T
<1>2. PICK m \in T : \A k \in T : m <= k
  BY <1>1, LeastNumber
<1>3. PICK x \in S : m = n - x
  BY <1>2 DEF T
<1>4. ASSUME NEW y \in S PROVE y <= x
  <2>1. n - y \in T
    BY DEF T
  <2>2. n - x <= n - y
    BY <2>1, <1>2, <1>3
  <2> QED
    BY <2>2
<1> QED
  BY <1>4

(* The entry find_entry recycles is one of the candidates. *)
LEMMA OldestIn ==
    ASSUME NEW st, st.tab \in Table, NEW S \in SUBSET Entries, S # {}
    PROVE  Oldest(st, S) \in S
<1> DEFINE Age(i) == st.tab[i].ctime
           Ages == {Age(i) : i \in S}
           O == {i \in S : \A j \in S : st.tab[j].ctime <= st.tab[i].ctime}
<1>1. \A i \in S : Age(i) \in 0 .. MaxAge
  BY DEF Table, Entry
<1>2. Ages \in SUBSET (0 .. MaxAge) /\ Ages # {} /\ MaxAge \in Nat
  BY <1>1, SizeAssumption
<1>3. PICK x \in Ages : \A y \in Ages : y <= x
  <2> HIDE DEF Ages
  <2> QED
    BY <1>2, GreatestNumber
<1>4. PICK i \in S : x = Age(i)
  BY <1>3
<1>5. i \in O
  <2>1. \A j \in S : Age(j) \in Ages
    OBVIOUS
  <2>2. \A j \in S : Age(j) <= Age(i)
    <3> HIDE DEF Ages, Age
    <3> QED
      BY <2>1, <1>3, <1>4
  <2> QED
    BY <2>2
<1>6. O \in SUBSET (0 .. TableSize) /\ O # {} /\ TableSize \in Nat
  <2>1. TableSize \in Nat
    BY SizeAssumption
  <2>2. \A n \in Entries : n \in 0 .. TableSize
    BY <2>1 DEF Entries
  <2>3. O \subseteq Entries
    OBVIOUS
  <2> HIDE DEF O
  <2> QED
    BY <1>5, <2>1, <2>2, <2>3
<1>7. PICK n \in O : \A y \in O : y <= n
  <2> HIDE DEF O
  <2> QED
    BY <1>6, GreatestNumber
<1>8. \A y \in O : n >= y
  BY <1>6, <1>7
<1>9. Max(O) \in O
  <2> HIDE DEF O
  <2> QED
    BY <1>7, <1>8 DEF Max
<1> QED
  BY <1>9 DEF Oldest

-----------------------------------------------------------------------------
(* Parts of a state. *)

(* The fields of a state. *)
LEMMA Fields ==
    ASSUME NEW st \in States
    PROVE  /\ st.tab \in Table /\ st.hint \in Entries /\ st.held \in SUBSET Nat /\ st.elems \in SUBSET Nat
           /\ st.out \in Seq(Sent)
           /\ \A i \in Entries : st.tab[i] \in Entry
  BY DEF States, Table

(* A free entry has no queue. *)
LEMMA FreeHasNoQueue ==
    ASSUME NEW e, NEW d, QueueFits(e, d), e.state # "PENDING"
    PROVE  e.q = <<>> /\ Range(e.q) = {}
  BY DEF QueueFits, Range

(* A packet waits for one entry. *)
LEMMA WaitsOnce ==
    ASSUME NEW tab \in Table, NEW d, Distinct(tab), \A i \in Entries : QueueFits(tab[i], d),
           NEW i \in Entries, NEW j \in Entries, i # j
    PROVE  Range(tab[i].q) \cap Range(tab[j].q) = {}
<1> SUFFICES ASSUME NEW p \in Range(tab[i].q), p \in Range(tab[j].q)
             PROVE  FALSE
  OBVIOUS
<1>1. PICK k \in DOMAIN tab[i].q : p = tab[i].q[k]
  BY DEF Range
<1>2. PICK l \in DOMAIN tab[j].q : p = tab[j].q[l]
  BY DEF Range
<1>3. d[p] = tab[i].ip /\ d[p] = tab[j].ip
  BY <1>1, <1>2 DEF QueueFits
<1>4. tab[i].q # <<>> /\ tab[j].q # <<>>
  BY <1>1, <1>2
<1>5. tab[i].state = "PENDING" /\ tab[j].state = "PENDING"
  BY <1>4 DEF QueueFits
<1> QED
  BY <1>3, <1>5 DEF Distinct

(* Queues without a common packet, and entries whose queues stay. *)
Apart(tab) == \A i, j \in Entries : i # j => Range(tab[i].q) \cap Range(tab[j].q) = {}
SameQueues(tab, new, S) == \A i \in S : new[i].q = tab[i].q
NoQueues(new, S) == \A i \in S : new[i].q = <<>>

(* What waits after the entries of S have lost their queues. *)
LEMMA WaitingLess ==
    ASSUME NEW tab, NEW new, NEW S \in SUBSET Entries,
           Apart(tab), NoQueues(new, S), SameQueues(tab, new, Entries \ S)
    PROVE  Waiting(new, Entries) = Waiting(tab, Entries) \ Waiting(tab, S)
<1>1. \A i \in S : Range(new[i].q) = {}
  BY DEF Range, NoQueues
<1>2. \A i \in Entries \ S : Range(new[i].q) = Range(tab[i].q)
  BY DEF SameQueues
<1> DEFINE R(i) == Range(tab[i].q)
           N(i) == Range(new[i].q)
<1>3. UNION {N(i) : i \in Entries} = (UNION {R(i) : i \in Entries}) \ (UNION {R(i) : i \in S})
  <2>1. \A i \in S : N(i) = {}
    BY <1>1
  <2>2. \A i \in Entries \ S : N(i) = R(i)
    BY <1>2
  <2>3. \A i, j \in Entries : i # j => R(i) \cap R(j) = {}
    BY DEF Apart
  <2> HIDE DEF R, N
  <2>4. ASSUME NEW p, \E i \in Entries : p \in N(i)
        PROVE  (\E i \in Entries : p \in R(i)) /\ ~ \E i \in S : p \in R(i)
    <3>1. PICK i \in Entries : p \in N(i)
      BY <2>4
    <3>2. i \notin S /\ p \in R(i)
      BY <3>1, <2>1, <2>2
    <3>3. ASSUME NEW j \in S, p \in R(j) PROVE FALSE
      BY <3>2, <3>3, <2>3
    <3> QED
      BY <3>2, <3>3
  <2>5. ASSUME NEW p, \E i \in Entries : p \in R(i), ~ \E i \in S : p \in R(i)
        PROVE  \E i \in Entries : p \in N(i)
    BY <2>5, <2>2
  <2> QED
    BY <2>4, <2>5
<1> QED
  BY <1>3 DEF Waiting

(* What waits after one entry has got a new queue. *)
LEMMA WaitingPut ==
    ASSUME NEW tab, NEW new, NEW i \in Entries,
           Apart(tab), SameQueues(tab, new, Entries \ {i})
    PROVE  Waiting(new, Entries) = (Waiting(tab, Entries) \ Range(tab[i].q)) \cup Range(new[i].q)
<1> DEFINE R(j) == Range(tab[j].q)
           N(j) == Range(new[j].q)
<1>1. UNION {N(j) : j \in Entries} = ((UNION {R(j) : j \in Entries}) \ R(i)) \cup N(i)
  <2>2. \A j \in Entries \ {i} : N(j) = R(j)
    BY DEF SameQueues
  <2>3. \A j, k \in Entries : j # k => R(j) \cap R(k) = {}
    BY DEF Apart
  <2> HIDE DEF R, N
  <2>4. ASSUME NEW p, \E j \in Entries : p \in N(j)
        PROVE  p \in N(i) \/ ((\E j \in Entries : p \in R(j)) /\ p \notin R(i))
    <3>1. PICK j \in Entries : p \in N(j)
      BY <2>4
    <3>2. CASE j = i
      BY <3>1, <3>2
    <3>3. CASE j # i
      BY <3>1, <3>3, <2>2, <2>3
    <3> QED
      BY <3>2, <3>3
  <2>5. ASSUME NEW p, p \in N(i) \/ ((\E j \in Entries : p \in R(j)) /\ p \notin R(i))
        PROVE  \E j \in Entries : p \in N(j)
    BY <2>5, <2>2
  <2> QED
    BY <2>4, <2>5
<1> QED
  BY <1>1 DEF Waiting

-----------------------------------------------------------------------------
(* Steps of the table that keep it good. *)

(* Fewer elements of the queue pool. *)
LEMMA FewerElements ==
    ASSUME NEW S, IsFiniteSet(S), Cardinality(S) <= QueueSize, NEW T \in SUBSET S
    PROVE  IsFiniteSet(T) /\ Cardinality(T) <= QueueSize
<1>1. IsFiniteSet(T) /\ Cardinality(T) <= Cardinality(S)
  BY FS_Subset
<1>2. Cardinality(T) \in Nat /\ Cardinality(S) \in Nat /\ QueueSize \in Nat
  BY <1>1, FS_CardinalityType, SizeAssumption
<1> QED
  BY <1>1, <1>2

(* Entries are freed; whether they were in order themselves does not matter. *)
LEMMA FreeRest ==
    ASSUME NEW st \in States, NEW t, NEW d, NEW S \in SUBSET Entries, Distinct(st.tab), HeldFits(st),
           \A i \in Entries : QueueFits(st.tab[i], d),
           \A i \in Entries \ S : InUse(st.tab[i], t)
    PROVE  /\ Good(free_entry(st, S), t, d)
           /\ free_entry(st, S).out = st.out
           /\ free_entry(st, S).hint = st.hint
           /\ \A i \in S : free_entry(st, S).tab[i] = Freed(st.tab[i])
           /\ \A i \in Entries \ S : free_entry(st, S).tab[i] = st.tab[i]
<1> DEFINE r == free_entry(st, S)
           lost == Waiting(st.tab, S)
<1>1. st \in States /\ st.tab \in Table /\ Distinct(st.tab) /\ HeldFits(st)
      /\ \A i \in Entries : st.tab[i] \in Entry /\ QueueFits(st.tab[i], d)
  BY Fields
<1>2. /\ r.tab = [i \in Entries |-> IF i \in S THEN Freed(st.tab[i]) ELSE st.tab[i]]
      /\ r.hint = st.hint /\ r.out = st.out /\ r.held = st.held \ lost /\ r.elems = st.elems \ lost
      /\ r = [tab |-> r.tab, hint |-> r.hint, held |-> r.held, elems |-> r.elems, out |-> r.out]
  <2> DEFINE m == free_etharp_q(st, lost)
  <2>1. /\ m.held = st.held \ lost /\ m.elems = st.elems \ lost /\ m.hint = st.hint /\ m.out = st.out
        /\ m = [tab |-> m.tab, hint |-> m.hint, held |-> m.held, elems |-> m.elems, out |-> m.out]
    <3>1. PICK x, y : x = st.held \ lost /\ y = st.elems \ lost
      OBVIOUS
    <3>2. m = [st EXCEPT !.held = x, !.elems = y]
      BY <3>1 DEF free_etharp_q
    <3>3. st = [tab |-> st.tab, hint |-> st.hint, held |-> st.held, elems |-> st.elems, out |-> st.out]
      BY <1>1 DEF States
    <3> HIDE DEF m, lost
    <3> QED
      BY <3>1, <3>2, <3>3
  <2>2. r = [m EXCEPT !.tab = [i \in Entries |-> IF i \in S THEN Freed(st.tab[i]) ELSE st.tab[i]]]
    BY DEF free_entry
  <2> HIDE DEF m, r, lost
  <2> QED
    BY <2>1, <2>2
<1> HIDE DEF r, lost
<1>3. \A e \in Entry : /\ Freed(e) \in Entry /\ Freed(e).state = "EMPTY" /\ Freed(e).q = <<>>
  <2> SUFFICES ASSUME NEW e \in Entry
               PROVE  Freed(e) \in Entry /\ Freed(e).state = "EMPTY" /\ Freed(e).q = <<>>
    OBVIOUS
  <2>0. <<>> \in Seq(Nat)
    OBVIOUS
  <2>1. PICK none \in Seq(Nat) : none = <<>>
    BY <2>0, Zenon
  <2>2. Freed(e) = [e EXCEPT !.q = none, !.state = "EMPTY", !.static = FALSE]
    BY <2>1 DEF Freed
  <2>3. [e EXCEPT !.q = none, !.state = "EMPTY", !.static = FALSE] \in Entry
    BY DEF Entry
  <2>4. [e EXCEPT !.q = none, !.state = "EMPTY", !.static = FALSE].state = "EMPTY"
    BY DEF Entry
  <2>5. [e EXCEPT !.q = none, !.state = "EMPTY", !.static = FALSE].q = none
    BY DEF Entry
  <2> QED
    BY <2>1, <2>2, <2>3, <2>4, <2>5
<1>4. /\ \A i \in S : r.tab[i] = Freed(st.tab[i])
      /\ \A i \in Entries \ S : r.tab[i] = st.tab[i]
  BY <1>2
<1>5. r.tab \in Table
  BY <1>1, <1>2, <1>3 DEF Table
<1>6. r \in States
  BY <1>1, <1>2, <1>5, Fields DEF States
<1>7. ASSUME NEW i \in Entries
      PROVE  InUse(r.tab[i], t) /\ QueueFits(r.tab[i], d)
  <2>1. CASE i \in S
    <3>1. r.tab[i].state = "EMPTY" /\ r.tab[i].q = <<>>
      BY <1>1, <1>3, <1>4, <2>1
    <3> QED
      BY <3>1 DEF InUse, QueueFits
  <2>2. CASE i \notin S
    BY <1>1, <1>4, <2>2
  <2> QED
    BY <2>1, <2>2
<1>8. Distinct(r.tab)
  <2>1. \A i \in Entries : r.tab[i].state # "EMPTY" => r.tab[i] = st.tab[i]
    BY <1>1, <1>3, <1>4
  <2> QED
    BY <1>1, <2>1 DEF Distinct
<1>9. HeldFits(r)
  <2>1. Waiting(r.tab, Entries) = Waiting(st.tab, Entries) \ lost
    <3>1. Apart(st.tab)
      BY <1>1, WaitsOnce DEF Apart
    <3>2. NoQueues(r.tab, S)
      BY <1>1, <1>3, <1>4 DEF NoQueues
    <3>3. SameQueues(st.tab, r.tab, Entries \ S)
      BY <1>4 DEF SameQueues
    <3> QED
      BY <3>1, <3>2, <3>3, WaitingLess DEF lost
  <2>2. r.held = Waiting(r.tab, Entries)
    BY <1>1, <1>2, <2>1 DEF HeldFits
  <2>3. r.elems = IF Queueing THEN r.held ELSE {}
    BY <1>1, <1>2 DEF HeldFits
  <2>4. IsFiniteSet(r.elems) /\ Cardinality(r.elems) <= QueueSize
    BY <1>1, <1>2, FewerElements DEF HeldFits
  <2> QED
    BY <2>2, <2>3, <2>4 DEF HeldFits
<1>10. Good(r, t, d)
  BY <1>6, <1>7, <1>8, <1>9 DEF Good
<1> QED
  BY <1>2, <1>4, <1>10 DEF r

(* Entries are freed. *)
LEMMA FreeGood ==
    ASSUME NEW st, NEW t, NEW d, Good(st, t, d), NEW S \in SUBSET Entries
    PROVE  /\ Good(free_entry(st, S), t, d)
           /\ free_entry(st, S).out = st.out
           /\ free_entry(st, S).hint = st.hint
           /\ \A i \in S : free_entry(st, S).tab[i] = Freed(st.tab[i])
           /\ \A i \in Entries \ S : free_entry(st, S).tab[i] = st.tab[i]
<1>1. /\ st \in States /\ Distinct(st.tab) /\ HeldFits(st)
      /\ \A i \in Entries : QueueFits(st.tab[i], d)
      /\ \A i \in Entries \ S : InUse(st.tab[i], t)
  BY DEF Good
<1> QED
  BY <1>1, FreeRest

(* One entry changes, and with it perhaps what the hosts have announced and   *)
(* where packets were to go.                                                  *)
LEMMA PutGood ==
    ASSUME NEW st, NEW t, NEW d, Good(st, t, d), NEW i \in Entries,
           NEW new \in States, NEW t2, NEW d2,
           new.tab = [st.tab EXCEPT ![i] = new.tab[i]],
           InUse(new.tab[i], t2), QueueFits(new.tab[i], d2),
           \A j \in Entries : j # i => InUse(st.tab[j], t2) /\ QueueFits(st.tab[j], d2),
           new.tab[i].state # "EMPTY" =>
              \A j \in Entries : j # i /\ st.tab[j].ip = new.tab[i].ip => st.tab[j].state = "EMPTY",
           new.held = (st.held \ Range(st.tab[i].q)) \cup Range(new.tab[i].q),
           new.elems = IF Queueing THEN new.held ELSE {},
           IsFiniteSet(new.elems), Cardinality(new.elems) <= QueueSize
    PROVE  Good(new, t2, d2)
<1>1. st.tab \in Table /\ Distinct(st.tab) /\ HeldFits(st)
      /\ \A j \in Entries : QueueFits(st.tab[j], d)
  BY Fields DEF Good
<1>2. \A j \in Entries : j # i => new.tab[j] = st.tab[j]
  BY <1>1 DEF Table
<1>3. \A j \in Entries : InUse(new.tab[j], t2) /\ QueueFits(new.tab[j], d2)
  BY <1>2
<1>4. Distinct(new.tab)
  BY <1>1, <1>2 DEF Distinct
<1>5. Waiting(new.tab, Entries) = (Waiting(st.tab, Entries) \ Range(st.tab[i].q)) \cup Range(new.tab[i].q)
  <2>1. Apart(st.tab)
    BY <1>1, WaitsOnce DEF Apart
  <2>2. SameQueues(st.tab, new.tab, Entries \ {i})
    BY <1>2 DEF SameQueues
  <2> QED
    BY <2>1, <2>2, WaitingPut
<1>6. HeldFits(new)
  BY <1>1, <1>5 DEF HeldFits
<1> QED
  BY <1>3, <1>4, <1>6 DEF Good

-----------------------------------------------------------------------------
(* find_entry. *)

(* The parts of a state with another entry. *)
LEMMA PutFields ==
    ASSUME NEW st \in States, NEW i \in Entries, NEW e \in Entry
    PROVE  /\ Put(st, i, e) \in States
           /\ Put(st, i, e).tab = [st.tab EXCEPT ![i] = e] /\ Put(st, i, e).tab[i] = e
           /\ \A j \in Entries : j # i => Put(st, i, e).tab[j] = st.tab[j]
           /\ Put(st, i, e).held = st.held /\ Put(st, i, e).elems = st.elems
           /\ Put(st, i, e).hint = st.hint /\ Put(st, i, e).out = st.out
  BY DEF Put, States, Table

(* An entry that find_entry gives to an address. *)
LEMMA ClaimedEntry ==
    ASSUME NEW e \in Entry, NEW ip \in Nat
    PROVE  /\ Claimed(e, ip) \in Entry
           /\ Claimed(e, ip).state = e.state /\ Claimed(e, ip).q = e.q
           /\ Claimed(e, ip).ip = ip /\ Claimed(e, ip).ctime < MaxAge
<1>1. PICK z \in 0 .. MaxAge : z = 0 /\ z < MaxAge
  BY SizeAssumption
<1>2. Claimed(e, ip) = [e EXCEPT !.ip = ip, !.ctime = z, !.static = FALSE]
  BY <1>1 DEF Claimed
<1> QED
  BY <1>1, <1>2 DEF Entry

(* What find_entry returns for an address: no entry, if there is none for it; *)
(* or the only entry of the address, which is new, if it is empty.            *)
Result(st, ip, t, d, f) ==
  /\ f.i \in Entries \cup {0}
  /\ f.i = 0 => f.st = st /\ Matching(st, ip) = {}
  /\ f.i # 0 =>
       /\ Good(f.st, t, d) /\ f.st.out = st.out
       /\ f.st.tab[f.i].ip = ip /\ f.st.tab[f.i].ctime < MaxAge
       /\ \A j \in Entries : j # f.i /\ f.st.tab[j].ip = ip => f.st.tab[j].state = "EMPTY"

(* An empty entry is given to an address that has none. *)
LEMMA ClaimGood ==
    ASSUME NEW st, NEW t, NEW d, Good(st, t, d), NEW i \in Entries, NEW ip \in Nat,
           st.tab[i].state = "EMPTY", Matching(st, ip) = {}
    PROVE  Result(st, ip, t, d, Claim(st, i, ip))
<1> DEFINE e == Claimed(st.tab[i], ip)
           r == Put(st, i, e)
<1>1. st \in States /\ st.tab[i] \in Entry /\ HeldFits(st)
      /\ \A j \in Entries : InUse(st.tab[j], t) /\ QueueFits(st.tab[j], d)
  BY Fields DEF Good
<1>2. /\ e \in Entry /\ e.state = "EMPTY" /\ e.q = st.tab[i].q /\ e.ip = ip /\ e.ctime < MaxAge
  BY <1>1, ClaimedEntry
<1>3. st.tab[i].q = <<>> /\ Range(st.tab[i].q) = {} /\ e.q = <<>> /\ Range(e.q) = {}
  BY <1>1, <1>2, FreeHasNoQueue
<1> HIDE DEF e
<1>4. /\ r \in States /\ r.tab = [st.tab EXCEPT ![i] = e] /\ r.tab[i] = e
      /\ \A j \in Entries : j # i => r.tab[j] = st.tab[j]
      /\ r.held = st.held /\ r.elems = st.elems /\ r.hint = st.hint /\ r.out = st.out
  BY <1>1, <1>2, PutFields
<1>5. Claim(st, i, ip) = [i |-> i, st |-> r]
  BY DEF Claim, e
<1> HIDE DEF r
<1>6. InUse(e, t) /\ QueueFits(e, d)
  BY <1>2, <1>3 DEF InUse, QueueFits
<1>7. Good(r, t, d)
  <2>1. r.held = (st.held \ Range(st.tab[i].q)) \cup Range(r.tab[i].q)
    BY <1>3, <1>4
  <2>2. r.elems = (IF Queueing THEN r.held ELSE {}) /\ IsFiniteSet(r.elems) /\ Cardinality(r.elems) <= QueueSize
    BY <1>1, <1>4 DEF HeldFits
  <2>3. r.tab = [st.tab EXCEPT ![i] = r.tab[i]] /\ r.tab[i].state = "EMPTY"
    BY <1>2, <1>4
  <2>4. InUse(r.tab[i], t) /\ QueueFits(r.tab[i], d)
    BY <1>4, <1>6
  <2> QED
    BY <1>1, <1>4, <2>1, <2>2, <2>3, <2>4, PutGood
<1>8. \A j \in Entries : j # i /\ r.tab[j].ip = ip => r.tab[j].state = "EMPTY"
  BY <1>4 DEF Matching
<1>9. i \in Entries \cup {0} /\ i # 0
  BY SizeAssumption DEF Entries
<1>10. r.tab[i].ip = ip /\ r.tab[i].ctime < MaxAge /\ r.out = st.out
  BY <1>2, <1>4
<1>11. Claim(st, i, ip).i = i /\ Claim(st, i, ip).st = r
  BY <1>5
<1> QED
  BY <1>7, <1>8, <1>9, <1>10, <1>11 DEF Result

(* find_entry returns the only entry of an address. *)
LEMMA FindGood ==
    ASSUME NEW st, NEW t, NEW d, Good(st, t, d), NEW ip \in Nat, NEW flags
    PROVE  Result(st, ip, t, d, find_entry(st, ip, flags))
<1> DEFINE f == find_entry(st, ip, flags)
           empty == {i \in Entries : st.tab[i].state = "EMPTY"}
           m == Min(Matching(st, ip))
           o == Oldest(st, Evictable(st))
<1> SUFFICES Result(st, ip, t, d, f)
  OBVIOUS
<1>1. st \in States /\ st.tab \in Table /\ Distinct(st.tab)
      /\ \A j \in Entries : st.tab[j] \in Entry /\ InUse(st.tab[j], t) /\ QueueFits(st.tab[j], d)
  BY Fields DEF Good
<1>2. Entries \in SUBSET Nat /\ 0 \notin Entries
  BY SizeAssumption DEF Entries
<1>4. \/ f = [i |-> m, st |-> st] /\ Matching(st, ip) # {}
      \/ f = NoEntry(st) /\ Matching(st, ip) = {}
      \/ f = Claim(st, Min(empty), ip) /\ Matching(st, ip) = {} /\ empty # {}
      \/ f = Claim(free_entry(st, {o}), o, ip) /\ Matching(st, ip) = {} /\ Evictable(st) # {}
  BY DEF find_entry
<1>5. CASE f = [i |-> m, st |-> st] /\ Matching(st, ip) # {}
  <2>1. m \in Matching(st, ip)
    BY <1>2, <1>5, MinIn DEF Matching
  <2>2. m \in Entries /\ st.tab[m].state # "EMPTY" /\ st.tab[m].ip = ip
    BY <2>1 DEF Matching
  <2>3. st.tab[m].ctime < MaxAge
    BY <1>1, <2>2 DEF InUse
  <2>4. \A j \in Entries : j # m /\ st.tab[j].ip = ip => st.tab[j].state = "EMPTY"
    BY <1>1, <2>2 DEF Distinct
  <2>5. f.i = m /\ f.st = st
    BY <1>5
  <2> HIDE DEF f, m
  <2> QED
    BY <1>2, <2>2, <2>3, <2>4, <2>5 DEF Result
<1>6. CASE f = NoEntry(st) /\ Matching(st, ip) = {}
  <2>1. f.i = 0 /\ f.st = st
    BY <1>6 DEF NoEntry
  <2> HIDE DEF f
  <2> QED
    BY <1>6, <2>1 DEF Result
<1>7. CASE f = Claim(st, Min(empty), ip) /\ Matching(st, ip) = {} /\ empty # {}
  <2>1. Min(empty) \in empty
    BY <1>2, <1>7, MinIn
  <2>2. Min(empty) \in Entries /\ st.tab[Min(empty)].state = "EMPTY"
    BY <2>1
  <2> HIDE DEF empty, f
  <2> QED
    BY <1>7, <2>2, ClaimGood
<1>8. CASE f = Claim(free_entry(st, {o}), o, ip) /\ Matching(st, ip) = {} /\ Evictable(st) # {}
  <2>1. Evictable(st) \in SUBSET Entries
    BY DEF Evictable
  <2>2. o \in Entries
    BY <1>1, <1>8, <2>1, OldestIn
  <2> DEFINE g == free_entry(st, {o})
  <2> HIDE DEF f, o
  <2>3. Good(g, t, d) /\ g.out = st.out
    BY <2>2, FreeGood
  <2>4. g.tab[o] = Freed(st.tab[o]) /\ \A j \in Entries \ {o} : g.tab[j] = st.tab[j]
    BY <2>2, FreeGood
  <2>5. g.tab[o].state = "EMPTY"
    BY <1>1, <2>2, <2>4 DEF Freed, Entry
  <2>6. Matching(g, ip) = {}
    BY <1>8, <2>4, <2>5 DEF Matching
  <2> HIDE DEF g
  <2>7. Result(g, ip, t, d, Claim(g, o, ip))
    BY <2>2, <2>3, <2>5, <2>6, ClaimGood
  <2>8. f = Claim(g, o, ip)
    BY <1>8 DEF g
  <2>9. f.i = o
    BY <2>8 DEF Claim
  <2>10. f.i # 0
    BY <1>2, <2>2, <2>9
  <2> QED
    BY <2>3, <2>7, <2>8, <2>10 DEF Result
<1> QED
  BY <1>4, <1>5, <1>6, <1>7, <1>8

-----------------------------------------------------------------------------
(* update_arp_entry. *)

(* The frames of a step are those SentToOwner and InOrder describe. *)
FramesRight(out, tab, t, d) ==
  /\ \A k \in DOMAIN out : out[k].kind = "IP" /\ out[k].ip \in Hosts =>
        out[k].mac = t[out[k].ip] /\ out[k].ip = d[out[k].pkt]
  /\ \A k \in DOMAIN out : out[k].kind = "IP" =>
        /\ \A l \in DOMAIN out : l > k /\ out[l].kind = "IP" /\ out[l].ip = out[k].ip => out[l].pkt > out[k].pkt
        /\ \A i \in Entries : out[k].ip = tab[i].ip => \A n \in DOMAIN tab[i].q : tab[i].q[n] > out[k].pkt

(* A free entry, and a queue that has been sent. *)
LEMMA Emptied ==
    ASSUME NEW e \in Entry
    PROVE  LET r == [e EXCEPT !.q = <<>>]
           IN r \in Entry /\ r.q = <<>> /\ r.state = e.state /\ r.ip = e.ip /\ r.mac = e.mac /\ r.ctime = e.ctime
<1>1. <<>> \in Seq(Nat)
  OBVIOUS
<1>2. PICK none \in Seq(Nat) : none = <<>>
  BY <1>1, Zenon
<1>3. LET r == [e EXCEPT !.q = none]
      IN r \in Entry /\ r.q = none /\ r.state = e.state /\ r.ip = e.ip /\ r.mac = e.mac /\ r.ctime = e.ctime
  BY DEF Entry
<1> QED
  BY <1>2, <1>3

(* A state whose packets pkts have been given back. *)
LEMMA GivenBack ==
    ASSUME NEW st \in States, NEW pkts
    PROVE  /\ free_etharp_q(st, pkts) \in States
           /\ free_etharp_q(st, pkts).tab = st.tab /\ free_etharp_q(st, pkts).hint = st.hint
           /\ free_etharp_q(st, pkts).held = st.held \ pkts /\ free_etharp_q(st, pkts).elems = st.elems \ pkts
           /\ free_etharp_q(st, pkts).out = st.out
<1>1. PICK x, y : x = st.held \ pkts /\ y = st.elems \ pkts
  OBVIOUS
<1>2. free_etharp_q(st, pkts) = [st EXCEPT !.held = x, !.elems = y]
  BY <1>1 DEF free_etharp_q
<1>3. x \in SUBSET Nat /\ y \in SUBSET Nat
  BY <1>1, Fields
<1>4. LET r == [st EXCEPT !.held = x, !.elems = y]
      IN r \in States /\ r.tab = st.tab /\ r.hint = st.hint /\ r.held = x /\ r.elems = y /\ r.out = st.out
  BY <1>3 DEF States
<1> QED
  BY <1>1, <1>2, <1>4

(* A state that has sent other frames. *)
LEMMA OutFields ==
    ASSUME NEW st \in States, NEW o \in Seq(Sent)
    PROVE  LET r == [st EXCEPT !.out = o]
           IN /\ r \in States /\ r.tab = st.tab /\ r.hint = st.hint /\ r.held = st.held /\ r.elems = st.elems
              /\ r.out = o
  BY DEF States

(* Good does not depend on the frames or on the cached index. *)
LEMMA SameTable ==
    ASSUME NEW st, NEW t, NEW d, Good(st, t, d), NEW r \in States,
           r.tab = st.tab, r.held = st.held, r.elems = st.elems
    PROVE  Good(r, t, d)
  BY DEF Good, HeldFits

(* What waits for entry i of st has left in r. *)
QueueLeft(st, i, ip, mac, r) ==
  LET q == st.tab[i].q
  IN /\ r \in States
     /\ r.tab = [st.tab EXCEPT ![i] = [st.tab[i] EXCEPT !.q = <<>>]]
     /\ r.held = st.held \ Range(q) /\ r.elems = st.elems \ Range(q)
     /\ r.out = [k \in DOMAIN q |-> Frame("IP", ip, mac, q[k])]

(* What waits for an entry is sent (update_arp_entry). *)
LEMMA QueueSent ==
    ASSUME NEW st \in States, NEW i \in Entries, NEW ip \in Nat, NEW mac \in Nat, st.out = <<>>
    PROVE  QueueLeft(st, i, ip, mac, SendQueued(st, i, ip, mac))
<1> DEFINE q == st.tab[i].q
           e == [st.tab[i] EXCEPT !.q = <<>>]
           p == Put(st, i, e)
           b == free_etharp_q(p, Range(q))
           fr == [k \in DOMAIN q |-> Frame("IP", ip, mac, q[k])]
<1>1. st.tab[i] \in Entry /\ q \in Seq(Nat)
  BY Fields DEF Entry
<1>2. e \in Entry
  BY <1>1, Emptied
<1>3. /\ p \in States /\ p.tab = [st.tab EXCEPT ![i] = e]
      /\ p.held = st.held /\ p.elems = st.elems /\ p.out = st.out
  <2> HIDE DEF e
  <2> QED
    BY <1>2, PutFields
<1>4. /\ b \in States /\ b.tab = p.tab /\ b.held = p.held \ Range(q) /\ b.elems = p.elems \ Range(q)
      /\ b.out = p.out
  <2> HIDE DEF p, q
  <2> QED
    BY <1>3, GivenBack
<1>5. fr \in Seq(Sent)
  <2>1. \A k \in DOMAIN q : Frame("IP", ip, mac, q[k]) \in Sent
    BY <1>1 DEF Frame, Sent
  <2>2. DOMAIN q = 1 .. Len(q) /\ Len(q) \in Nat
    BY <1>1
  <2> HIDE DEF q
  <2> QED
    BY <2>1, <2>2
<1>6. b.out \o fr = fr
  <2>1. b.out = <<>>
    BY <1>3, <1>4
  <2> HIDE DEF b, fr
  <2> QED
    BY <1>5, <2>1
<1>7. SendQueued(st, i, ip, mac) = [b EXCEPT !.out = fr]
  <2>1. SendQueued(st, i, ip, mac) = [b EXCEPT !.out = b.out \o fr]
    BY DEF SendQueued
  <2> HIDE DEF b, fr
  <2> QED
    BY <1>6, <2>1
<1>8. LET r == [b EXCEPT !.out = fr]
      IN r \in States /\ r.tab = b.tab /\ r.held = b.held /\ r.elems = b.elems /\ r.out = fr
  <2> HIDE DEF b, fr
  <2> QED
    BY <1>4, <1>5, OutFields
<1> HIDE DEF b, p
<1> QED
  BY <1>3, <1>4, <1>7, <1>8 DEF QueueLeft

(* An entry whose host has announced itself. *)
LEMMA SettledEntry ==
    ASSUME NEW e \in Entry, NEW mac \in Nat, NEW flags
    PROVE  LET r == [Settled(e, mac, flags) EXCEPT !.q = <<>>]
           IN /\ Settled(e, mac, flags) \in Entry /\ Settled(e, mac, flags).q = e.q
              /\ r \in Entry /\ r.q = <<>> /\ r.state = "STABLE" /\ r.ip = e.ip /\ r.mac = mac /\ r.ctime < MaxAge
<1>1. PICK z \in 0 .. MaxAge, s \in BOOLEAN : z = 0 /\ z < MaxAge /\ s = (e.static \/ "STATIC" \in flags)
  <2>1. (e.static \/ "STATIC" \in flags) \in BOOLEAN
    OBVIOUS
  <2>2. 0 \in 0 .. MaxAge /\ 0 < MaxAge
    BY SizeAssumption
  <2> QED
    BY <2>1, <2>2, Zenon
<1>2. Settled(e, mac, flags) = [e EXCEPT !.state = "STABLE", !.mac = mac, !.ctime = z, !.static = s]
  BY <1>1 DEF Settled
<1>3. LET m == [e EXCEPT !.state = "STABLE", !.mac = mac, !.ctime = z, !.static = s]
      IN m \in Entry /\ m.q = e.q /\ m.state = "STABLE" /\ m.ip = e.ip /\ m.mac = mac /\ m.ctime = z
  BY DEF Entry
<1> DEFINE m == Settled(e, mac, flags)
<1>4. m \in Entry /\ m.q = e.q /\ m.state = "STABLE" /\ m.ip = e.ip /\ m.mac = mac /\ m.ctime < MaxAge
  BY <1>1, <1>2, <1>3
<1> HIDE DEF m
<1>5. LET r == [m EXCEPT !.q = <<>>]
      IN r \in Entry /\ r.q = <<>> /\ r.state = m.state /\ r.ip = m.ip /\ r.mac = m.mac /\ r.ctime = m.ctime
  BY <1>4, Emptied
<1> QED
  BY <1>4, <1>5 DEF m

(* Other hosts' entries stay right when a host announces itself. *)
LEMMA OthersFit ==
    ASSUME NEW e, NEW t \in [Hosts -> Nat], NEW ip \in Hosts, NEW mac \in Nat, InUse(e, t),
           e.ip = ip => e.state = "EMPTY"
    PROVE  InUse(e, [t EXCEPT ![ip] = mac])
  BY DEF InUse

(* The frames of a queue go to the address that has just been learnt. *)
LEMMA QueueFramesRight ==
    ASSUME NEW e \in Entry, NEW d, QueueFits(e, d), NEW ip \in Hosts, e.ip = ip, NEW mac \in Nat,
           NEW t \in [Hosts -> Nat], t[ip] = mac, NEW tab \in Table,
           \A i \in Entries : tab[i].ip = ip => tab[i].q = <<>>
    PROVE  FramesRight([k \in DOMAIN e.q |-> Frame("IP", ip, mac, e.q[k])], tab, t, d)
<1> DEFINE out == [k \in DOMAIN e.q |-> Frame("IP", ip, mac, e.q[k])]
<1>1. DOMAIN out = DOMAIN e.q
  OBVIOUS
<1>2. \A k \in DOMAIN out : out[k].kind = "IP" /\ out[k].ip = ip /\ out[k].mac = mac /\ out[k].pkt = e.q[k]
  BY DEF Frame
<1>3. \A k \in DOMAIN e.q : d[e.q[k]] = ip
  BY DEF QueueFits
<1>4. \A k, l \in DOMAIN e.q : l > k => e.q[l] > e.q[k]
  <2>1. e.q \in Seq(Nat)
    BY DEF Entry
  <2>2. \A k \in DOMAIN e.q : k \in Nat /\ e.q[k] \in Nat
    BY <2>1
  <2>3. \A k, l \in DOMAIN e.q : k < l => e.q[k] < e.q[l]
    BY DEF QueueFits
  <2> QED
    BY <2>2, <2>3
<1> HIDE DEF out
<1>5. FramesRight(out, tab, t, d)
  <2>1. \A k \in DOMAIN out : out[k].kind = "IP" /\ out[k].ip \in Hosts =>
           out[k].mac = t[out[k].ip] /\ out[k].ip = d[out[k].pkt]
    BY <1>1, <1>2, <1>3
  <2>2. \A k, l \in DOMAIN out : l > k => out[l].pkt > out[k].pkt
    BY <1>1, <1>2, <1>4
  <2>3. \A k \in DOMAIN out : \A i \in Entries : out[k].ip = tab[i].ip => tab[i].q = <<>>
    BY <1>2
  <2> QED
    BY <2>1, <2>2, <2>3 DEF FramesRight
<1> QED
  BY <1>5 DEF out

(* No frames are right. *)
LEMMA NoFrames ==
    ASSUME NEW tab, NEW t, NEW d
    PROVE  FramesRight(<<>>, tab, t, d)
  BY DEF FramesRight

(* A state after a step, and what the hosts have announced after ip has. *)
Right(r, t, d) == Good(r, t, d) /\ FramesRight(r.out, r.tab, t, d)
Heard(t, ip, mac) == [t EXCEPT ![ip] = mac]

(* A host announces itself. *)
LEMMA SettleGood ==
    ASSUME NEW st, NEW t \in [Hosts -> Nat], NEW d, Good(st, t, d), st.out = <<>>, NEW flags,
           NEW ip \in Hosts, NEW mac \in Nat, NEW f, Result(st, ip, t, d, f)
    PROVE  Right(Settle(f, ip, mac, flags), Heard(t, ip, mac), d)
<1> DEFINE r == Settle(f, ip, mac, flags)
           t2 == [t EXCEPT ![ip] = mac]
<1> SUFFICES Good(r, t2, d) /\ FramesRight(r.out, r.tab, t2, d)
  BY DEF Right, Heard
<1>0. t2 \in [Hosts -> Nat] /\ t2[ip] = mac /\ ip \in Nat /\ ~ IsSpecial(ip)
  BY AddressAssumption DEF IsSpecial, IpAny
<1>1. CASE f.i = 0
  <2>1. r = st /\ Matching(st, ip) = {}
    BY <1>1 DEF Settle, Result
  <2>2. ASSUME NEW j \in Entries PROVE InUse(st.tab[j], t2)
    <3>1. InUse(st.tab[j], t) /\ (st.tab[j].ip = ip => st.tab[j].state = "EMPTY")
      BY <2>1 DEF Good, Matching
    <3> QED
      BY <3>1, OthersFit
  <2>3. Good(st, t2, d)
    BY <2>2 DEF Good
  <2> HIDE DEF r, t2
  <2> QED
    BY <2>1, <2>3, NoFrames
<1>2. CASE f.i # 0
  <2> DEFINE i == f.i
             g == f.st
             e == g.tab[i]
             s == Settled(e, mac, flags)
             n == [s EXCEPT !.q = <<>>]
             p == Put(g, i, s)
  <2>1. /\ i \in Entries /\ Good(g, t, d) /\ g.out = <<>> /\ e.ip = ip
        /\ \A j \in Entries : j # i /\ g.tab[j].ip = ip => g.tab[j].state = "EMPTY"
    BY <1>2 DEF Result
  <2>2. r = SendQueued(p, i, ip, mac)
    BY <1>2 DEF Settle
  <2> HIDE DEF r, i, g
  <2>3. /\ g \in States /\ e \in Entry /\ g.tab \in Table /\ HeldFits(g)
        /\ \A j \in Entries : InUse(g.tab[j], t) /\ QueueFits(g.tab[j], d)
    BY <2>1, Fields DEF Good
  <2> HIDE DEF e
  <2>4. /\ s \in Entry /\ s.q = e.q
        /\ n \in Entry /\ n.q = <<>> /\ n.state = "STABLE" /\ n.ip = ip /\ n.mac = mac /\ n.ctime < MaxAge
    BY <2>1, <2>3, SettledEntry
  <2> HIDE DEF s
  <2>5. /\ p \in States /\ p.tab = [g.tab EXCEPT ![i] = s] /\ p.tab[i] = s
        /\ p.held = g.held /\ p.elems = g.elems /\ p.out = <<>>
    BY <2>1, <2>3, <2>4, PutFields
  <2> HIDE DEF p
  <2>6. /\ r \in States /\ r.tab = [p.tab EXCEPT ![i] = [p.tab[i] EXCEPT !.q = <<>>]]
        /\ r.held = p.held \ Range(p.tab[i].q) /\ r.elems = p.elems \ Range(p.tab[i].q)
        /\ r.out = [k \in DOMAIN p.tab[i].q |-> Frame("IP", ip, mac, p.tab[i].q[k])]
    <3>1. QueueLeft(p, i, ip, mac, SendQueued(p, i, ip, mac))
      BY <1>0, <2>1, <2>5, QueueSent
    <3> QED
      BY <2>2, <3>1 DEF QueueLeft
  <2>7. r.held = g.held \ Range(e.q) /\ r.elems = g.elems \ Range(e.q)
        /\ r.out = [k \in DOMAIN e.q |-> Frame("IP", ip, mac, e.q[k])]
    BY <2>4, <2>5, <2>6
  <2>8. r.tab = [p.tab EXCEPT ![i] = n]
    BY <2>5, <2>6
  <2> HIDE DEF n
  <2>9. r.tab = [g.tab EXCEPT ![i] = n] /\ r.tab[i] = n /\ \A j \in Entries : j # i => r.tab[j] = g.tab[j]
    BY <2>1, <2>3, <2>5, <2>8 DEF Table
  <2> HIDE DEF t2
  <2>10. InUse(n, t2) /\ QueueFits(n, d)
    BY <1>0, <2>4 DEF InUse, QueueFits
  <2>11. ASSUME NEW j \in Entries, j # i PROVE InUse(g.tab[j], t2) /\ QueueFits(g.tab[j], d)
    BY <2>1, <2>3, <2>11, OthersFit DEF t2
  <2>12. Range(n.q) = {}
    BY <2>4 DEF Range
  <2>13. r.held = (g.held \ Range(g.tab[i].q)) \cup Range(r.tab[i].q)
    BY <2>7, <2>9, <2>12 DEF e
  <2>14. r.elems = (IF Queueing THEN r.held ELSE {}) /\ IsFiniteSet(r.elems) /\ Cardinality(r.elems) <= QueueSize
    <3>1. r.elems = (IF Queueing THEN r.held ELSE {}) /\ r.elems \subseteq g.elems
      BY <2>3, <2>7 DEF HeldFits
    <3>2. IsFiniteSet(g.elems) /\ Cardinality(g.elems) <= QueueSize
      BY <2>3 DEF HeldFits
    <3> QED
      BY <3>1, <3>2, FewerElements
  <2>15. Good(r, t2, d)
    <3>1. r.tab = [g.tab EXCEPT ![i] = r.tab[i]] /\ InUse(r.tab[i], t2) /\ QueueFits(r.tab[i], d)
      BY <2>9, <2>10
    <3>2. \A j \in Entries : j # i /\ g.tab[j].ip = r.tab[i].ip => g.tab[j].state = "EMPTY"
      BY <2>1, <2>4, <2>9
    <3> QED
      BY <2>1, <2>6, <2>11, <2>13, <2>14, <3>1, <3>2, PutGood
  <2>16. \A j \in Entries : r.tab[j].ip = ip => r.tab[j].q = <<>>
    <3>1. \A j \in Entries : j # i /\ g.tab[j].ip = ip => g.tab[j].q = <<>>
      BY <2>1, <2>3 DEF QueueFits
    <3> QED
      BY <2>4, <2>9, <3>1
  <2>17. FramesRight(r.out, r.tab, t2, d)
    <3>1. QueueFits(e, d) /\ e.ip = ip /\ r.tab \in Table
      BY <2>1, <2>3, <2>6, Fields DEF e
    <3> QED
      BY <1>0, <2>3, <2>7, <2>16, <3>1, QueueFramesRight
  <2> QED
    BY <2>15, <2>17
<1> QED
  BY <1>1, <1>2

(* update_arp_entry. *)
LEMMA UpdateGood ==
    ASSUME NEW st, NEW t \in [Hosts -> Nat], NEW d, Good(st, t, d), st.out = <<>>, NEW flags,
           NEW ip \in Hosts, NEW mac \in Nat
    PROVE  Right(update_arp_entry(st, ip, mac, flags), Heard(t, ip, mac), d)
<1>1. ~ IsSpecial(ip) /\ ip \in Nat
  BY AddressAssumption DEF IsSpecial, IpAny
<1>2. Result(st, ip, t, d, find_entry(st, ip, flags))
  BY <1>1, FindGood
<1>3. update_arp_entry(st, ip, mac, flags) = Settle(find_entry(st, ip, flags), ip, mac, flags)
  BY <1>1 DEF update_arp_entry
<1> QED
  BY <1>2, <1>3, SettleGood

-----------------------------------------------------------------------------
(* etharp_query and etharp_output. *)

(* One more packet has been passed to etharp_output. *)
LEMMA LaterPackets ==
    ASSUME NEW st, NEW t, NEW d \in Seq(Nat), Good(st, t, d), NEW x \in Nat
    PROVE  Good(st, t, Append(d, x))
<1>1. /\ DOMAIN d \subseteq DOMAIN Append(d, x)
      /\ \A k \in DOMAIN d : Append(d, x)[k] = d[k]
  OBVIOUS
<1>2. \A i \in Entries : QueueFits(st.tab[i], d)
  BY DEF Good
<1>3. ASSUME NEW i \in Entries PROVE QueueFits(st.tab[i], Append(d, x))
  <2> DEFINE d2 == Append(d, x)
  <2> HIDE DEF d2
  <2> QED
    BY <1>1, <1>2 DEF QueueFits, d2
<1> QED
  BY <1>3 DEF Good

(* Frames that carry no IP packet. *)
LEMMA OnlyRequests ==
    ASSUME NEW out, NEW tab, NEW t, NEW d, \A k \in DOMAIN out : out[k].kind # "IP"
    PROVE  FramesRight(out, tab, t, d)
  BY DEF FramesRight

(* One packet leaves. *)
LEMMA OnePacket ==
    ASSUME NEW tab, NEW t, NEW d, NEW ip, NEW mac, NEW pkt,
           ip \in Hosts => mac = t[ip] /\ d[pkt] = ip,
           \A i \in Entries : tab[i].ip = ip => tab[i].q = <<>>
    PROVE  FramesRight(<<Frame("IP", ip, mac, pkt)>>, tab, t, d)
<1> DEFINE out == <<Frame("IP", ip, mac, pkt)>>
<1>1. DOMAIN out = {1} /\ out[1].kind = "IP" /\ out[1].ip = ip /\ out[1].mac = mac /\ out[1].pkt = pkt
  BY DEF Frame
<1>2. \A k, l \in {1} : ~ (l > k)
  OBVIOUS
<1> HIDE DEF out
<1>3. FramesRight(out, tab, t, d)
  BY <1>1, <1>2 DEF FramesRight
<1> QED
  BY <1>3 DEF out

(* A packet leaves for the address of an entry that is stable. *)
LEMMA DirectGood ==
    ASSUME NEW st, NEW t, NEW d, Good(st, t, d), st.out = <<>>, NEW i \in Entries,
           st.tab[i].state = "STABLE", NEW pkt \in Nat, st.tab[i].ip \in Hosts => d[pkt] = st.tab[i].ip
    PROVE  Right(etharp_send_ip(st, st.tab[i].ip, st.tab[i].mac, pkt), t, d)
<1> DEFINE ip == st.tab[i].ip
           mac == st.tab[i].mac
           fr == Frame("IP", ip, mac, pkt)
           r == etharp_send_ip(st, ip, mac, pkt)
<1>1. /\ st \in States /\ st.tab[i] \in Entry /\ Distinct(st.tab)
      /\ \A j \in Entries : InUse(st.tab[j], t) /\ QueueFits(st.tab[j], d)
  BY Fields DEF Good
<1>2. ip \in Nat /\ mac \in Nat
  BY <1>1 DEF Entry
<1>3. ip \in Hosts => mac = t[ip] /\ d[pkt] = ip
  BY <1>1 DEF InUse
<1>4. \A j \in Entries : st.tab[j].ip = ip => st.tab[j].q = <<>>
  <2>1. \A j \in Entries : st.tab[j].ip = ip => j = i \/ st.tab[j].state = "EMPTY"
    BY <1>1 DEF Distinct
  <2> QED
    BY <1>1, <2>1 DEF QueueFits
<1> HIDE DEF ip, mac
<1>5. fr \in Sent
  BY <1>2 DEF Frame, Sent
<1>6. r = [st EXCEPT !.out = <<fr>>]
  <2>1. r = [st EXCEPT !.out = Append(st.out, fr)]
    BY DEF etharp_send_ip
  <2>2. Append(<<>>, fr) = <<fr>>
    OBVIOUS
  <2> QED
    BY <2>1, <2>2
<1>7. <<fr>> \in Seq(Sent)
  BY <1>5
<1> HIDE DEF r, fr
<1>8. r \in States /\ r.tab = st.tab /\ r.held = st.held /\ r.elems = st.elems /\ r.out = <<fr>>
  BY <1>1, <1>6, <1>7, OutFields
<1>9. Good(r, t, d)
  BY <1>8, SameTable
<1>10. FramesRight(r.out, r.tab, t, d)
  BY <1>3, <1>4, <1>8, OnePacket DEF fr
<1>11. Right(r, t, d)
  BY <1>9, <1>10 DEF Right
<1> QED
  BY <1>11 DEF r, ip, mac

(* A sequence with one more element. *)
LEMMA Appended ==
    ASSUME NEW s \in Seq(Nat), NEW x \in Nat
    PROVE  /\ Append(s, x) \in Seq(Nat) /\ Len(s) \in Nat /\ DOMAIN s = 1 .. Len(s)
           /\ DOMAIN Append(s, x) = 1 .. Len(s) + 1
           /\ Append(s, x)[Len(s) + 1] = x /\ \A k \in DOMAIN s : Append(s, x)[k] = s[k]
  OBVIOUS

(* A packet waits for an entry that is pending: it is the latest of all. *)
LEMMA EnqueueGood ==
    ASSUME NEW st, NEW t, NEW d \in Seq(Nat), Good(st, t, d), NEW i \in Entries, st.tab[i].state = "PENDING"
    PROVE  /\ Good(Enqueue(st, i, Len(d) + 1), t, Append(d, st.tab[i].ip))
           /\ Enqueue(st, i, Len(d) + 1).out = st.out
<1> DEFINE e == st.tab[i]
           ip == e.ip
           pkt == Len(d) + 1
           d2 == Append(d, ip)
           r == Enqueue(st, i, pkt)
<1> SUFFICES Good(r, t, d2) /\ r.out = st.out
  OBVIOUS
<1>1. /\ st \in States /\ e \in Entry /\ Distinct(st.tab) /\ HeldFits(st) /\ st.tab \in Table
      /\ \A j \in Entries : InUse(st.tab[j], t) /\ QueueFits(st.tab[j], d)
  BY Fields DEF Good
<1>2. ip \in Nat /\ e.q \in Seq(Nat) /\ pkt \in Nat /\ InUse(e, t) /\ QueueFits(e, d)
  BY <1>1 DEF Entry
<1>3. Good(st, t, d2)
  BY <1>2, LaterPackets
<1>4. pkt \in DOMAIN d2 /\ d2[pkt] = ip /\ \A k \in DOMAIN d : k < pkt
  BY <1>2
<1>5. QueueFits(e, d2) /\ \A j \in Entries : InUse(st.tab[j], t) /\ QueueFits(st.tab[j], d2)
  BY <1>3 DEF Good
<1>6. \A j \in Entries : j # i /\ st.tab[j].ip = ip => st.tab[j].state = "EMPTY"
  BY <1>1 DEF Distinct
<1>7. \A k \in DOMAIN e.q : e.q[k] < pkt
  BY <1>2, <1>4 DEF QueueFits
<1>8. Range(e.q) \subseteq st.held
  BY <1>1 DEF HeldFits, Waiting
<1> HIDE DEF d2, pkt, ip
<1>9. ASSUME NEW q \in Seq(Nat), QueueFits([e EXCEPT !.q = q], d2), NEW h, h = (st.held \ Range(e.q)) \cup Range(q),
             NEW m, m = (IF Queueing THEN h ELSE {}), IsFiniteSet(m), Cardinality(m) <= QueueSize,
             NEW x \in States, x.tab = Put(st, i, [e EXCEPT !.q = q]).tab, x.held = h, x.elems = m
      PROVE  Good(x, t, d2)
  <2> DEFINE n == [e EXCEPT !.q = q]
  <2>1. n \in Entry /\ n.state = e.state /\ n.ip = e.ip /\ n.mac = e.mac /\ n.ctime = e.ctime /\ n.q = q
    BY <1>1 DEF Entry
  <2> HIDE DEF n
  <2>2. Put(st, i, n).tab = [st.tab EXCEPT ![i] = n] /\ Put(st, i, n).tab[i] = n
    BY <1>1, <2>1, PutFields
  <2>3. x.tab = [st.tab EXCEPT ![i] = n] /\ x.tab[i] = n
    BY <1>9, <2>2 DEF n
  <2>4. InUse(n, t) /\ QueueFits(n, d2)
    BY <1>2, <1>9, <2>1 DEF InUse, n
  <2>5. x.tab = [st.tab EXCEPT ![i] = x.tab[i]] /\ InUse(x.tab[i], t) /\ QueueFits(x.tab[i], d2)
    BY <2>3, <2>4
  <2>6. x.held = (st.held \ Range(st.tab[i].q)) \cup Range(x.tab[i].q)
        /\ x.elems = (IF Queueing THEN x.held ELSE {}) /\ IsFiniteSet(x.elems) /\ Cardinality(x.elems) <= QueueSize
    BY <1>9, <2>1, <2>3
  <2>7. \A j \in Entries : j # i /\ st.tab[j].ip = x.tab[i].ip => st.tab[j].state = "EMPTY"
    BY <1>6, <2>1, <2>3 DEF ip
  <2> QED
    BY <1>3, <1>5, <1>9, <2>5, <2>6, <2>7, PutGood
<1>10. ASSUME NEW q \in Seq(Nat)
       PROVE  LET n == [e EXCEPT !.q = q] IN
              /\ n \in Entry /\ Put(st, i, n) \in States /\ Put(st, i, n).held = st.held
              /\ Put(st, i, n).elems = st.elems /\ Put(st, i, n).out = st.out
              /\ n.q = q /\ n.state = "PENDING" /\ n.ip = ip
  <2> DEFINE n == [e EXCEPT !.q = q]
  <2>1. n \in Entry /\ n.q = q /\ n.state = e.state /\ n.ip = e.ip
    BY <1>1 DEF Entry
  <2> HIDE DEF n
  <2>2. /\ Put(st, i, n) \in States /\ Put(st, i, n).held = st.held
        /\ Put(st, i, n).elems = st.elems /\ Put(st, i, n).out = st.out
    BY <1>1, <2>1, PutFields
  <2> QED
    BY <2>1, <2>2 DEF n, ip
<1>11. CASE Queueing /\ Cardinality(st.elems) = QueueSize
  BY <1>3, <1>11 DEF Enqueue
<1>12. CASE Queueing /\ Cardinality(st.elems) # QueueSize
  <2> DEFINE q == Append(e.q, pkt)
             n == [e EXCEPT !.q = q]
             p == Put(st, i, n)
             h == st.held \cup {pkt}
             m == st.elems \cup {pkt}
  <2>1. q \in Seq(Nat)
    BY <1>2
  <2>2. p \in States /\ p.out = st.out /\ p.held = st.held /\ p.elems = st.elems
        /\ n.q = q /\ n.state = "PENDING" /\ n.ip = ip
    BY <1>10, <2>1
  <2>3. r = [p EXCEPT !.held = h, !.elems = m]
    BY <1>12, <2>2 DEF Enqueue
  <2>4. h \in SUBSET Nat /\ m \in SUBSET Nat
    BY <1>1, <1>2, Fields
  <2>5. r \in States /\ r.tab = p.tab /\ r.held = h /\ r.elems = m /\ r.out = st.out
    <3> HIDE DEF p, h, m, r
    <3> QED
      BY <2>2, <2>3, <2>4 DEF States
  <2>6. Range(q) = Range(e.q) \cup {pkt}
    <3>1. DOMAIN q = 1 .. Len(e.q) + 1 /\ DOMAIN e.q = 1 .. Len(e.q) /\ Len(e.q) \in Nat
          /\ q[Len(e.q) + 1] = pkt /\ \A k \in DOMAIN e.q : q[k] = e.q[k]
      BY <1>2, Appended
    <3> HIDE DEF q
    <3>2. DOMAIN q = DOMAIN e.q \cup {Len(e.q) + 1}
      BY <3>1, SMTT(30)
    <3> QED
      BY <3>1, <3>2, SMTT(30) DEF Range
  <2>7. h = (st.held \ Range(e.q)) \cup Range(q)
    BY <1>8, <2>6
  <2>8. st.elems = st.held
    BY <1>1, <1>12 DEF HeldFits
  <2>9. m = (IF Queueing THEN h ELSE {})
    BY <1>12, <2>8
  <2>10. IsFiniteSet(m) /\ Cardinality(m) <= QueueSize
    <3>1. IsFiniteSet(st.elems) /\ Cardinality(st.elems) <= QueueSize
      BY <1>1 DEF HeldFits
    <3>2. IsFiniteSet(m) /\ (Cardinality(m) = Cardinality(st.elems) \/ Cardinality(m) = Cardinality(st.elems) + 1)
      BY <3>1, FS_AddElement
    <3>3. Cardinality(st.elems) \in Nat /\ QueueSize \in Nat
      BY <3>1, FS_CardinalityType, SizeAssumption
    <3> HIDE DEF m
    <3> QED
      BY <1>12, <3>1, <3>2, <3>3
  <2>11. QueueFits(n, d2)
    <3>1. DOMAIN q = 1 .. Len(e.q) + 1 /\ DOMAIN e.q = 1 .. Len(e.q) /\ Len(e.q) \in Nat
          /\ q[Len(e.q) + 1] = pkt /\ \A k \in DOMAIN e.q : q[k] = e.q[k]
      BY <1>2, Appended
    <3>2. /\ \A k \in DOMAIN e.q : e.q[k] \in DOMAIN d2 /\ d2[e.q[k]] = ip
          /\ \A k, l \in DOMAIN e.q : k < l => e.q[k] < e.q[l]
      BY <1>5 DEF QueueFits, ip
    <3> HIDE DEF q, n
    <3>3. \A k \in DOMAIN q : k \in DOMAIN e.q \/ k = Len(e.q) + 1
      BY <3>1
    <3>4. \A k \in DOMAIN q : q[k] \in DOMAIN d2 /\ d2[q[k]] = ip
      BY <1>4, <3>1, <3>2, <3>3 DEF d2
    <3>5. ASSUME NEW k \in DOMAIN q, NEW l \in DOMAIN q, k < l PROVE q[k] < q[l]
      <4>1. k \in DOMAIN e.q
        BY <3>1, <3>5
      <4>2. CASE l \in DOMAIN e.q
        BY <3>1, <3>2, <3>5, <4>1, <4>2
      <4>3. CASE l = Len(e.q) + 1
        BY <1>7, <3>1, <4>1, <4>3
      <4> QED
        BY <3>3, <4>2, <4>3
    <3> QED
      BY <2>2, <3>4, <3>5 DEF QueueFits
  <2> HIDE DEF r, h, m, q
  <2>12. Good(r, t, d2)
    BY <1>9, <2>1, <2>5, <2>7, <2>9, <2>10, <2>11
  <2> QED
    BY <2>5, <2>12
<1>13. CASE ~ Queueing
  <2> DEFINE q == <<pkt>>
             n == [e EXCEPT !.q = q]
             p == Put(st, i, n)
             h == (st.held \ Range(e.q)) \cup {pkt}
  <2>1. q \in Seq(Nat) /\ DOMAIN q = {1} /\ q[1] = pkt
    BY <1>2
  <2>2. p \in States /\ p.out = st.out /\ p.held = st.held /\ p.elems = st.elems
        /\ n.q = q /\ n.state = "PENDING" /\ n.ip = ip
    BY <1>10, <2>1
  <2>3. r = [p EXCEPT !.held = h]
    BY <1>13, <2>2 DEF Enqueue
  <2>4. h \in SUBSET Nat
    BY <1>1, <1>2, Fields
  <2>5. r \in States /\ r.tab = p.tab /\ r.held = h /\ r.elems = st.elems /\ r.out = st.out
    <3> HIDE DEF p, h, r
    <3> QED
      BY <2>2, <2>3, <2>4 DEF States
  <2> HIDE DEF q
  <2>6. Range(q) = {pkt}
    BY <2>1 DEF Range
  <2>7. h = (st.held \ Range(e.q)) \cup Range(q)
    BY <2>6
  <2>8. st.elems = {} /\ st.elems = (IF Queueing THEN h ELSE {}) /\ IsFiniteSet(st.elems)
        /\ Cardinality(st.elems) <= QueueSize
    BY <1>1, <1>13 DEF HeldFits
  <2>9. QueueFits(n, d2)
    <3>1. \A k \in DOMAIN q : q[k] \in DOMAIN d2 /\ d2[q[k]] = ip
      BY <1>4, <2>1 DEF d2
    <3>2. \A k, l \in DOMAIN q : ~ (k < l)
      BY <2>1
    <3> HIDE DEF n
    <3> QED
      BY <2>2, <3>1, <3>2 DEF QueueFits
  <2> HIDE DEF r, h
  <2>10. Good(r, t, d2)
    BY <1>9, <2>1, <2>5, <2>7, <2>8, <2>9
  <2> QED
    BY <2>5, <2>10
<1> QED
  BY <1>11, <1>12, <1>13

(* The entry find_entry has returned is pending or stable. *)
LEMMA PendGood ==
    ASSUME NEW st, NEW t, NEW d, Good(st, t, d), NEW i \in Entries, ~ IsSpecial(st.tab[i].ip),
           st.tab[i].ctime < MaxAge,
           \A j \in Entries : j # i /\ st.tab[j].ip = st.tab[i].ip => st.tab[j].state = "EMPTY"
    PROVE  /\ Good(Pend(st, i), t, d) /\ Pend(st, i).out = st.out
           /\ Pend(st, i).tab[i].ip = st.tab[i].ip /\ Pend(st, i).tab[i].state \in {"PENDING", "STABLE"}
<1> DEFINE e == st.tab[i]
           n == [e EXCEPT !.state = "PENDING"]
           r == Put(st, i, n)
<1>1. /\ st \in States /\ e \in Entry /\ HeldFits(st)
      /\ \A j \in Entries : InUse(st.tab[j], t) /\ QueueFits(st.tab[j], d)
  BY Fields DEF Good
<1>2. CASE e.state # "EMPTY"
  <2>1. Pend(st, i) = st
    BY <1>2 DEF Pend
  <2>2. e.state \in {"PENDING", "STABLE"}
    BY <1>1, <1>2 DEF Entry
  <2> QED
    BY <2>1, <2>2
<1>3. CASE e.state = "EMPTY"
  <2>1. Pend(st, i) = r
    BY <1>3 DEF Pend
  <2>2. n \in Entry /\ n.state = "PENDING" /\ n.ip = e.ip /\ n.q = e.q /\ n.ctime = e.ctime
    BY <1>1 DEF Entry
  <2>3. e.q = <<>> /\ Range(e.q) = {}
    BY <1>1, <1>3, FreeHasNoQueue
  <2>4. InUse(n, t) /\ QueueFits(n, d)
    <3> HIDE DEF n
    <3> QED
      BY <2>2, <2>3 DEF InUse, QueueFits
  <2> HIDE DEF n
  <2>5. /\ r \in States /\ r.tab = [st.tab EXCEPT ![i] = n] /\ r.tab[i] = n
        /\ r.held = st.held /\ r.elems = st.elems /\ r.out = st.out
    BY <1>1, <2>2, PutFields
  <2> HIDE DEF r
  <2>6. r.tab = [st.tab EXCEPT ![i] = r.tab[i]] /\ InUse(r.tab[i], t) /\ QueueFits(r.tab[i], d)
    BY <2>4, <2>5
  <2>7. r.held = (st.held \ Range(st.tab[i].q)) \cup Range(r.tab[i].q)
        /\ r.elems = (IF Queueing THEN r.held ELSE {}) /\ IsFiniteSet(r.elems) /\ Cardinality(r.elems) <= QueueSize
    BY <1>1, <2>2, <2>3, <2>5 DEF HeldFits
  <2>8. \A j \in Entries : j # i /\ st.tab[j].ip = r.tab[i].ip => st.tab[j].state = "EMPTY"
    BY <2>2, <2>5
  <2>9. Good(r, t, d)
    BY <1>1, <2>5, <2>6, <2>7, <2>8, PutGood
  <2> QED
    BY <2>1, <2>2, <2>5, <2>9
<1> QED
  BY <1>2, <1>3

(* Where packets were to go after one more, pkt, was passed for ip; a query   *)
(* without a packet, pkt being 0, counts as one for no address.               *)
Passed(d, ip, pkt) == Append(d, IF pkt = 0 THEN IpAny ELSE ip)

(* The request etharp_query may send changes no more than the frames. *)
LEMMA RequestFields ==
    ASSUME NEW st \in States, st.out = <<>>, NEW ip \in Nat, NEW mem
    PROVE  LET r == etharp_request(st, ip, mem)
           IN /\ r \in States /\ r.tab = st.tab /\ r.held = st.held /\ r.elems = st.elems
              /\ \A k \in DOMAIN r.out : r.out[k].kind # "IP"
<1> DEFINE fr == Frame("REQUEST", ip, Broadcast, 0)
           r == etharp_request(st, ip, mem)
<1>1. fr \in Sent /\ fr.kind # "IP"
  BY AddressAssumption DEF Frame, Sent
<1>2. CASE mem
  <2>1. r = [st EXCEPT !.out = Append(st.out, fr)]
    BY <1>2 DEF etharp_request, etharp_raw
  <2> HIDE DEF fr, r
  <2>2. Append(st.out, fr) = <<fr>> /\ <<fr>> \in Seq(Sent) /\ DOMAIN <<fr>> = {1} /\ <<fr>>[1] = fr
    BY <1>1
  <2>3. r \in States /\ r.tab = st.tab /\ r.held = st.held /\ r.elems = st.elems /\ r.out = <<fr>>
    BY <2>1, <2>2, OutFields
  <2>4. \A k \in DOMAIN r.out : r.out[k].kind # "IP"
    BY <1>1, <2>2, <2>3
  <2> QED
    BY <2>3, <2>4 DEF r
<1>3. CASE ~ mem
  <2>1. r = st
    BY <1>3 DEF etharp_request, etharp_raw
  <2> QED
    BY <2>1
<1> QED
  BY <1>2, <1>3

(* The cached index is set. *)
LEMMA HintGood ==
    ASSUME NEW st, NEW t, NEW d, Good(st, t, d), NEW i \in Entries
    PROVE  /\ Good([st EXCEPT !.hint = i], t, d)
           /\ [st EXCEPT !.hint = i].tab = st.tab /\ [st EXCEPT !.hint = i].out = st.out
<1> DEFINE r == [st EXCEPT !.hint = i]
<1>1. r \in States /\ r.tab = st.tab /\ r.held = st.held /\ r.elems = st.elems /\ r.out = st.out
  BY DEF Good, States
<1> HIDE DEF r
<1>2. Good(r, t, d)
  BY <1>1, SameTable
<1> QED
  BY <1>1, <1>2 DEF r

(* The packet of a query is sent, waits, or is dropped. *)
LEMMA QuerySendGood ==
    ASSUME NEW st, NEW t, NEW d \in Seq(Nat), Good(st, t, d), NEW i \in Entries, NEW memC,
           st.tab[i].state \in {"PENDING", "STABLE"},
           st.tab[i].state = "STABLE" => st.out = <<>>,
           \A k \in DOMAIN st.out : st.out[k].kind # "IP"
    PROVE  Right(QuerySend(st, i, st.tab[i].ip, Len(d) + 1, memC), t, Append(d, st.tab[i].ip))
<1> DEFINE ip == st.tab[i].ip
           pkt == Len(d) + 1
           d2 == Append(d, ip)
           r == QuerySend(st, i, ip, pkt, memC)
<1> SUFFICES Right(r, t, d2)
  OBVIOUS
<1>1. st.tab[i] \in Entry /\ ip \in Nat
  BY Fields DEF Good, Entry
<1>2. Good(st, t, d2)
  BY <1>1, LaterPackets
<1>3. d2[pkt] = ip /\ pkt \in Nat
  BY <1>1, Appended
<1>4. CASE st.tab[i].state = "STABLE"
  <2> DEFINE h == [st EXCEPT !.hint = i]
  <2>1. r = etharp_send_ip(h, ip, st.tab[i].mac, pkt)
    BY <1>4 DEF QuerySend
  <2>2. Good(h, t, d2) /\ h.tab = st.tab /\ h.out = <<>>
    BY <1>2, <1>4, HintGood
  <2> HIDE DEF h, d2, r
  <2>3. Right(etharp_send_ip(h, h.tab[i].ip, h.tab[i].mac, pkt), t, d2)
    BY <1>3, <1>4, <2>2, DirectGood
  <2> QED
    BY <2>1, <2>2, <2>3
<1>5. CASE st.tab[i].state = "PENDING"
  <2>1. r = IF memC THEN Enqueue(st, i, pkt) ELSE st
    BY <1>5 DEF QuerySend
  <2>2. Good(Enqueue(st, i, pkt), t, d2) /\ Enqueue(st, i, pkt).out = st.out
    BY <1>5, EnqueueGood
  <2>3. Good(r, t, d2) /\ r.out = st.out
    BY <1>2, <2>1, <2>2
  <2> HIDE DEF r, d2
  <2> QED
    BY <2>3, OnlyRequests DEF Right
<1> QED
  BY <1>4, <1>5

(* etharp_query for an entry of the address. *)
LEMMA QueryFoundGood ==
    ASSUME NEW st, NEW t, NEW d \in Seq(Nat), Good(st, t, d), st.out = <<>>, NEW i \in Entries,
           st.tab[i].state \in {"PENDING", "STABLE"}, NEW ip \in Nat, st.tab[i].ip = ip,
           NEW pkt \in {0, Len(d) + 1}, NEW memR, NEW memC
    PROVE  Right(QueryFound(st, i, ip, pkt, memR, memC), t, Passed(d, ip, pkt))
<1> DEFINE req == etharp_request(st, ip, memR)
           asked == IF st.tab[i].state = "PENDING" \/ pkt = 0 THEN req ELSE st
           r == QueryFound(st, i, ip, pkt, memR, memC)
<1>1. r = IF pkt = 0 THEN asked ELSE QuerySend(asked, i, ip, pkt, memC)
  BY DEF QueryFound
<1> HIDE DEF r
<1>2. st \in States
  BY DEF Good
<1>3. /\ req \in States /\ req.tab = st.tab /\ req.held = st.held /\ req.elems = st.elems
      /\ \A k \in DOMAIN req.out : req.out[k].kind # "IP"
  BY <1>2, RequestFields
<1> HIDE DEF req
<1>4. \A k \in DOMAIN st.out : st.out[k].kind # "IP"
  OBVIOUS
<1>5. /\ asked \in States /\ asked.tab = st.tab /\ asked.held = st.held /\ asked.elems = st.elems
      /\ \A k \in DOMAIN asked.out : asked.out[k].kind # "IP"
  BY <1>2, <1>3, <1>4
<1>6. pkt # 0 /\ st.tab[i].state = "STABLE" => asked.out = <<>>
  OBVIOUS
<1> HIDE DEF asked
<1>7. Good(asked, t, d)
  BY <1>5, SameTable
<1>8. CASE pkt = 0
  <2>1. r = asked /\ Passed(d, ip, pkt) = Append(d, IpAny)
    BY <1>1, <1>8 DEF Passed
  <2>2. Good(asked, t, Append(d, IpAny))
    BY <1>7, LaterPackets DEF IpAny
  <2> QED
    BY <1>5, <2>1, <2>2, OnlyRequests DEF Right, r
<1>9. CASE pkt # 0
  <2>1. r = QuerySend(asked, i, ip, Len(d) + 1, memC) /\ Passed(d, ip, pkt) = Append(d, ip)
    BY <1>1, <1>9 DEF Passed
  <2>2. Right(QuerySend(asked, i, asked.tab[i].ip, Len(d) + 1, memC), t, Append(d, asked.tab[i].ip))
    BY <1>5, <1>6, <1>7, <1>9, QuerySendGood
  <2> QED
    BY <1>5, <2>1, <2>2 DEF r
<1> QED
  BY <1>8, <1>9

(* etharp_query. *)
LEMMA QueryGood ==
    ASSUME NEW st, NEW t, NEW d \in Seq(Nat), Good(st, t, d), st.out = <<>>, NEW ip \in Nat,
           NEW pkt \in {0, Len(d) + 1}, NEW memR, NEW memC
    PROVE  Right(etharp_query(st, ip, pkt, memR, memC), t, Passed(d, ip, pkt))
<1> DEFINE r == etharp_query(st, ip, pkt, memR, memC)
           f == find_entry(st, ip, {"TRY_HARD"})
           d2 == Passed(d, ip, pkt)
<1>1. Right(st, t, d2)
  <2>1. (IF pkt = 0 THEN IpAny ELSE ip) \in Nat
    BY DEF IpAny
  <2>2. Good(st, t, d2)
    BY <2>1, LaterPackets DEF Passed
  <2> HIDE DEF d2
  <2> QED
    BY <2>2, NoFrames DEF Right
<1>2. CASE IsSpecial(ip)
  <2>1. r = st
    BY <1>2 DEF etharp_query
  <2> QED
    BY <1>1, <2>1
<1>3. CASE ~ IsSpecial(ip)
  <2>1. r = Queried(f, ip, pkt, memR, memC)
    BY <1>3 DEF etharp_query
  <2>2. Result(st, ip, t, d, f)
    BY FindGood
  <2> HIDE DEF f, r
  <2>3. CASE f.i = 0
    <3>1. r = st
      BY <2>1, <2>2, <2>3 DEF Queried, Result
    <3> QED
      BY <1>1, <3>1 DEF r
  <2>4. CASE f.i # 0
    <3> DEFINE i == f.i
               g == f.st
               p == Pend(g, i)
    <3>1. /\ i \in Entries /\ Good(g, t, d) /\ g.out = <<>> /\ g.tab[i].ip = ip /\ g.tab[i].ctime < MaxAge
          /\ \A j \in Entries : j # i /\ g.tab[j].ip = ip => g.tab[j].state = "EMPTY"
      BY <2>2, <2>4 DEF Result
    <3>2. r = QueryFound(p, i, ip, pkt, memR, memC)
      BY <2>1, <2>4 DEF Queried
    <3> HIDE DEF g, i
    <3>3. /\ Good(p, t, d) /\ p.out = <<>> /\ p.tab[i].ip = ip /\ p.tab[i].state \in {"PENDING", "STABLE"}
      BY <1>3, <3>1, PendGood
    <3> HIDE DEF p
    <3> QED
      BY <3>1, <3>2, <3>3, QueryFoundGood DEF r
  <2> QED
    BY <2>3, <2>4
<1> QED
  BY <1>2, <1>3

(* A packet leaves for a group or for everyone. *)
LEMMA GroupGood ==
    ASSUME NEW st, NEW t, NEW d, Good(st, t, d), st.out = <<>>, NEW ip \in Nat, IsSpecial(ip), NEW mac \in Nat,
           NEW pkt \in Nat
    PROVE  Right(etharp_send_ip(st, ip, mac, pkt), t, d)
<1> DEFINE fr == Frame("IP", ip, mac, pkt)
           r == etharp_send_ip(st, ip, mac, pkt)
<1>1. st \in States /\ \A j \in Entries : InUse(st.tab[j], t) /\ QueueFits(st.tab[j], d)
  BY DEF Good
<1>2. ip \notin Hosts
  BY AddressAssumption DEF IsSpecial, IpAny
<1>3. \A j \in Entries : st.tab[j].ip = ip => st.tab[j].q = <<>>
  BY <1>1 DEF InUse, QueueFits
<1>4. fr \in Sent
  BY DEF Frame, Sent
<1>5. r = [st EXCEPT !.out = <<fr>>]
  <2>1. r = [st EXCEPT !.out = Append(st.out, fr)]
    BY DEF etharp_send_ip
  <2>2. Append(<<>>, fr) = <<fr>>
    OBVIOUS
  <2> QED
    BY <2>1, <2>2
<1>6. <<fr>> \in Seq(Sent)
  BY <1>4
<1> HIDE DEF r, fr
<1>7. r \in States /\ r.tab = st.tab /\ r.held = st.held /\ r.elems = st.elems /\ r.out = <<fr>>
  BY <1>1, <1>5, <1>6, OutFields
<1>8. Good(r, t, d)
  BY <1>7, SameTable
<1>9. FramesRight(r.out, r.tab, t, d)
  BY <1>2, <1>3, <1>7, OnePacket DEF fr
<1> QED
  BY <1>8, <1>9 DEF Right, r

(* etharp_output. *)
LEMMA OutputGood ==
    ASSUME NEW st, NEW t, NEW d \in Seq(Nat), Good(st, t, d), st.out = <<>>,
           NEW ip \in Hosts \cup Remote \cup {Broadcast} \cup Multicast, NEW memR, NEW memC
    PROVE  /\ Right(etharp_output(st, ip, Len(d) + 1, memR, memC), t, Append(d, NextHop(ip)))
           /\ NextHop(ip) \in Nat
<1> DEFINE hop == NextHop(ip)
           pkt == Len(d) + 1
           r == etharp_output(st, ip, pkt, memR, memC)
           d2 == Append(d, hop)
<1>1. ip \in Nat /\ hop \in Nat /\ pkt \in Nat /\ pkt # 0
  BY AddressAssumption DEF NextHop
<1>2. Good(st, t, d2) /\ d2[pkt] = hop
  BY <1>1, LaterPackets, Appended
<1>3. \/ ip = Broadcast /\ r = etharp_send_ip(st, ip, Broadcast, pkt)
      \/ ip \in Multicast /\ r = etharp_send_ip(st, ip, GroupMac(ip), pkt)
      \/ r = st
      \/ HintHits(st, hop) /\ r = etharp_send_ip(st, hop, st.tab[st.hint].mac, pkt)
      \/ r = etharp_query(st, hop, pkt, memR, memC)
  BY DEF etharp_output
<1>4. Broadcast \in Nat /\ GroupMac(ip) \in Nat
  BY <1>1, AddressAssumption DEF GroupMac
<1> HIDE DEF r, hop
<1> SUFFICES Right(r, t, d2)
  BY <1>1 DEF r, hop
<1>5. CASE ip = Broadcast /\ r = etharp_send_ip(st, ip, Broadcast, pkt)
  <2>1. IsSpecial(ip)
    BY <1>5 DEF IsSpecial
  <2> HIDE DEF d2, pkt
  <2> QED
    BY <1>1, <1>2, <1>4, <1>5, <2>1, GroupGood
<1>6. CASE ip \in Multicast /\ r = etharp_send_ip(st, ip, GroupMac(ip), pkt)
  <2>1. IsSpecial(ip)
    BY <1>6 DEF IsSpecial
  <2> HIDE DEF d2, pkt
  <2> QED
    BY <1>1, <1>2, <1>4, <1>6, <2>1, GroupGood
<1>7. CASE r = st
  <2> HIDE DEF d2
  <2> QED
    BY <1>2, <1>7, NoFrames DEF Right
<1>8. CASE HintHits(st, hop) /\ r = etharp_send_ip(st, hop, st.tab[st.hint].mac, pkt)
  <2>1. st.hint \in Entries /\ st.tab[st.hint].state = "STABLE" /\ st.tab[st.hint].ip = hop
    BY <1>8, Fields DEF HintHits, Good
  <2> HIDE DEF d2, pkt
  <2> QED
    BY <1>1, <1>2, <1>8, <2>1, DirectGood
<1>9. CASE r = etharp_query(st, hop, pkt, memR, memC)
  <2>1. Right(r, t, Passed(d, hop, pkt))
    BY <1>1, <1>9, QueryGood
  <2>2. Passed(d, hop, pkt) = d2
    BY <1>1 DEF Passed
  <2> QED
    BY <2>1, <2>2
<1> QED
  BY <1>3, <1>5, <1>6, <1>7, <1>8, <1>9

-----------------------------------------------------------------------------
(* Input and time. *)

(* A reply follows the frames of a step. *)
LEMMA ReplyGood ==
    ASSUME NEW st, NEW t, NEW d, Right(st, t, d), NEW sip \in Nat, NEW smac \in Nat, NEW dip, NEW op
    PROVE  Right(Reply(st, sip, smac, dip, op), t, d)
<1> DEFINE fr == Frame("REPLY", sip, smac, 0)
           out == Append(st.out, fr)
           r == [st EXCEPT !.out = out]
<1>1. Reply(st, sip, smac, dip, op) \in {st, r}
  BY DEF Reply
<1>2. st \in States /\ st.out \in Seq(Sent) /\ Good(st, t, d) /\ FramesRight(st.out, st.tab, t, d)
  BY Fields DEF Right, Good
<1>3. fr \in Sent /\ fr.kind = "REPLY"
  BY DEF Frame, Sent
<1> HIDE DEF fr
<1>4. /\ out \in Seq(Sent) /\ DOMAIN out = 1 .. Len(st.out) + 1 /\ DOMAIN st.out = 1 .. Len(st.out)
      /\ Len(st.out) \in Nat /\ out[Len(st.out) + 1] = fr /\ \A k \in DOMAIN st.out : out[k] = st.out[k]
  BY <1>2, <1>3
<1> HIDE DEF out
<1>5. r \in States /\ r.tab = st.tab /\ r.held = st.held /\ r.elems = st.elems /\ r.out = out
  BY <1>2, <1>4, OutFields
<1> HIDE DEF r
<1>6. \A k \in DOMAIN out : out[k].kind = "IP" => k \in DOMAIN st.out /\ out[k] = st.out[k]
  BY <1>3, <1>4
<1>7. FramesRight(out, st.tab, t, d)
  BY <1>2, <1>6 DEF FramesRight
<1>8. Good(r, t, d)
  BY <1>2, <1>5, SameTable
<1>9. Right(r, t, d)
  BY <1>5, <1>7, <1>8 DEF Right
<1> QED
  BY <1>1, <1>9

(* An entry that has grown older. *)
LEMMA AgedEntry ==
    ASSUME NEW e \in Entry, NEW t, InUse(e, t)
    PROVE  /\ Aged(e) \in Entry /\ Aged(e).state = e.state /\ Aged(e).q = e.q /\ Aged(e).ip = e.ip
           /\ ~ Expired(Aged(e)) => InUse(Aged(e), t)
<1>1. CASE e.state = "EMPTY" \/ e.static
  BY <1>1 DEF Aged
<1>2. CASE ~ (e.state = "EMPTY" \/ e.static)
  <2>1. e.ctime < MaxAge /\ e.ctime \in 0 .. MaxAge /\ MaxAge \in Nat
    BY <1>2, SizeAssumption DEF InUse, Entry
  <2>2. PICK c \in 0 .. MaxAge : c = e.ctime + 1
    BY <2>1
  <2> DEFINE n == [e EXCEPT !.ctime = c]
  <2>3. Aged(e) = n
    BY <1>2, <2>2 DEF Aged
  <2>4. n \in Entry /\ n.state = e.state /\ n.q = e.q /\ n.ip = e.ip /\ n.mac = e.mac /\ n.static = e.static
        /\ n.ctime = c
    BY DEF Entry
  <2> HIDE DEF n
  <2>5. ASSUME ~ Expired(n) PROVE InUse(n, t)
    <3>1. ~ (c >= MaxAge)
      BY <1>2, <2>4, <2>5 DEF Expired
    <3>2. c < MaxAge
      BY <2>1, <3>1
    <3> QED
      BY <1>2, <2>4, <3>2 DEF InUse
  <2> QED
    BY <2>3, <2>4, <2>5
<1> QED
  BY <1>1, <1>2

(* etharp_tmr. *)
LEMMA TmrGood ==
    ASSUME NEW st, NEW t, NEW d, Good(st, t, d), st.out = <<>>
    PROVE  Right(etharp_tmr(st), t, d)
<1> DEFINE old == AgeAll(st)
           S == {i \in Entries : Expired(old.tab[i])}
           tab == [i \in Entries |-> Aged(st.tab[i])]
<1>1. /\ st \in States /\ st.tab \in Table /\ Distinct(st.tab) /\ HeldFits(st)
      /\ \A i \in Entries : st.tab[i] \in Entry /\ InUse(st.tab[i], t) /\ QueueFits(st.tab[i], d)
  BY Fields DEF Good
<1>2. \A i \in Entries : tab[i] = Aged(st.tab[i])
  OBVIOUS
<1>3. tab \in Table
  BY <1>1, AgedEntry DEF Table
<1>4. old = [st EXCEPT !.tab = tab]
  BY DEF AgeAll
<1> HIDE DEF tab, old
<1>5. old \in States /\ old.tab = tab /\ old.held = st.held /\ old.elems = st.elems /\ old.out = st.out
  BY <1>1, <1>3, <1>4 DEF States
<1>6. \A i \in Entries : /\ old.tab[i].state = st.tab[i].state /\ old.tab[i].q = st.tab[i].q
                         /\ old.tab[i].ip = st.tab[i].ip
                         /\ ~ Expired(old.tab[i]) => InUse(old.tab[i], t)
  BY <1>1, <1>2, <1>5, AgedEntry
<1>7. Distinct(old.tab)
  BY <1>1, <1>6 DEF Distinct
<1>8. \A i \in Entries : QueueFits(old.tab[i], d)
  BY <1>1, <1>6 DEF QueueFits
<1>9. HeldFits(old)
  <2>1. Waiting(old.tab, Entries) = Waiting(st.tab, Entries)
    BY <1>6 DEF Waiting
  <2> QED
    BY <1>1, <1>5, <2>1 DEF HeldFits
<1>10. \A i \in Entries \ S : InUse(old.tab[i], t)
  BY <1>6
<1>11. S \in SUBSET Entries
  OBVIOUS
<1>12. etharp_tmr(st) = free_entry(old, S)
  BY DEF etharp_tmr, FreeExpired, old
<1> HIDE DEF S
<1>13. Good(free_entry(old, S), t, d) /\ free_entry(old, S).out = <<>>
  BY <1>5, <1>7, <1>8, <1>9, <1>10, <1>11, FreeRest
<1> QED
  BY <1>12, <1>13, NoFrames DEF Right

-----------------------------------------------------------------------------
(* The invariant. *)

(* SentToOwner and InOrder are about the frames of the last step. *)
LEMMA InvFromRight ==
    ASSUME Right(a, told, dst), Known
    PROVE  ArpInv
  BY DEF Right, FramesRight, ArpInv, SentToOwner, InOrder

(* At first the table is empty. *)
LEMMA InitArp == Init => ArpInv
<1> SUFFICES ASSUME Init PROVE ArpInv
  OBVIOUS
<1>0. <<>> \in Seq(Nat) /\ <<>> \in Seq(Sent)
  OBVIOUS
<1>1. PICK none \in Seq(Nat) : none = <<>>
  BY <1>0, Zenon
<1>2. PICK z \in 0 .. MaxAge : z = 0
  BY SizeAssumption
<1>3. Empty = [state |-> "EMPTY", ip |-> z, mac |-> z, ctime |-> z, static |-> FALSE, q |-> none]
  BY <1>1, <1>2 DEF Empty, IpAny
<1>4. Empty \in Entry /\ Empty.state = "EMPTY" /\ Empty.q = <<>>
  BY <1>1, <1>2, <1>3, SizeAssumption DEF Entry
<1> HIDE DEF Empty
<1>5. /\ a.tab = [i \in Entries |-> Empty] /\ a.held = {} /\ a.elems = {} /\ a.out = <<>> /\ a.hint = 1
      /\ a = [tab |-> a.tab, hint |-> a.hint, held |-> a.held, elems |-> a.elems, out |-> a.out]
  BY DEF Init
<1>6. a.tab \in Table /\ a.hint \in Entries
  BY <1>4, <1>5, SizeAssumption DEF Table, Entries
<1>7. a \in States
  BY <1>0, <1>5, <1>6 DEF States
<1>8. \A i \in Entries : a.tab[i].state = "EMPTY" /\ a.tab[i].q = <<>>
  BY <1>4, <1>5
<1>9. \A i \in Entries : InUse(a.tab[i], told) /\ QueueFits(a.tab[i], dst)
  BY <1>8 DEF InUse, QueueFits
<1>10. Distinct(a.tab)
  BY <1>8 DEF Distinct
<1>11. HeldFits(a)
  <2>1. \A i \in Entries : Range(a.tab[i].q) = {}
    BY <1>8 DEF Range
  <2>2. Waiting(a.tab, Entries) = {}
    BY <2>1 DEF Waiting
  <2>3. IsFiniteSet({}) /\ Cardinality({}) = 0 /\ QueueSize \in Nat
    BY FS_EmptySet, SizeAssumption
  <2> QED
    BY <1>5, <2>2, <2>3 DEF HeldFits
<1>12. Good(a, told, dst)
  BY <1>7, <1>9, <1>10, <1>11 DEF Good
<1>13. Known
  <2>1. told \in [Hosts -> Nat] /\ ours \in {IpAny, Own}
    BY DEF Init, IpAny
  <2>2. dst = <<>> /\ spent = [w \in {"out", "in", "fail", "static", "addr"} |-> 0]
    BY DEF Init
  <2>3. dst \in Seq(Nat) /\ Len(dst) = 0
    BY <2>2
  <2>4. spent \in [{"out", "in", "fail", "static", "addr"} -> Nat] /\ spent.out = 0
    BY <2>2
  <2> QED
    BY <2>1, <2>3, <2>4 DEF Known
<1> QED
  BY <1>5, <1>12, <1>13, NoFrames, InvFromRight DEF Right

(* The frames of the last step are forgotten. *)
LEMMA FreshGood ==
    ASSUME ArpInv
    PROVE  Good(Fresh, told, dst) /\ Fresh.out = <<>> /\ Right(Fresh, told, dst)
<1>1. a \in States /\ Good(a, told, dst) /\ <<>> \in Seq(Sent)
  BY DEF ArpInv, Good
<1>2. Fresh \in States /\ Fresh.tab = a.tab /\ Fresh.held = a.held /\ Fresh.elems = a.elems /\ Fresh.out = <<>>
  BY <1>1, OutFields DEF Fresh
<1> HIDE DEF Fresh
<1>3. Good(Fresh, told, dst)
  BY <1>1, <1>2, SameTable
<1> QED
  BY <1>2, <1>3, NoFrames DEF Right

(* One thing more has been spent. *)
LEMMA Spending ==
    ASSUME Known, NEW what \in {"in", "static", "addr"}, NEW bound, Spend(what, bound)
    PROVE  spent' \in [{"out", "in", "fail", "static", "addr"} -> Nat] /\ spent'.out = spent.out
  BY DEF Known, Spend

(* One packet more has been passed on. *)
LEMMA Charging ==
    ASSUME Known, NEW bound, NEW mems, Charge("out", bound, mems), NEW x \in Nat, dst' = Append(dst, x),
           UNCHANGED <<ours, told>>
    PROVE  Known'
<1>1. spent \in [{"out", "in", "fail", "static", "addr"} -> Nat]
  BY DEF Known
<1>2. PICK n \in Nat, m \in Nat : /\ n = spent["out"] + 1
                                  /\ m = IF FALSE \in mems THEN spent["fail"] + 1 ELSE spent["fail"]
  <2>1. spent["out"] \in Nat /\ spent["fail"] \in Nat
    BY <1>1
  <2>2. spent["out"] + 1 \in Nat /\ spent["fail"] + 1 \in Nat
    BY <2>1
  <2>3. (IF FALSE \in mems THEN spent["fail"] + 1 ELSE spent["fail"]) \in Nat
    BY <2>1, <2>2, Zenon
  <2> QED
    BY <2>2, <2>3, Zenon
<1>3. spent' \in [{"out", "in", "fail", "static", "addr"} -> Nat] /\ spent'.out = spent.out + 1
  <2>1. spent' = [spent EXCEPT !["out"] = n, !["fail"] = m]
    BY <1>2 DEF Charge
  <2> QED
    BY <1>1, <1>2, <2>1
<1>4. dst' \in Seq(Nat) /\ Len(dst') = Len(dst) + 1
  BY DEF Known
<1> QED
  BY <1>3, <1>4 DEF Known

(* The invariant holds after a step if its parts do. *)
LEMMA RightAgain ==
    ASSUME Right(a', told', dst'), Known'
    PROVE  ArpInv'
  BY DEF Right, FramesRight, ArpInv, SentToOwner, InOrder

(* Every step keeps the invariant. *)
LEMMA StepArp == ArpInv /\ [Next]_vars => ArpInv'
<1> SUFFICES ASSUME ArpInv, [Next]_vars PROVE ArpInv'
  OBVIOUS
<1> USE DEF ArpInv
<1>1. Good(Fresh, told, dst) /\ Fresh.out = <<>> /\ Right(Fresh, told, dst)
  BY FreshGood
<1>2. /\ Known /\ told \in [Hosts -> Nat] /\ dst \in Seq(Nat) /\ ours \in {IpAny, Own}
      /\ spent \in [{"out", "in", "fail", "static", "addr"} -> Nat] /\ Len(dst) = spent.out
  BY DEF Known
<1>3. Hosts \subseteq Nat /\ Macs \subseteq Nat
  BY AddressAssumption
<1> HIDE DEF ArpInv
<1>4. ASSUME NEW ip \in Hosts \cup Remote \cup {Broadcast} \cup Multicast, NEW memR \in BOOLEAN, NEW memC \in BOOLEAN,
             Output(ip, memR, memC)
      PROVE  ArpInv'
  <2>1. /\ Charge("out", MaxOut, {memR, memC}) /\ a' = etharp_output(Fresh, ip, Len(dst) + 1, memR, memC)
        /\ dst' = Append(dst, NextHop(ip)) /\ UNCHANGED <<ours, told>>
    BY <1>2, <1>4 DEF Output
  <2>2. Right(a', told, dst') /\ NextHop(ip) \in Nat
    BY <1>1, <1>2, <2>1, OutputGood
  <2>3. Known'
    BY <1>2, <2>1, <2>2, Charging
  <2> QED
    BY <2>1, <2>2, <2>3, RightAgain
<1>5. ASSUME NEW ip \in Hosts, NEW memR \in BOOLEAN, Query(ip, memR)
      PROVE  ArpInv'
  <2>1. /\ Charge("out", MaxOut, {memR}) /\ a' = etharp_query(Fresh, ip, 0, memR, TRUE)
        /\ dst' = Append(dst, IpAny) /\ UNCHANGED <<ours, told>>
    BY <1>5 DEF Query
  <2>2. Passed(dst, ip, 0) = Append(dst, IpAny) /\ ip \in Nat /\ IpAny \in Nat
    BY <1>3 DEF Passed, IpAny
  <2>3. Right(a', told, dst')
    BY <1>1, <1>2, <2>1, <2>2, QueryGood
  <2>4. Known'
    BY <1>2, <2>1, <2>2, Charging
  <2> QED
    BY <2>1, <2>3, <2>4, RightAgain
<1>6. ASSUME NEW ip \in Hosts, NEW mac \in Macs, NEW st, Right(st, Heard(told, ip, mac), dst), a' = st,
             told' = Heard(told, ip, mac), UNCHANGED <<ours, dst>>,
             spent' \in [{"out", "in", "fail", "static", "addr"} -> Nat], spent'.out = spent.out
      PROVE  ArpInv'
  <2>1. told' \in [Hosts -> Nat]
    BY <1>2, <1>3, <1>6 DEF Heard
  <2>2. Known'
    BY <1>2, <1>6, <2>1 DEF Known
  <2>3. Right(a', told', dst')
    BY <1>6
  <2> QED
    BY <2>2, <2>3, RightAgain
<1>7. ASSUME NEW st, Right(st, told, dst), a' = st, UNCHANGED <<told, dst>>, ours' \in {IpAny, Own},
             spent' \in [{"out", "in", "fail", "static", "addr"} -> Nat], spent'.out = spent.out
      PROVE  ArpInv'
  <2>1. Known'
    BY <1>2, <1>7 DEF Known
  <2>2. Right(a', told', dst')
    BY <1>7
  <2> QED
    BY <2>1, <2>2, RightAgain
<1>8. ASSUME NEW f \in Frames, Input(f)
      PROVE  ArpInv'
  <2>1. /\ a' = ethernet_input(Fresh, f) /\ UNCHANGED <<ours, dst>>
        /\ told' = IF Announces(f) THEN [told EXCEPT ![f.sip] = f.smac] ELSE told
        /\ spent' \in [{"out", "in", "fail", "static", "addr"} -> Nat] /\ spent'.out = spent.out
    BY <1>2, <1>8, Spending DEF Input
  <2>2. (f.sip \in Hosts /\ f.smac \in Macs) \/ (f.type = "ARP" /\ ~ f.valid)
    <3>1. \/ f \in [type : {"ARP"}, valid : {TRUE}, sip : Hosts, smac : Macs, dip : Hosts \cup {Own},
                    op : {"REQUEST", "REPLY"}]
          \/ f \in [type : {"IP"}, valid : {TRUE}, sip : Hosts, smac : Macs]
          \/ f = [type |-> "ARP", valid |-> FALSE]
      BY DEF Frames
    <3>2. CASE f \in [type : {"ARP"}, valid : {TRUE}, sip : Hosts, smac : Macs, dip : Hosts \cup {Own},
                      op : {"REQUEST", "REPLY"}]
      BY <3>2
    <3>3. CASE f \in [type : {"IP"}, valid : {TRUE}, sip : Hosts, smac : Macs]
      BY <3>3
    <3>4. CASE f = [type |-> "ARP", valid |-> FALSE]
      BY <3>4
    <3> QED
      BY <3>1, <3>2, <3>3, <3>4
  <2>3. CASE f.type = "ARP" /\ f.valid
    <3>1. f.sip \in Hosts /\ f.smac \in Macs
      BY <2>3, <2>2
    <3>2. f.sip \in Nat /\ f.smac \in Nat
      BY <1>3, <3>1
    <3> DEFINE flags == IF ForUs(f.dip) THEN {"TRY_HARD"} ELSE {"FIND_ONLY"}
               u == update_arp_entry(Fresh, f.sip, f.smac, flags)
    <3>3. a' = Reply(u, f.sip, f.smac, f.dip, f.op)
      BY <2>1, <2>3 DEF ethernet_input, etharp_arp_input
    <3>4. told' = Heard(told, f.sip, f.smac)
      BY <2>1, <2>3 DEF Announces, Heard
    <3> HIDE DEF flags
    <3>5. Right(u, Heard(told, f.sip, f.smac), dst)
      BY <1>1, <1>2, <3>1, <3>2, UpdateGood
    <3> HIDE DEF u
    <3>6. Right(a', Heard(told, f.sip, f.smac), dst)
      BY <3>2, <3>3, <3>5, ReplyGood
    <3> QED
      BY <1>6, <2>1, <3>1, <3>4, <3>6
  <2>4. CASE f.type = "IP" /\ TrustIpMac
    <3>1. f.sip \in Hosts /\ f.smac \in Macs
      BY <2>4, <2>2
    <3>2. f.smac \in Nat
      BY <1>3, <3>1
    <3>3. a' = update_arp_entry(Fresh, f.sip, f.smac, {"FIND_ONLY"})
      BY <2>1, <2>4, <3>1 DEF ethernet_input, etharp_ip_input
    <3>4. told' = Heard(told, f.sip, f.smac)
      BY <2>1, <2>4, <3>1 DEF Announces, Heard
    <3>5. Right(a', Heard(told, f.sip, f.smac), dst)
      BY <1>1, <1>2, <3>1, <3>2, <3>3, UpdateGood
    <3> QED
      BY <1>6, <2>1, <3>1, <3>4, <3>5
  <2>5. CASE ~ (f.type = "ARP" /\ f.valid) /\ ~ (f.type = "IP" /\ TrustIpMac)
    <3>1. a' = Fresh
      BY <2>1, <2>5 DEF ethernet_input
    <3>2. told' = told
      BY <2>1, <2>5 DEF Announces
    <3> QED
      BY <1>1, <1>2, <1>7, <2>1, <3>1, <3>2
  <2> QED
    BY <2>3, <2>4, <2>5
<1>9. ASSUME NEW ip \in Hosts, NEW mac \in Macs, AddStatic(ip, mac)
      PROVE  ArpInv'
  <2>1. /\ a' = update_arp_entry(Fresh, ip, mac, {"TRY_HARD", "STATIC"}) /\ UNCHANGED <<ours, dst>>
        /\ told' = Heard(told, ip, mac)
        /\ spent' \in [{"out", "in", "fail", "static", "addr"} -> Nat] /\ spent'.out = spent.out
    BY <1>2, <1>9, Spending DEF AddStatic, etharp_add_static_entry, Heard
  <2>2. Right(a', Heard(told, ip, mac), dst)
    BY <1>1, <1>2, <1>3, <2>1, UpdateGood
  <2> QED
    BY <1>6, <2>1, <2>2
<1>10. ASSUME NEW ip \in Hosts, RemoveStatic(ip)
       PROVE  ArpInv'
  <2> DEFINE f == find_entry(Fresh, ip, {"FIND_ONLY"})
  <2>1. /\ a' \in {Fresh, free_entry(Fresh, {f.i})} /\ (a' = Fresh \/ f.i # 0) /\ UNCHANGED <<ours, told, dst>>
        /\ spent' \in [{"out", "in", "fail", "static", "addr"} -> Nat] /\ spent'.out = spent.out
    BY <1>2, <1>10, Spending DEF RemoveStatic, etharp_remove_static_entry
  <2>2. f.i \in Entries \cup {0}
    BY <1>1, <1>3, FindGood DEF Result
  <2> HIDE DEF f
  <2>3. CASE a' = Fresh
    BY <1>1, <1>2, <1>7, <2>1, <2>3
  <2>4. CASE a' = free_entry(Fresh, {f.i}) /\ f.i # 0
    <3>1. {f.i} \in SUBSET Entries
      BY <2>2, <2>4
    <3>2. Good(a', told, dst) /\ a'.out = <<>>
      BY <1>1, <2>4, <3>1, FreeGood
    <3>3. Right(a', told, dst)
      BY <3>2, NoFrames DEF Right
    <3> QED
      BY <1>2, <1>7, <2>1, <3>3
  <2> QED
    BY <2>1, <2>3, <2>4
<1>11. CASE Tmr
  <2>1. a' = etharp_tmr(Fresh) /\ UNCHANGED <<ours, told, dst, spent>>
    BY <1>11 DEF Tmr
  <2>2. Right(a', told, dst)
    BY <1>1, <2>1, TmrGood
  <2> QED
    BY <1>2, <1>7, <2>1, <2>2
<1>12. CASE Address
  <2>1. /\ a' = Fresh /\ UNCHANGED <<told, dst>> /\ ours' \in {IpAny, Own}
        /\ spent' \in [{"out", "in", "fail", "static", "addr"} -> Nat] /\ spent'.out = spent.out
    BY <1>2, <1>12, Spending DEF Address
  <2> QED
    BY <1>1, <1>7, <2>1
<1>13. CASE UNCHANGED vars
  BY <1>13 DEF vars, ArpInv, Good, Known, SentToOwner, InOrder, HeldFits
<1> QED
  BY <1>4, <1>5, <1>8, <1>9, <1>10, <1>11, <1>12, <1>13 DEF Next

(* The property the runs check is a part of the invariant. *)
LEMMA ArpConsequences == ArpInv => OneEntryPerAddress
<1> SUFFICES ASSUME ArpInv PROVE OneEntryPerAddress
  OBVIOUS
<1>1. /\ a \in States /\ a.tab \in Table /\ a.hint \in Entries /\ Distinct(a.tab) /\ HeldFits(a)
      /\ \A i \in Entries : a.tab[i] \in Entry /\ QueueFits(a.tab[i], dst)
  BY Fields DEF ArpInv, Good
<1>2. TypeOK
  BY <1>1 DEF TypeOK, Entry, ArpInv, Known
<1>3. OneEntry
  BY <1>1 DEF OneEntry, Distinct
<1>4. QueueHeld
  <2>1. \A i \in Entries : a.tab[i].q # <<>> => a.tab[i].state = "PENDING"
    BY <1>1 DEF QueueFits
  <2>2. \A i, j \in Entries : i # j => Range(a.tab[i].q) \cap Range(a.tab[j].q) = {}
    BY <1>1, WaitsOnce
  <2> QED
    BY <1>1, <2>1, <2>2 DEF QueueHeld, HeldFits
<1> QED
  BY <1>2, <1>3, <1>4 DEF OneEntryPerAddress, ArpInv

(* The ARP table is right in every behaviour: an address has one entry,       *)
(* whatever has been recycled or has timed out (find_entry, etharp_tmr);      *)
(* exactly the packets that wait are held, each for one pending entry, within *)
(* the pool of queue elements (etharp_query, free_etharp_q); and a packet     *)
(* leaves for the hop it was given, at the hardware address that hop          *)
(* announced last, after the older packets for it (update_arp_entry,          *)
(* etharp_output).                                                            *)
THEOREM TableRight == Spec => []OneEntryPerAddress
<1>1. Init => ArpInv
  BY InitArp
<1>2. ArpInv /\ [Next]_vars => ArpInv'
  BY StepArp
<1>3. ArpInv => OneEntryPerAddress
  BY ArpConsequences
<1> QED
  BY <1>1, <1>2, <1>3, PTL DEF Spec

=============================================================================
