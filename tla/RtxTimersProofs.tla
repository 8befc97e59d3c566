-------------------------- MODULE RtxTimersProofs --------------------------
(***************************************************************************)
(* The timer list stores differences, and every operation on it repairs at  *)
(* most one of them; still each timer expires in the tick it was started    *)
(* for.  The proof relates each difference to the times of its two          *)
(* neighbours, which needs no sum, and gets the sums and the loop of the    *)
(* tick from least counterexamples.                                         *)
(***************************************************************************)
EXTENDS RtxTimers, SequenceTheorems, WellFoundedInduction, TLAPS

(* No element twice among the first L. *)
Distinct(s, L) == \A a, b \in 1 .. L : s[a] = s[b] => a = b

(* c has the differences of the times D of the elements of s. *)
Deltas(s, c, D, L) ==
    /\ L > 0 => c[1] = D[s[1]]
    /\ \A j \in 2 .. L : c[j] = D[s[j]] - D[s[j - 1]]

(* p is s with x put in behind place i, or without what is at place i. *)
PutIn(p, s, i, x, L) ==
    /\ \A m \in 1 .. i : p[m] = s[m]
    /\ p[i + 1] = x
    /\ \A m \in i + 1 .. L : p[m + 1] = s[m]
CutOut(p, s, i, L) ==
    /\ \A m \in 1 .. i - 1 : p[m] = s[m]
    /\ \A m \in i .. L - 1 : p[m] = s[m + 1]

(* Each timer is in the list l once, with the difference of its time D and    *)
(* that of the timer before it.                                               *)
Exact(l, D) ==
    /\ l.list \in Seq(Timers) /\ l.tcnt \in Seq(Nat) /\ Len(l.tcnt) = Len(l.list)
    /\ Distinct(l.list, Len(l.list)) /\ Deltas(l.list, l.tcnt, D, Len(l.list))

(* A set of natural numbers that is not empty has a least element. *)
LEMMA Least ==
    ASSUME NEW S \in SUBSET Nat, S # {}
    PROVE  \E n \in S : \A m \in S : n <= m
<1>1. \E n \in S : \A m \in S : ~(<<m, n>> \in OpToRel(<, Nat))
  BY NatLessThanWellFounded, WFMin
<1>2. OpToRel(<, Nat) = {ss \in Nat \X Nat : ss[1] < ss[2]}
  BY DEF OpToRel
<1> QED
  <2>1. PICK n \in S : \A m \in S : <<m, n>> \notin {ss \in Nat \X Nat : ss[1] < ss[2]}
    BY <1>1, <1>2
  <2>2. ASSUME NEW m \in S, m < n PROVE FALSE
    <3>1. <<m, n>> \in {ss \in Nat \X Nat : ss[1] < ss[2]}
      BY <2>2
    <3> QED
      BY <2>1, <3>1
  <2> QED
    BY <2>2

(* What is where in a sequence with an element put in. *)
LEMMA PutAt ==
    ASSUME NEW S, NEW s \in Seq(S), NEW i \in 0 .. Len(s), NEW x \in S
    PROVE  /\ Put(s, i, x) \in Seq(S) /\ Len(Put(s, i, x)) = Len(s) + 1
           /\ PutIn(Put(s, i, x), s, i, x, Len(s))
<1> DEFINE a == SubSeq(s, 1, i)
           c == SubSeq(s, i + 1, Len(s))
<1>0. Len(s) \in Nat
  OBVIOUS
<1>1. a \in Seq(S) /\ Len(a) = i /\ \A m \in 1 .. i : a[m] = s[m]
  <2>1. \A m \in 1 .. i : s[m] \in S
    BY <1>0, ElementOfSeq
  <2>2. /\ a \in Seq(S) /\ Len(a) = IF 1 <= i THEN i - 1 + 1 ELSE 0
        /\ \A m \in 1 .. i - 1 + 1 : a[m] = s[1 + m - 1]
    BY <1>0, <2>1, SubSeqProperties
  <2> QED
    BY <1>0, <2>2
<1>2. c \in Seq(S) /\ Len(c) = Len(s) - i /\ \A m \in 1 .. Len(s) - i : c[m] = s[i + m]
  <2>1. \A m \in i + 1 .. Len(s) : s[m] \in S
    BY <1>0, ElementOfSeq
  <2>2. /\ c \in Seq(S) /\ Len(c) = IF i + 1 <= Len(s) THEN Len(s) - (i + 1) + 1 ELSE 0
        /\ \A m \in 1 .. Len(s) - (i + 1) + 1 : c[m] = s[i + 1 + m - 1]
    BY <1>0, <2>1, SubSeqProperties
  <2> QED
    BY <1>0, <2>2
<1> HIDE DEF a, c
<1>3. a \o <<x>> = Append(a, x)
  BY <1>1, AppendIsConcat
<1> DEFINE b == Append(a, x)
<1>4. /\ b \in Seq(S) /\ Len(b) = i + 1
      /\ \A m \in 1 .. i : b[m] = s[m]
      /\ b[i + 1] = x
  BY <1>0, <1>1
<1>5. Put(s, i, x) = b \o c
  BY <1>3 DEF Put, a, c
<1> HIDE DEF b
<1>6. /\ b \o c \in Seq(S) /\ Len(b \o c) = Len(b) + Len(c)
      /\ \A m \in 1 .. Len(b) + Len(c) : (b \o c)[m] = IF m <= Len(b) THEN b[m] ELSE c[m - Len(b)]
  BY <1>2, <1>4, ConcatProperties
<1>7. Len(b) + Len(c) = Len(s) + 1
  BY <1>0, <1>2, <1>4
<1>8. ASSUME NEW m \in 1 .. i PROVE (b \o c)[m] = s[m]
  BY <1>0, <1>4, <1>6, <1>7
<1>9. (b \o c)[i + 1] = x
  BY <1>0, <1>4, <1>6, <1>7
<1>10. ASSUME NEW m \in i + 1 .. Len(s) PROVE (b \o c)[m + 1] = s[m]
  <2>1. m + 1 - (i + 1) \in 1 .. Len(s) - i /\ i + (m + 1 - (i + 1)) = m
    BY <1>0
  <2>2. (b \o c)[m + 1] = c[m + 1 - (i + 1)]
    BY <1>0, <1>4, <1>6, <1>7
  <2>3. c[m + 1 - (i + 1)] = s[i + (m + 1 - (i + 1))]
    BY <1>2, <2>1
  <2> QED
    BY <2>1, <2>2, <2>3
<1> QED
  BY <1>5, <1>6, <1>7, <1>8, <1>9, <1>10 DEF PutIn

(* ... and with one taken out. *)
LEMMA CutAt ==
    ASSUME NEW S, NEW s \in Seq(S), NEW i \in 1 .. Len(s)
    PROVE  /\ Cut(s, i) \in Seq(S) /\ Len(Cut(s, i)) = Len(s) - 1
           /\ CutOut(Cut(s, i), s, i, Len(s))
<1> DEFINE a == SubSeq(s, 1, i - 1)
           c == SubSeq(s, i + 1, Len(s))
<1>0. Len(s) \in Nat
  OBVIOUS
<1>1. a \in Seq(S) /\ Len(a) = i - 1 /\ \A m \in 1 .. i - 1 : a[m] = s[m]
  <2>1. \A m \in 1 .. i - 1 : s[m] \in S
    BY <1>0, ElementOfSeq
  <2>2. /\ a \in Seq(S) /\ Len(a) = IF 1 <= i - 1 THEN i - 1 - 1 + 1 ELSE 0
        /\ \A m \in 1 .. i - 1 - 1 + 1 : a[m] = s[1 + m - 1]
    BY <1>0, <2>1, SubSeqProperties
  <2> QED
    BY <1>0, <2>2
<1>2. c \in Seq(S) /\ Len(c) = Len(s) - i /\ \A m \in 1 .. Len(s) - i : c[m] = s[i + m]
  <2>1. \A m \in i + 1 .. Len(s) : s[m] \in S
    BY <1>0, ElementOfSeq
  <2>2. /\ c \in Seq(S) /\ Len(c) = IF i + 1 <= Len(s) THEN Len(s) - (i + 1) + 1 ELSE 0
        /\ \A m \in 1 .. Len(s) - (i + 1) + 1 : c[m] = s[i + 1 + m - 1]
    BY <1>0, <2>1, SubSeqProperties
  <2> QED
    BY <1>0, <2>2
<1>3. Cut(s, i) = a \o c
  BY DEF Cut
<1> HIDE DEF a, c
<1>4. /\ a \o c \in Seq(S) /\ Len(a \o c) = Len(a) + Len(c)
      /\ \A m \in 1 .. Len(a) + Len(c) : (a \o c)[m] = IF m <= Len(a) THEN a[m] ELSE c[m - Len(a)]
  BY <1>1, <1>2, ConcatProperties
<1>5. ASSUME NEW m \in 1 .. i - 1 PROVE (a \o c)[m] = s[m]
  BY <1>0, <1>1, <1>2, <1>4
<1>6. ASSUME NEW m \in i .. Len(s) - 1 PROVE (a \o c)[m] = s[m + 1]
  <2>1. m - (i - 1) \in 1 .. Len(s) - i /\ i + (m - (i - 1)) = m + 1
    BY <1>0
  <2>2. (a \o c)[m] = c[m - (i - 1)]
    BY <1>0, <1>1, <1>2, <1>4
  <2>3. c[m - (i - 1)] = s[i + (m - (i - 1))]
    BY <1>2, <2>1
  <2> QED
    BY <2>1, <2>2, <2>3
<1> QED
  BY <1>0, <1>1, <1>2, <1>3, <1>4, <1>5, <1>6 DEF CutOut

(* The differences up to a timer add up to its time. *)
LEMMA UntilIs ==
    ASSUME NEW l, NEW D \in [Timers -> Nat], Exact(l, D), NEW i \in 0 .. Len(l.list)
    PROVE  Until(l, i) = IF i = 0 THEN 0 ELSE D[l.list[i]]
<1> DEFINE Sums(f) == f = [j \in 0 .. i |-> IF j = 0 THEN 0 ELSE f[j - 1] + l.tcnt[j]]
           s == CHOOSE f : Sums(f)
           w == [j \in 0 .. i |-> IF j = 0 THEN 0 ELSE D[l.list[j]]]
<1>0. /\ Len(l.list) \in Nat
      /\ \A j \in 1 .. i : D[l.list[j]] \in Nat
      /\ \A j \in 2 .. i : l.tcnt[j] = D[l.list[j]] - D[l.list[j - 1]]
  <2>1. l.list \in Seq(Timers) /\ Len(l.list) \in Nat
    BY DEF Exact
  <2>2. ASSUME NEW j \in 1 .. i PROVE D[l.list[j]] \in Nat
    BY <2>1, ElementOfSeq
  <2>3. ASSUME NEW j \in 2 .. i PROVE l.tcnt[j] = D[l.list[j]] - D[l.list[j - 1]]
    <3>1. j \in 2 .. Len(l.list)
      BY <2>1
    <3> QED
      BY <3>1 DEF Exact, Deltas
  <2> QED
    BY <2>1, <2>2, <2>3
<1>1. Sums(w)
  <2> SUFFICES ASSUME NEW j \in 0 .. i
               PROVE  w[j] = IF j = 0 THEN 0 ELSE w[j - 1] + l.tcnt[j]
    OBVIOUS
  <2>1. CASE j = 0
    BY <2>1
  <2>2. CASE j = 1
    <3>1. l.tcnt[1] = D[l.list[1]]
      BY <1>0, <2>2 DEF Exact, Deltas
    <3> QED
      BY <1>0, <2>2, <3>1
  <2>3. CASE j > 1
    <3>1. l.tcnt[j] = D[l.list[j]] - D[l.list[j - 1]]
      BY <1>0, <2>3
    <3>2. D[l.list[j]] \in Nat /\ D[l.list[j - 1]] \in Nat /\ j - 1 \in 0 .. i
      BY <1>0, <2>3
    <3> QED
      BY <2>3, <3>1, <3>2
  <2> QED
    BY <2>1, <2>2, <2>3
<1>2. Until(l, i) = s[i]
  BY DEF Until
<1>3. Sums(s)
  BY <1>1, Zenon
<1>4. ASSUME NEW f, Sums(f)
      PROVE  f[0] = 0 /\ \A j \in 1 .. i : f[j] = f[j - 1] + l.tcnt[j]
  <2>1. \A j \in 0 .. i : f[j] = IF j = 0 THEN 0 ELSE f[j - 1] + l.tcnt[j]
    BY <1>4
  <2>2. 0 \in 0 .. i /\ \A j \in 1 .. i : j \in 0 .. i /\ j # 0
    BY <1>0
  <2> QED
    BY <2>1, <2>2
<1> HIDE DEF Sums, s, w
<1>5. /\ s[0] = 0 /\ \A j \in 1 .. i : s[j] = s[j - 1] + l.tcnt[j]
      /\ w[0] = 0 /\ \A j \in 1 .. i : w[j] = w[j - 1] + l.tcnt[j]
  BY <1>1, <1>3, <1>4
<1> DEFINE Bad == {j \in 0 .. i : s[j] # w[j]}
<1>6. Bad = {}
  <2> SUFFICES ASSUME Bad # {} PROVE FALSE
    OBVIOUS
  <2>1. PICK j \in Bad : \A m \in Bad : j <= m
    <3>1. Bad \in SUBSET Nat
      BY <1>0
    <3> QED
      BY <3>1, Least
  <2>2. j # 0
    BY <1>5
  <2>3. j - 1 \in 0 .. i /\ j - 1 \notin Bad /\ j \in 1 .. i
    BY <2>1, <2>2
  <2> QED
    BY <1>5, <2>3
<1>7. s[i] = w[i]
  BY <1>6
<1> QED
  BY <1>2, <1>7 DEF w

(* Places behind a gap move. *)
LEMMA MovedUp ==
    \A i, a, b \in Int : (IF a < i THEN a ELSE a + 1) = (IF b < i THEN b ELSE b + 1) => a = b
OBVIOUS
LEMMA MovedDown ==
    \A i, a, b \in Int :
        /\ a # i + 1 /\ b # i + 1
        /\ (IF a <= i THEN a ELSE a - 1) = (IF b <= i THEN b ELSE b - 1)
        => a = b
OBVIOUS

(* The differences of a list with one more element: the element t with the    *)
(* time n behind place i.                                                     *)
PutStep(T, D, E, L, s, c, i, t, n, ps, d, e, pc) ==
    /\ L \in Nat /\ i \in 0 .. L /\ n \in Nat /\ t \in T
    /\ D \in [T -> Nat] /\ E = [D EXCEPT ![t] = n]
    /\ s \in [1 .. L -> T \ {t}] /\ c \in [1 .. L -> Nat]
    /\ Distinct(s, L) /\ Deltas(s, c, D, L)
    /\ PutIn(ps, s, i, t, L) /\ PutIn(pc, d, i, e, L)
    /\ e = IF i = 0 THEN n ELSE n - D[s[i]]
    /\ d = IF i < L THEN [c EXCEPT ![i + 1] = D[s[i + 1]] - n] ELSE c

LEMMA PutExact ==
    ASSUME NEW T, NEW D, NEW E, NEW L, NEW s, NEW c, NEW i, NEW t, NEW n,
           NEW ps, NEW d, NEW e, NEW pc, PutStep(T, D, E, L, s, c, i, t, n, ps, d, e, pc)
    PROVE  Distinct(ps, L + 1) /\ Deltas(ps, pc, E, L + 1)
<1> USE DEF PutStep
<1>1. \A j \in 1 .. L : s[j] \in T /\ s[j] # t /\ E[s[j]] = D[s[j]] /\ D[s[j]] \in Nat
  OBVIOUS
<1>2. E[t] = n
  OBVIOUS
<1>3. Distinct(ps, L + 1)
  <2> DEFINE pos(m) == IF m <= i THEN m ELSE m - 1
  <2>1. \A m \in 1 .. i : ps[m] = s[m]
    BY DEF PutIn
  <2>2. ps[i + 1] = t
    BY DEF PutIn
  <2>3. \A m \in i + 2 .. L + 1 : ps[m] = s[m - 1]
    <3>1. \A m \in i + 1 .. L : ps[m + 1] = s[m]
      BY DEF PutIn
    <3>2. ASSUME NEW m \in i + 2 .. L + 1 PROVE ps[m] = s[m - 1]
      <4>1. m - 1 \in i + 1 .. L /\ m - 1 + 1 = m
        OBVIOUS
      <4> QED
        BY <3>1, <4>1
    <3> QED
      BY <3>2
  <2>4. \A m \in 1 .. L + 1 : m # i + 1 => pos(m) \in 1 .. L /\ ps[m] = s[pos(m)]
    BY <2>1, <2>3
  <2>5. \A a, b \in 1 .. L : s[a] = s[b] => a = b
    BY DEF Distinct
  <2>6. ASSUME NEW a \in 1 .. L + 1, NEW b \in 1 .. L + 1, ps[a] = ps[b] PROVE a = b
    <3>0. ASSUME NEW m \in 1 .. L + 1, m # i + 1 PROVE ps[m] # t
      <4>1. pos(m) \in 1 .. L /\ ps[m] = s[pos(m)]
        BY <2>4, <3>0
      <4> HIDE DEF pos
      <4> QED
        BY <1>1, <4>1
    <3>1. CASE a = i + 1 \/ b = i + 1
      BY <2>2, <2>6, <3>0, <3>1, Zenon
    <3>2. CASE a # i + 1 /\ b # i + 1
      <4>1. pos(a) = pos(b)
        BY <2>4, <2>5, <2>6, <3>2
      <4>2. i \in Int /\ a \in Int /\ b \in Int
        OBVIOUS
      <4> QED
        BY <3>2, <4>1, <4>2, MovedDown, Zenon
    <3> QED
      BY <3>1, <3>2
  <2> QED
    BY <2>6 DEF Distinct
<1>4. Deltas(ps, pc, E, L + 1)
  <2>1. L > 0 => c[1] = D[s[1]]
    BY DEF Deltas
  <2>2. \A j \in 2 .. L : c[j] = D[s[j]] - D[s[j - 1]]
    BY DEF Deltas
  <2>3. (\A m \in 1 .. i : ps[m] = s[m]) /\ (\A m \in 1 .. i : pc[m] = d[m])
    BY DEF PutIn
  <2>4. ps[i + 1] = t /\ pc[i + 1] = e
    BY DEF PutIn
  <2>5. (\A m \in i + 1 .. L : ps[m + 1] = s[m]) /\ (\A m \in i + 1 .. L : pc[m + 1] = d[m])
    BY DEF PutIn
  <2>6. (\A m \in 1 .. L : m # i + 1 => d[m] = c[m]) /\ (i < L => d[i + 1] = D[s[i + 1]] - n)
    OBVIOUS
  <2>7. pc[1] = E[ps[1]]
    <3>1. CASE i = 0
      BY <1>2, <2>4, <3>1
    <3>2. CASE i # 0
      BY <1>1, <2>1, <2>3, <2>6, <3>2
    <3> QED
      BY <3>1, <3>2
  <2>8. ASSUME NEW m \in 2 .. L + 1 PROVE pc[m] = E[ps[m]] - E[ps[m - 1]]
    <3>1. CASE m <= i
      <4>1. m \in 1 .. i /\ m - 1 \in 1 .. i /\ m \in 2 .. L /\ m # i + 1 /\ m \in 1 .. L /\ m - 1 \in 1 .. L
        BY <3>1
      <4>2. pc[m] = c[m] /\ ps[m] = s[m] /\ ps[m - 1] = s[m - 1]
        BY <2>3, <2>6, <4>1
      <4> QED
        BY <1>1, <2>2, <4>1, <4>2
    <3>2. CASE m = i + 1
      <4>1. i # 0 /\ i \in 1 .. i /\ i \in 1 .. L /\ m - 1 = i
        BY <3>2
      <4>2. pc[m] = n - D[s[i]] /\ ps[m] = t /\ ps[m - 1] = s[i]
        BY <2>3, <2>4, <3>2, <4>1
      <4> QED
        BY <1>1, <1>2, <4>1, <4>2
    <3>3. CASE m = i + 2
      <4>1. i < L /\ i + 1 \in i + 1 .. L /\ i + 1 \in 1 .. L /\ m - 1 = i + 1 /\ m = (i + 1) + 1
        BY <3>3
      <4>2. pc[m] = D[s[i + 1]] - n /\ ps[m] = s[i + 1] /\ ps[m - 1] = t
        BY <2>4, <2>5, <2>6, <4>1
      <4> QED
        BY <1>1, <1>2, <4>1, <4>2
    <3>4. CASE m > i + 2
      <4>1. /\ m - 1 \in i + 1 .. L /\ m - 2 \in i + 1 .. L /\ m - 1 \in 1 .. L /\ m - 2 \in 1 .. L
            /\ m - 1 \in 2 .. L /\ m = (m - 1) + 1 /\ m - 1 = (m - 2) + 1 /\ (m - 1) - 1 = m - 2 /\ m - 1 # i + 1
        BY <3>4
      <4>2. pc[m] = c[m - 1] /\ ps[m] = s[m - 1] /\ ps[m - 1] = s[m - 2]
        BY <2>5, <2>6, <4>1
      <4>3. c[m - 1] = D[s[m - 1]] - D[s[m - 2]]
        BY <2>2, <4>1
      <4> QED
        BY <1>1, <4>1, <4>2, <4>3
    <3>5. m <= i \/ m = i + 1 \/ m = i + 2 \/ m > i + 2
      OBVIOUS
    <3> QED
      BY <3>1, <3>2, <3>3, <3>4, <3>5, Zenon
  <2> QED
    BY <2>7, <2>8 DEF Deltas
<1> QED
  BY <1>3, <1>4

(* Two differences make one. *)
LEMMA Telescope == \A x, y, z \in Nat : (x - y) + (y - z) = x - z
OBVIOUS

(* ... and with one less. *)
CutStep(T, D, E, L, s, c, i, ps, d, pc) ==
    /\ L \in Nat /\ i \in 1 .. L
    /\ D \in [T -> Nat] /\ E \in [T -> Nat] /\ \A u \in T : u # s[i] => E[u] = D[u]
    /\ s \in [1 .. L -> T] /\ c \in [1 .. L -> Nat]
    /\ Distinct(s, L) /\ Deltas(s, c, D, L)
    /\ CutOut(ps, s, i, L) /\ CutOut(pc, d, i, L)
    /\ d = IF i < L THEN [c EXCEPT ![i + 1] = c[i + 1] + c[i]] ELSE c

LEMMA CutExact ==
    ASSUME NEW T, NEW D, NEW E, NEW L, NEW s, NEW c, NEW i,
           NEW ps, NEW d, NEW pc, CutStep(T, D, E, L, s, c, i, ps, d, pc)
    PROVE  Distinct(ps, L - 1) /\ Deltas(ps, pc, E, L - 1)
<1> USE DEF CutStep
<1>1. \A a, b \in 1 .. L : s[a] = s[b] => a = b
  BY DEF Distinct
<1>2. \A j \in 1 .. L : D[s[j]] \in Nat /\ (j # i => E[s[j]] = D[s[j]])
  BY <1>1
<1>3. (\A m \in 1 .. i - 1 : ps[m] = s[m]) /\ (\A m \in 1 .. i - 1 : pc[m] = d[m])
  BY DEF CutOut
<1>4. (\A m \in i .. L - 1 : ps[m] = s[m + 1]) /\ (\A m \in i .. L - 1 : pc[m] = d[m + 1])
  BY DEF CutOut
<1>5. Distinct(ps, L - 1)
  <2> DEFINE pos(m) == IF m < i THEN m ELSE m + 1
  <2>1. \A m \in 1 .. L - 1 : pos(m) \in 1 .. L /\ ps[m] = s[pos(m)]
    BY <1>3, <1>4
  <2>2. ASSUME NEW a \in 1 .. L - 1, NEW b \in 1 .. L - 1, ps[a] = ps[b] PROVE a = b
    <3>1. pos(a) = pos(b)
      BY <1>1, <2>1, <2>2
    <3>2. i \in Int /\ a \in Int /\ b \in Int
      OBVIOUS
    <3> QED
      BY <3>1, <3>2, MovedUp, Zenon
  <2> QED
    BY <2>2 DEF Distinct
<1>6. Deltas(ps, pc, E, L - 1)
  <2>1. L > 0 => c[1] = D[s[1]]
    BY DEF Deltas
  <2>2. \A j \in 2 .. L : c[j] = D[s[j]] - D[s[j - 1]]
    BY DEF Deltas
  <2>3. (\A m \in 1 .. L : m # i + 1 => d[m] = c[m]) /\ (i < L => d[i + 1] = c[i + 1] + c[i])
    OBVIOUS
  <2>4. L - 1 > 0 => pc[1] = E[ps[1]]
    <3>1. CASE i = 1 /\ L > 1
      <4>1. pc[1] = c[2] + c[1] /\ ps[1] = s[2] /\ 2 \in 1 .. L /\ 2 \in 2 .. L /\ 1 \in 1 .. L
        BY <1>4, <2>3, <3>1
      <4>2. c[2] = D[s[2]] - D[s[1]] /\ c[1] = D[s[1]]
        BY <2>1, <2>2, <3>1, <4>1
      <4> QED
        BY <1>2, <3>1, <4>1, <4>2
    <3>2. CASE i > 1
      BY <1>2, <1>3, <2>1, <2>3, <3>2
    <3> QED
      BY <3>1, <3>2
  <2>5. ASSUME NEW m \in 2 .. L - 1 PROVE pc[m] = E[ps[m]] - E[ps[m - 1]]
    <3>1. CASE m < i
      <4>1. m \in 1 .. i - 1 /\ m - 1 \in 1 .. i - 1 /\ m \in 2 .. L /\ m # i + 1 /\ m \in 1 .. L /\ m - 1 \in 1 .. L
            /\ m # i /\ m - 1 # i
        BY <3>1
      <4>2. pc[m] = c[m] /\ ps[m] = s[m] /\ ps[m - 1] = s[m - 1]
        BY <1>3, <2>3, <4>1
      <4> QED
        BY <1>2, <2>2, <4>1, <4>2
    <3>2. CASE m = i
      <4>1. i < L /\ i \in i .. L - 1 /\ i - 1 \in 1 .. i - 1 /\ i \in 2 .. L /\ i + 1 \in 2 .. L /\ (i + 1) - 1 = i
            /\ i - 1 \in 1 .. L /\ i + 1 \in 1 .. L /\ i - 1 # i /\ i + 1 # i
        BY <3>2
      <4>2. pc[m] = c[i + 1] + c[i] /\ ps[m] = s[i + 1] /\ ps[m - 1] = s[i - 1]
        BY <1>3, <1>4, <2>3, <3>2, <4>1
      <4>3. c[i + 1] = D[s[i + 1]] - D[s[i]] /\ c[i] = D[s[i]] - D[s[i - 1]]
        BY <2>2, <4>1
      <4>4. /\ D[s[i + 1]] \in Nat /\ D[s[i]] \in Nat /\ D[s[i - 1]] \in Nat
            /\ E[s[i + 1]] = D[s[i + 1]] /\ E[s[i - 1]] = D[s[i - 1]]
        BY <1>2, <4>1
      <4>5. pc[m] = D[s[i + 1]] - D[s[i - 1]]
        <5>1. pc[m] = (D[s[i + 1]] - D[s[i]]) + (D[s[i]] - D[s[i - 1]])
          BY <4>2, <4>3
        <5> QED
          BY <4>4, <5>1, Telescope, Zenon
      <4> QED
        BY <4>2, <4>4, <4>5
    <3>3. CASE m > i
      <4>1. m \in i .. L - 1 /\ m - 1 \in i .. L - 1 /\ m + 1 \in 2 .. L /\ m + 1 \in 1 .. L /\ m \in 1 .. L
            /\ m + 1 # i + 1 /\ m + 1 # i /\ m # i /\ (m - 1) + 1 = m /\ (m + 1) - 1 = m
        BY <3>3
      <4>2. pc[m] = c[m + 1] /\ ps[m] = s[m + 1] /\ ps[m - 1] = s[m]
        BY <1>4, <2>3, <4>1
      <4>3. c[m + 1] = D[s[m + 1]] - D[s[m]]
        BY <2>2, <4>1
      <4> QED
        BY <1>2, <4>1, <4>2, <4>3
    <3>4. m < i \/ m = i \/ m > i
      OBVIOUS
    <3> QED
      BY <3>1, <3>2, <3>3, <3>4, Zenon
  <2> QED
    BY <2>4, <2>5 DEF Deltas
<1> QED
  BY <1>5, <1>6

(* Inserting puts the timer behind those that expire before it or with it and *)
(* keeps the times of all.                                                    *)
LEMMA InsertPlace ==
    ASSUME NEW l, NEW D \in [Timers -> Nat], Exact(l, D), NEW n \in Nat
    PROVE  \E j \in 0 .. Len(l.list) : /\ \A m \in 1 .. j : Until(l, m) <= n
                                       /\ j < Len(l.list) => n < Until(l, j + 1)
<1> DEFINE L == Len(l.list)
<1> SUFFICES \E j \in 0 .. L : /\ \A m \in 1 .. j : Until(l, m) <= n
                               /\ j < L => n < Until(l, j + 1)
  OBVIOUS
<1>0. L \in Nat /\ \A j \in 1 .. L : Until(l, j) \in Nat
  <2>1. L \in Nat /\ l.list \in Seq(Timers)
    BY DEF Exact
  <2>2. ASSUME NEW j \in 1 .. L PROVE Until(l, j) \in Nat
    <3>1. j \in 0 .. Len(l.list) /\ j # 0 /\ j \in 1 .. Len(l.list)
      BY <2>1
    <3>2. Until(l, j) = D[l.list[j]]
      BY <3>1, UntilIs
    <3>3. l.list[j] \in Timers
      BY <2>1, <3>1, ElementOfSeq
    <3> QED
      BY <3>2, <3>3
  <2> QED
    BY <2>1, <2>2
<1> HIDE DEF L
<1> DEFINE U == [j \in 1 .. L |-> Until(l, j)]
<1>1. \A j \in 1 .. L : U[j] \in Nat /\ U[j] = Until(l, j)
  BY <1>0
<1> HIDE DEF U
<1> DEFINE Later == {j \in 1 .. L : U[j] > n}
<1>2. CASE Later = {}
  <2>1. L \in 0 .. L /\ \A m \in 1 .. L : Until(l, m) <= n
    BY <1>0, <1>1, <1>2
  <2> QED
    BY <1>0, <2>1
<1>3. CASE Later # {}
  <2>1. PICK p \in Later : \A m \in Later : p <= m
    <3>1. Later \in SUBSET Nat
      BY <1>0
    <3> QED
      BY <1>3, <3>1, Least
  <2>2. p \in 1 .. L /\ U[p] > n /\ p - 1 \in 0 .. L /\ p - 1 + 1 = p
    BY <1>0
  <2>3. ASSUME NEW m \in 1 .. p - 1 PROVE Until(l, m) <= n
    <3>1. m \in 1 .. L /\ m < p
      BY <1>0, <2>2
    <3>2. ~(U[m] > n)
      BY <1>0, <2>1, <2>2, <3>1
    <3> QED
      BY <1>1, <3>1, <3>2
  <2>4. n < Until(l, p - 1 + 1)
    BY <1>1, <2>2
  <2> QED
    BY <2>2, <2>3, <2>4
<1> QED
  BY <1>2, <1>3

LEMMA InsertExact ==
    ASSUME NEW l, NEW D \in [Timers -> Nat], Exact(l, D),
           NEW t \in Timers, ~Listed(l, t), NEW n \in Nat
    PROVE  \E i \in 0 .. Len(l.list) :
              LET r == rt_timer_insert(l, t, n)
              IN  /\ Exact(r, [D EXCEPT ![t] = n])
                  /\ Len(r.list) = Len(l.list) + 1 /\ PutIn(r.list, l.list, i, t, Len(l.list))
                  /\ i < Len(l.list) => n < D[l.list[i + 1]]
<1> DEFINE L == Len(l.list)
           Fits(j) == /\ \A m \in 1 .. j : Until(l, m) <= n
                      /\ j < L => n < Until(l, j + 1)
           i == CHOOSE j \in 0 .. L : Fits(j)
           mine == n - Until(l, i)
           rest == IF i < L THEN [l.tcnt EXCEPT ![i + 1] = l.tcnt[i + 1] - mine] ELSE l.tcnt
           r == [list |-> Put(l.list, i, t), tcnt |-> Put(rest, i, mine)]
<1>1. rt_timer_insert(l, t, n) = r
  BY DEF rt_timer_insert
<1>2. i \in 0 .. L /\ Fits(i)
  <2>1. \E j \in 0 .. L : Fits(j)
    <3>1. \E j \in 0 .. Len(l.list) : /\ \A m \in 1 .. j : Until(l, m) <= n
                                      /\ j < Len(l.list) => n < Until(l, j + 1)
      BY InsertPlace
    <3> QED
      BY <3>1, Zenon
  <2> QED
    BY <2>1, Zenon
<1> HIDE DEF i
<1>3. /\ L \in Nat /\ l.list \in Seq(Timers) /\ l.tcnt \in Seq(Nat) /\ Len(l.tcnt) = L
      /\ Distinct(l.list, L) /\ Deltas(l.list, l.tcnt, D, L)
  BY DEF Exact
<1> HIDE DEF L
<1>4. l.list \in [1 .. L -> Timers \ {t}] /\ l.tcnt \in [1 .. L -> Nat]
  BY <1>3 DEF Listed, L
<1>5. /\ i > 0 => Until(l, i) <= n /\ Until(l, i) = D[l.list[i]] /\ D[l.list[i]] \in Nat
      /\ i = 0 => Until(l, i) = 0
      /\ i < L => n < D[l.list[i + 1]] /\ D[l.list[i + 1]] \in Nat
  <2>1. Until(l, i) = IF i = 0 THEN 0 ELSE D[l.list[i]]
    BY <1>2, UntilIs DEF L
  <2>2. i < L => Until(l, i + 1) = D[l.list[i + 1]]
    <3>1. i < L => i + 1 \in 0 .. L /\ i + 1 # 0
      BY <1>2, <1>3
    <3> QED
      BY <3>1, UntilIs DEF L
  <2>3. (i > 0 => i \in 1 .. i /\ i \in 1 .. L /\ i # 0) /\ (i < L => i + 1 \in 1 .. L)
    BY <1>2, <1>3
  <2>4. (i > 0 => D[l.list[i]] \in Nat) /\ (i < L => D[l.list[i + 1]] \in Nat)
    BY <1>4, <2>3
  <2> QED
    BY <1>2, <2>1, <2>2, <2>3, <2>4
<1>6. mine \in Nat /\ mine = IF i = 0 THEN n ELSE n - D[l.list[i]]
  BY <1>2, <1>3, <1>5
<1> HIDE DEF mine, Fits
<1>7. i < L => l.tcnt[i + 1] - mine = D[l.list[i + 1]] - n
  <2>1. i = 0 /\ i < L => l.tcnt[1] = D[l.list[1]]
    BY <1>2, <1>3 DEF Deltas
  <2>2. ASSUME i > 0, i < L PROVE l.tcnt[i + 1] = D[l.list[i + 1]] - D[l.list[i]]
    <3>1. i + 1 \in 2 .. L /\ i + 1 - 1 = i
      BY <1>2, <1>3, <2>2
    <3>2. \A j \in 2 .. L : l.tcnt[j] = D[l.list[j]] - D[l.list[j - 1]]
      BY <1>3 DEF Deltas
    <3> QED
      BY <1>2, <1>3, <3>1, <3>2
  <2>3. CASE i = 0
    BY <1>5, <1>6, <2>1, <2>3
  <2>4. CASE i > 0
    BY <1>5, <1>6, <2>2, <2>4
  <2> QED
    BY <1>2, <2>3, <2>4
<1>8. rest = IF i < L THEN [l.tcnt EXCEPT ![i + 1] = D[l.list[i + 1]] - n] ELSE l.tcnt
  BY <1>7
<1> HIDE DEF rest
<1>9. rest \in Seq(Nat) /\ Len(rest) = L
  <2>1. CASE i < L
    <3> DEFINE v == D[l.list[i + 1]]
    <3>1. i + 1 \in 1 .. Len(l.tcnt)
      BY <1>2, <1>3, <2>1
    <3>2. n < v /\ v \in Nat
      BY <1>5, <2>1
    <3> HIDE DEF v
    <3>3. v - n \in Nat
      BY <3>2
    <3>4. rest = [l.tcnt EXCEPT ![i + 1] = v - n]
      BY <1>8, <2>1 DEF v
    <3> QED
      BY <1>3, <3>1, <3>3, <3>4, ExceptSeq
  <2>2. CASE ~(i < L)
    BY <1>3, <1>8, <2>2
  <2> QED
    BY <2>1, <2>2
<1>10. /\ r.list \in Seq(Timers) /\ Len(r.list) = L + 1 /\ PutIn(r.list, l.list, i, t, L)
  BY <1>2, <1>3, PutAt DEF L
<1>11. /\ r.tcnt \in Seq(Nat) /\ Len(r.tcnt) = L + 1 /\ PutIn(r.tcnt, rest, i, mine, L)
  <2>1. i \in 0 .. Len(rest)
    BY <1>2, <1>9
  <2>2. /\ Put(rest, i, mine) \in Seq(Nat) /\ Len(Put(rest, i, mine)) = Len(rest) + 1
        /\ PutIn(Put(rest, i, mine), rest, i, mine, Len(rest))
    BY <1>6, <1>9, <2>1, PutAt
  <2> QED
    BY <1>9, <2>2
<1> HIDE DEF r
<1>12. Distinct(r.list, L + 1) /\ Deltas(r.list, r.tcnt, [D EXCEPT ![t] = n], L + 1)
  <2>1. PutStep(Timers, D, [D EXCEPT ![t] = n], L, l.list, l.tcnt, i, t, n, r.list, rest, mine, r.tcnt)
    BY <1>2, <1>3, <1>4, <1>6, <1>8, <1>10, <1>11, Zenon DEF PutStep
  <2> QED
    BY <2>1, PutExact
<1>13. Exact(r, [D EXCEPT ![t] = n])
  BY <1>10, <1>11, <1>12 DEF Exact
<1> QED
  BY <1>1, <1>2, <1>5, <1>10, <1>13 DEF L

(* Taking a timer out keeps the times of the others. *)
LEMMA RemoveExact ==
    ASSUME NEW l, NEW D \in [Timers -> Nat], Exact(l, D),
           NEW t \in Timers, Listed(l, t),
           NEW E \in [Timers -> Nat], \A u \in Timers : u # t => E[u] = D[u]
    PROVE  \E i \in 1 .. Len(l.list) :
              LET r == rt_timer_remove(l, t)
              IN  /\ l.list[i] = t /\ Exact(r, E)
                  /\ Len(r.list) = Len(l.list) - 1 /\ CutOut(r.list, l.list, i, Len(l.list))
<1> DEFINE L == Len(l.list)
           i == Place(l, t)
           rest == IF i < L THEN [l.tcnt EXCEPT ![i + 1] = l.tcnt[i + 1] + l.tcnt[i]] ELSE l.tcnt
           r == [list |-> Cut(l.list, i), tcnt |-> Cut(rest, i)]
<1>1. rt_timer_remove(l, t) = r
  BY DEF rt_timer_remove
<1>2. i \in 1 .. L /\ l.list[i] = t
  BY Zenon DEF Listed, Place
<1> HIDE DEF i
<1>3. /\ L \in Nat /\ l.list \in Seq(Timers) /\ l.tcnt \in Seq(Nat) /\ Len(l.tcnt) = L
      /\ Distinct(l.list, L) /\ Deltas(l.list, l.tcnt, D, L)
  BY DEF Exact
<1> HIDE DEF L
<1>4. l.list \in [1 .. L -> Timers] /\ l.tcnt \in [1 .. L -> Nat]
  BY <1>3 DEF L
<1>5. rest \in Seq(Nat) /\ Len(rest) = L
  <2>1. CASE i < L
    <3>0. i \in 1 .. L /\ i + 1 \in 1 .. L
      BY <1>2, <1>3, <2>1
    <3>1. l.tcnt[i] \in Nat /\ l.tcnt[i + 1] \in Nat
      BY <1>4, <3>0
    <3>2. i + 1 \in 1 .. Len(l.tcnt) /\ l.tcnt[i + 1] + l.tcnt[i] \in Nat
      BY <1>3, <3>0, <3>1
    <3> QED
      BY <1>3, <2>1, <3>2, ExceptSeq
  <2>2. CASE ~(i < L)
    BY <1>3, <2>2
  <2> QED
    BY <2>1, <2>2
<1>6. /\ r.list \in Seq(Timers) /\ Len(r.list) = L - 1 /\ CutOut(r.list, l.list, i, L)
  BY <1>2, <1>3, CutAt DEF L
<1>7. /\ r.tcnt \in Seq(Nat) /\ Len(r.tcnt) = L - 1 /\ CutOut(r.tcnt, rest, i, L)
  BY <1>2, <1>5, CutAt
<1> HIDE DEF r
<1>8. Distinct(r.list, L - 1) /\ Deltas(r.list, r.tcnt, E, L - 1)
  <2>1. CutStep(Timers, D, E, L, l.list, l.tcnt, i, r.list, rest, r.tcnt)
    BY <1>2, <1>3, <1>4, <1>6, <1>7, Zenon DEF CutStep
  <2> QED
    BY <2>1, CutExact
<1>9. Exact(r, E)
  BY <1>6, <1>7, <1>8 DEF Exact
<1> QED
  BY <1>1, <1>2, <1>6, <1>9 DEF L

(* Who is in the list afterwards. *)
LEMMA PutListed ==
    ASSUME NEW l, NEW r, NEW t, NEW i, NEW L \in Nat, i \in 0 .. L, L = Len(l.list), Len(r.list) = L + 1,
           PutIn(r.list, l.list, i, t, L)
    PROVE  \A u : Listed(r, u) <=> u = t \/ Listed(l, u)
<1>1. (\A m \in 1 .. i : r.list[m] = l.list[m]) /\ r.list[i + 1] = t
  BY DEF PutIn
<1>2. \A m \in i + 1 .. L : r.list[m + 1] = l.list[m]
  BY DEF PutIn
<1>3. ASSUME NEW u, Listed(r, u) PROVE u = t \/ Listed(l, u)
  <2>1. PICK m \in 1 .. L + 1 : r.list[m] = u
    BY <1>3 DEF Listed
  <2>2. CASE m <= i
    <3>1. m \in 1 .. i /\ m \in 1 .. L
      BY <2>2
    <3> QED
      BY <1>1, <2>1, <3>1 DEF Listed
  <2>3. CASE m = i + 1
    BY <1>1, <2>1, <2>3
  <2>4. CASE m > i + 1
    <3>1. m - 1 \in i + 1 .. L /\ m - 1 \in 1 .. L /\ m - 1 + 1 = m
      BY <2>4
    <3>2. l.list[m - 1] = u
      BY <1>2, <2>1, <3>1
    <3> QED
      BY <3>1, <3>2 DEF Listed
  <2> QED
    BY <2>2, <2>3, <2>4
<1>4. Listed(r, t)
  <2>1. i + 1 \in 1 .. L + 1
    OBVIOUS
  <2> QED
    BY <1>1, <2>1 DEF Listed
<1>5. ASSUME NEW u, Listed(l, u) PROVE Listed(r, u)
  <2>1. PICK m \in 1 .. L : l.list[m] = u
    BY <1>5 DEF Listed
  <2>2. CASE m <= i
    <3>1. m \in 1 .. i /\ m \in 1 .. L + 1
      BY <2>2
    <3> QED
      BY <1>1, <2>1, <3>1 DEF Listed
  <2>3. CASE m > i
    <3>1. m \in i + 1 .. L /\ m + 1 \in 1 .. L + 1
      BY <2>3
    <3>2. r.list[m + 1] = u
      BY <1>2, <2>1, <3>1
    <3> QED
      BY <3>1, <3>2 DEF Listed
  <2> QED
    BY <2>2, <2>3
<1> QED
  BY <1>3, <1>4, <1>5

LEMMA CutListed ==
    ASSUME NEW l, NEW r, NEW i, NEW L \in Nat, i \in 1 .. L, L = Len(l.list), Len(r.list) = L - 1,
           Distinct(l.list, L), CutOut(r.list, l.list, i, L)
    PROVE  \A u : Listed(r, u) <=> u # l.list[i] /\ Listed(l, u)
<1>1. \A m \in 1 .. i - 1 : r.list[m] = l.list[m]
  BY DEF CutOut
<1>2. \A m \in i .. L - 1 : r.list[m] = l.list[m + 1]
  BY DEF CutOut
<1>3. \A a, b \in 1 .. L : l.list[a] = l.list[b] => a = b
  BY DEF Distinct
<1>4. ASSUME NEW u, Listed(r, u) PROVE u # l.list[i] /\ Listed(l, u)
  <2>1. PICK m \in 1 .. L - 1 : r.list[m] = u
    BY <1>4 DEF Listed
  <2>2. \E p \in 1 .. L : p # i /\ l.list[p] = u
    <3>1. CASE m < i
      <4>1. m \in 1 .. i - 1 /\ m \in 1 .. L /\ m # i
        BY <3>1
      <4> QED
        BY <1>1, <2>1, <4>1
    <3>2. CASE m >= i
      <4>1. m \in i .. L - 1 /\ m + 1 \in 1 .. L /\ m + 1 # i
        BY <3>2
      <4> QED
        BY <1>2, <2>1, <4>1
    <3> QED
      BY <3>1, <3>2
  <2> QED
    BY <1>3, <2>2 DEF Listed
<1>5. ASSUME NEW u, u # l.list[i], Listed(l, u) PROVE Listed(r, u)
  <2>1. PICK m \in 1 .. L : l.list[m] = u
    BY <1>5 DEF Listed
  <2>2. CASE m < i
    <3>1. m \in 1 .. i - 1 /\ m \in 1 .. L - 1
      BY <2>2
    <3> QED
      BY <1>1, <2>1, <3>1 DEF Listed
  <2>3. CASE m > i
    <3>1. m - 1 \in i .. L - 1 /\ m - 1 \in 1 .. L - 1 /\ m - 1 + 1 = m
      BY <2>3
    <3>2. r.list[m - 1] = u
      BY <1>2, <2>1, <3>1
    <3> QED
      BY <3>1, <3>2 DEF Listed
  <2>4. m # i
    BY <1>5, <2>1
  <2> QED
    BY <2>2, <2>3, <2>4
<1> QED
  BY <1>4, <1>5

-----------------------------------------------------------------------------
(* The tick                                                                   *)

(* In a list with exact times the timers with nothing left are at the head.   *)
LEMMA ZerosFirst ==
    ASSUME NEW l, NEW D \in [Timers -> Nat], Exact(l, D)
    PROVE  \E q \in 0 .. Len(l.list) : /\ \A m \in 1 .. q : D[l.list[m]] = 0
                                       /\ \A m \in q + 1 .. Len(l.list) : D[l.list[m]] > 0
<1> DEFINE L == Len(l.list)
<1>1. L \in Nat /\ l.list \in [1 .. L -> Timers] /\ l.tcnt \in [1 .. L -> Nat]
  BY DEF Exact
<1>2. \A m \in 2 .. L : l.tcnt[m] = D[l.list[m]] - D[l.list[m - 1]]
  BY DEF Exact, Deltas
<1> DEFINE X == [m \in 1 .. L |-> D[l.list[m]]]
<1>3. X \in [1 .. L -> Nat] /\ \A m \in 1 .. L : X[m] = D[l.list[m]]
  BY <1>1
<1> SUFFICES \E q \in 0 .. L : (\A m \in 1 .. q : X[m] = 0) /\ (\A m \in q + 1 .. L : X[m] > 0)
  <2>1. PICK q \in 0 .. L : (\A m \in 1 .. q : X[m] = 0) /\ (\A m \in q + 1 .. L : X[m] > 0)
    OBVIOUS
  <2> HIDE DEF X, L
  <2>2. \A m \in 1 .. q : D[l.list[m]] = 0
    BY <1>1, <1>3, <2>1
  <2>3. \A m \in q + 1 .. L : D[l.list[m]] > 0
    BY <1>1, <1>3, <2>1
  <2> QED
    BY <2>2, <2>3 DEF L
<1> HIDE DEF X, L
<1>4. \A m \in 2 .. L : X[m] >= X[m - 1]
  <2> SUFFICES ASSUME NEW m \in 2 .. L PROVE X[m] >= X[m - 1]
    OBVIOUS
  <2>1. m \in 1 .. L /\ m - 1 \in 1 .. L
    BY <1>1
  <2>2. l.tcnt[m] \in Nat /\ l.tcnt[m] = X[m] - X[m - 1] /\ X[m] \in Nat /\ X[m - 1] \in Nat
    BY <1>1, <1>2, <1>3, <2>1
  <2> QED
    BY <2>2
<1> DEFINE Some == {m \in 1 .. L : X[m] > 0}
<1>5. CASE Some = {}
  <2>1. ASSUME NEW m \in 1 .. L PROVE X[m] = 0
    <3>1. ~(X[m] > 0) /\ X[m] \in Nat
      BY <1>3, <1>5
    <3> QED
      BY <3>1
  <2>2. L \in 0 .. L /\ \A m \in L + 1 .. L : FALSE
    BY <1>1
  <2> QED
    BY <2>1, <2>2
<1>6. CASE Some # {}
  <2>1. PICK p \in Some : \A m \in Some : p <= m
    <3>1. Some \in SUBSET Nat
      BY <1>1
    <3> QED
      BY <1>6, <3>1, Least
  <2>2. p \in 1 .. L /\ X[p] > 0 /\ p - 1 \in 0 .. L /\ p - 1 + 1 = p
    BY <1>1
  <2>3. \A m \in 1 .. p - 1 : X[m] = 0
    BY <1>1, <1>3, <2>1, <2>2
  <2> DEFINE Bad == {m \in p .. L : X[m] = 0}
  <2>4. Bad = {}
    <3> SUFFICES ASSUME Bad # {} PROVE FALSE
      OBVIOUS
    <3>1. PICK m \in Bad : \A j \in Bad : m <= j
      <4>1. Bad \in SUBSET Nat
        BY <1>1, <2>2
      <4> QED
        BY <4>1, Least
    <3>2. m \in p .. L /\ X[m] = 0 /\ m # p
      BY <2>2
    <3>3. m \in 2 .. L /\ m - 1 \in p .. L /\ m - 1 \in 1 .. L /\ m - 1 < m
      BY <1>1, <2>2, <3>2
    <3>4. X[m - 1] # 0
      BY <3>1, <3>3
    <3> QED
      BY <1>3, <1>4, <3>2, <3>3, <3>4
  <2>5. ASSUME NEW m \in p - 1 + 1 .. L PROVE X[m] > 0
    <3>1. m \in p .. L /\ m \in 1 .. L
      BY <1>1, <2>2
    <3>2. X[m] # 0 /\ X[m] \in Nat
      BY <1>3, <2>4, <3>1
    <3> QED
      BY <3>2
  <2> QED
    BY <2>2, <2>3, <2>5
<1> QED
  BY <1>5, <1>6

(* The loop of the tick has a value. *)
LEMMA RunExists ==
    ASSUME NEW start, NEW n \in Nat
    PROVE  \E f : f = [j \in 0 .. n |-> IF j = 0 THEN start ELSE Serve(f[j - 1])]
<1> DEFINE Runs(f, m) == f = [j \in 0 .. m |-> IF j = 0 THEN start ELSE Serve(f[j - 1])]
           Bad == {m \in Nat : ~\E f : Runs(f, m)}
<1>1. Bad = {}
  <2> SUFFICES ASSUME Bad # {} PROVE FALSE
    OBVIOUS
  <2>1. PICK m \in Bad : \A j \in Bad : m <= j
    <3>1. Bad \in SUBSET Nat
      OBVIOUS
    <3> QED
      BY <3>1, Least
  <2>2. CASE m = 0
    <3>1. Runs([j \in 0 .. 0 |-> start], 0)
      OBVIOUS
    <3> QED
      BY <2>2, <3>1
  <2>3. CASE m # 0
    <3>0. m - 1 \in Nat /\ ~(m <= m - 1)
      BY <2>3
    <3>1. m - 1 \in Nat /\ m - 1 \notin Bad
      BY <2>1, <3>0, Zenon
    <3>2. PICK g : Runs(g, m - 1)
      BY <3>1
    <3>3. \A j \in 0 .. m - 1 : g[j] = IF j = 0 THEN start ELSE Serve(g[j - 1])
      BY <3>2
    <3> DEFINE h == [j \in 0 .. m |-> IF j = m THEN Serve(g[m - 1]) ELSE g[j]]
    <3>4. ASSUME NEW j \in 0 .. m PROVE h[j] = IF j = 0 THEN start ELSE Serve(h[j - 1])
      <4>1. CASE j = m
        BY <2>3, <4>1
      <4>2. CASE j # m
        <5>1. j \in 0 .. m - 1 /\ (j # 0 => j - 1 \in 0 .. m /\ j - 1 # m)
          BY <4>2
        <5>2. h[j] = g[j] /\ (j # 0 => h[j - 1] = g[j - 1])
          BY <4>2, <5>1
        <5> HIDE DEF h
        <5> QED
          BY <3>3, <5>1, <5>2
      <4> QED
        BY <4>1, <4>2
    <3>5. h = [j \in 0 .. m |-> h[j]]
      OBVIOUS
    <3> HIDE DEF h
    <3>6. Runs(h, m)
      BY <3>4, <3>5
    <3> QED
      BY <3>6
  <2> QED
    BY <2>2, <2>3
<1> QED
  BY <1>1

(* Types, the list and the times, and a period for whoever runs. *)
TInv ==
    /\ due \in [Timers -> Nat] /\ icnt \in [Timers -> Nat]
    /\ state \in [Timers -> {"Invalid", "Stopped", "Running"}]
    /\ type \in [Timers -> {"Once", "Periodic"}]
    /\ Exact(List, due)
    /\ \A t \in Timers : due[t] > 0 <=> Listed(List, t)
    /\ \A t \in Timers : state[t] = "Running" <=> Listed(List, t)
    /\ \A t \in Timers : due[t] > 0 => icnt[t] > 0

(* The first q timers of the list expire in this tick, no other does.  After  *)
(* j steps of the loop the first j of them have been served.                  *)
Expiring(q) ==
    /\ \A m \in 1 .. q : due[list[m]] = 1
    /\ \A m \in q + 1 .. Len(list) : due[list[m]] > 1
Served(j, q) == {list[m] : m \in {x \in 1 .. q : x <= j}}
Ended(t, j, q) == t \in Served(j, q) /\ type[t] = "Once"
DueAt(j, q) == [t \in Timers |-> IF t \in Served(j, q) /\ type[t] = "Periodic" THEN icnt[t]
                                 ELSE IF due[t] = 0 THEN 0 ELSE due[t] - 1]
RunAt(r, j, q) ==
    /\ Exact(r.l, DueAt(j, q))
    /\ \A t \in Timers : Listed(r.l, t) <=> due[t] > 0 /\ ~Ended(t, j, q)
    /\ r.s = [t \in Timers |-> IF Ended(t, j, q) THEN "Stopped" ELSE state[t]]
    /\ \A m \in 1 .. q - j : m \in 1 .. Len(r.l.list) /\ r.l.list[m] = list[j + m]

LEMMA DueType == ASSUME TInv, NEW j, NEW q PROVE DueAt(j, q) \in [Timers -> Nat]
BY DEF TInv, DueAt

(* The loop serves the next timer that expires ... *)
LEMMA ServeNext ==
    ASSUME TInv, NEW q \in 0 .. Len(list), Expiring(q), NEW j \in Nat, j < q,
           NEW r, RunAt(r, j, q)
    PROVE  RunAt(Serve(r), j + 1, q)
<1> DEFINE t == list[j + 1]
           D == DueAt(j, q)
           L == Len(r.l.list)
           rest == [list |-> Tail(r.l.list), tcnt |-> Tail(r.l.tcnt)]
           x == Expire(r.l)
           y == IF type[t] = "Once" THEN [r.s EXCEPT ![t] = "Stopped"] ELSE r.s
<1>1. /\ list \in Seq(Timers) /\ Len(list) \in Nat /\ Distinct(list, Len(list))
      /\ j + 1 \in 1 .. q /\ j + 1 \in 1 .. Len(list) /\ t \in Timers /\ due[t] = 1 /\ icnt[t] \in Nat /\ icnt[t] > 0
  <2>1. list \in Seq(Timers) /\ Len(list) \in Nat /\ Distinct(list, Len(list))
    BY DEF TInv, Exact, List
  <2>2. j + 1 \in 1 .. q /\ j + 1 \in 1 .. Len(list)
    BY <2>1
  <2>3. t \in Timers /\ due[t] = 1
    BY <2>1, <2>2, ElementOfSeq DEF Expiring
  <2> QED
    BY <2>1, <2>2, <2>3 DEF TInv
<1>2. /\ L \in Nat /\ r.l.list \in Seq(Timers) /\ r.l.tcnt \in Seq(Nat) /\ Len(r.l.tcnt) = L
      /\ Distinct(r.l.list, L) /\ Deltas(r.l.list, r.l.tcnt, D, L)
  BY DEF RunAt, Exact
<1>3. 1 \in 1 .. L /\ r.l.list[1] = t
  <2>1. 1 \in 1 .. q - j /\ j + 1 = j + 1
    BY <1>1
  <2> QED
    BY <2>1 DEF RunAt
<1>4. \A u : u \in Served(j + 1, q) <=> u = t \/ u \in Served(j, q)
  <2>1. \A m \in 1 .. q : m <= j + 1 <=> m <= j \/ m = j + 1
    BY <1>1
  <2> QED
    BY <1>1, <2>1 DEF Served
<1>5. t \notin Served(j, q)
  <2> SUFFICES ASSUME NEW m \in 1 .. q, m <= j, list[m] = t PROVE FALSE
    BY DEF Served
  <2>1. m \in 1 .. Len(list)
    BY <1>1
  <2>2. m = j + 1
    BY <1>1, <2>1 DEF Distinct
  <2> QED
    BY <2>2
<1>6. D \in [Timers -> Nat] /\ D[t] = 0
  BY <1>1, <1>5, DueType DEF DueAt
<1>7. r.l.tcnt[1] = 0
  BY <1>2, <1>3, <1>6 DEF Deltas
<1>8. Serve(r).l = x /\ Serve(r).s = y
  <2>1. r.l.list # <<>> /\ Head(r.l.list) = t /\ Head(r.l.tcnt) = 0
    BY <1>2, <1>3, <1>7
  <2> QED
    BY <2>1 DEF Serve
<1>9. x = IF type[t] = "Periodic" THEN rt_timer_insert(rest, t, icnt[t]) ELSE rest
  <2>1. Head(r.l.list) = t
    BY <1>2, <1>3
  <2> QED
    BY <2>1 DEF Expire
<1>10. /\ rest.list \in Seq(Timers) /\ rest.tcnt \in Seq(Nat) /\ Len(rest.list) = L - 1 /\ Len(rest.tcnt) = L - 1
       /\ CutOut(rest.list, r.l.list, 1, L) /\ CutOut(rest.tcnt, r.l.tcnt, 1, L)
  BY <1>2, <1>3 DEF CutOut
<1> HIDE DEF rest, D, L, x, y, t
<1>11. Exact(rest, D)
  <2>1. r.l.tcnt = IF 1 < L THEN [r.l.tcnt EXCEPT ![1 + 1] = r.l.tcnt[1 + 1] + r.l.tcnt[1]] ELSE r.l.tcnt
    BY <1>2, <1>7
  <2>2. r.l.list \in [1 .. L -> Timers] /\ r.l.tcnt \in [1 .. L -> Nat]
    BY <1>2 DEF L
  <2>3. CutStep(Timers, D, D, L, r.l.list, r.l.tcnt, 1, rest.list, r.l.tcnt, rest.tcnt)
    BY <1>2, <1>3, <1>6, <1>10, <2>1, <2>2, Zenon DEF CutStep
  <2>4. Distinct(rest.list, L - 1) /\ Deltas(rest.list, rest.tcnt, D, L - 1)
    BY <2>3, CutExact
  <2> QED
    BY <1>10, <2>4 DEF Exact
<1>12. \A u : Listed(rest, u) <=> u # t /\ Listed(r.l, u)
  <2>1. PICK a, i : a = r.l /\ i = 1
    OBVIOUS
  <2>2. /\ Len(a.list) \in Nat /\ i \in 1 .. Len(a.list) /\ Len(rest.list) = Len(a.list) - 1
        /\ Distinct(a.list, Len(a.list)) /\ CutOut(rest.list, a.list, i, Len(a.list))
    BY <1>2, <1>3, <1>10, <2>1 DEF L
  <2>3. \A u : Listed(rest, u) <=> u # a.list[i] /\ Listed(a, u)
    BY <2>2, CutListed
  <2> QED
    BY <1>3, <2>1, <2>3
<1>13. ASSUME NEW m \in 1 .. q - (j + 1)
       PROVE  m \in 1 .. L - 1 /\ rest.list[m] = list[(j + 1) + m] /\ D[rest.list[m]] = 0
  <2>1. m + 1 \in 1 .. q - j /\ j + (m + 1) = (j + 1) + m /\ (j + 1) + m \in 1 .. q /\ (j + 1) + m \in 1 .. Len(list)
    BY <1>1
  <2>2. m + 1 \in 1 .. L /\ r.l.list[m + 1] = list[j + (m + 1)]
    BY <2>1 DEF RunAt, L
  <2>3. m \in 1 .. L - 1
    BY <1>2, <2>2
  <2>4. rest.list[m] = r.l.list[m + 1]
    BY <1>10, <2>3 DEF CutOut
  <2>5. list[(j + 1) + m] \notin Served(j, q)
    <3> SUFFICES ASSUME NEW i \in 1 .. q, i <= j, list[i] = list[(j + 1) + m] PROVE FALSE
      BY DEF Served
    <3>1. i \in 1 .. Len(list)
      BY <1>1
    <3>2. i = (j + 1) + m
      BY <1>1, <2>1, <3>1 DEF Distinct
    <3> QED
      BY <3>2
  <2>6. due[list[(j + 1) + m]] = 1 /\ list[(j + 1) + m] \in Timers
    BY <1>1, <2>1, ElementOfSeq DEF Expiring
  <2>7. D[list[(j + 1) + m]] = 0
    BY <2>5, <2>6 DEF D, DueAt
  <2> QED
    BY <2>1, <2>2, <2>3, <2>4, <2>7
<1>14. CASE type[t] = "Periodic"
  <2> DEFINE E == [D EXCEPT ![t] = icnt[t]]
  <2>1. ~Listed(rest, t)
    BY <1>12
  <2>2. PICK i \in 0 .. Len(rest.list) :
           /\ Exact(x, E)
           /\ Len(x.list) = Len(rest.list) + 1 /\ PutIn(x.list, rest.list, i, t, Len(rest.list))
           /\ i < Len(rest.list) => icnt[t] < D[rest.list[i + 1]]
    BY <1>1, <1>6, <1>9, <1>11, <1>14, <2>1, InsertExact
  <2>3. E = DueAt(j + 1, q)
    BY <1>1, <1>4, <1>14 DEF D, DueAt
  <2>4. \A u : Listed(x, u) <=> u = t \/ Listed(rest, u)
    <3>1. Len(rest.list) \in Nat
      BY <1>10
    <3> QED
      BY <2>2, <3>1, PutListed
  <2>5. \A u \in Timers : Ended(u, j + 1, q) <=> Ended(u, j, q)
    BY <1>4, <1>14 DEF Ended
  <2>6. ~Ended(t, j, q)
    BY <1>5 DEF Ended
  <2>7. \A u \in Timers : Listed(x, u) <=> due[u] > 0 /\ ~Ended(u, j + 1, q)
    BY <1>1, <1>12, <2>4, <2>5, <2>6 DEF RunAt
  <2>8. y = [u \in Timers |-> IF Ended(u, j + 1, q) THEN "Stopped" ELSE state[u]]
    BY <1>14, <2>5 DEF RunAt, y
  <2>9. ASSUME NEW m \in 1 .. q - (j + 1) PROVE m \in 1 .. Len(x.list) /\ x.list[m] = list[(j + 1) + m]
    <3>1. m \in 1 .. L - 1 /\ rest.list[m] = list[(j + 1) + m]
      BY <1>13
    <3>2. m <= i
      <4> SUFFICES ASSUME i < m PROVE FALSE
        BY <1>10, <2>2
      <4>1. i + 1 \in 1 .. q - (j + 1) /\ i < Len(rest.list)
        BY <1>2, <1>10, <3>1
      <4>2. D[rest.list[i + 1]] = 0 /\ icnt[t] < D[rest.list[i + 1]]
        BY <1>13, <2>2, <4>1
      <4> QED
        BY <1>1, <4>2
    <3>3. m \in 1 .. i
      BY <1>10, <3>2
    <3> QED
      BY <1>2, <1>10, <2>2, <3>1, <3>3 DEF PutIn
  <2> QED
    BY <1>8, <2>2, <2>3, <2>7, <2>8, <2>9 DEF RunAt
<1>15. CASE type[t] = "Once"
  <2>1. x = rest
    BY <1>9, <1>15
  <2>2. DueAt(j + 1, q) = D
    BY <1>4, <1>15 DEF D, DueAt
  <2>3. \A u \in Timers : Ended(u, j + 1, q) <=> u = t \/ Ended(u, j, q)
    BY <1>4, <1>15 DEF Ended
  <2>4. \A u \in Timers : Listed(x, u) <=> due[u] > 0 /\ ~Ended(u, j + 1, q)
    BY <1>12, <2>1, <2>3 DEF RunAt
  <2>5. y = [u \in Timers |-> IF Ended(u, j + 1, q) THEN "Stopped" ELSE state[u]]
    BY <1>1, <1>15, <2>3 DEF RunAt, y
  <2>6. \A m \in 1 .. q - (j + 1) : m \in 1 .. Len(x.list) /\ x.list[m] = list[(j + 1) + m]
    BY <1>10, <1>13, <2>1
  <2> QED
    BY <1>8, <1>11, <2>1, <2>2, <2>4, <2>5, <2>6 DEF RunAt
<1>16. type[t] = "Periodic" \/ type[t] = "Once"
  BY <1>1 DEF TInv
<1> QED
  BY <1>14, <1>15, <1>16

(* ... and does nothing when all have been served. *)
LEMMA ServeRest ==
    ASSUME TInv, NEW q \in 0 .. Len(list), Expiring(q), NEW j \in Nat, j >= q,
           NEW r, RunAt(r, j, q)
    PROVE  RunAt(Serve(r), j + 1, q)
<1>0. Len(list) \in Nat /\ q \in Nat
  BY DEF TInv, Exact, List
<1>1. Served(j + 1, q) = Served(j, q)
  <2>1. {m \in 1 .. q : m <= j + 1} = {m \in 1 .. q : m <= j}
    BY <1>0
  <2> QED
    BY <2>1 DEF Served
<1>2. ASSUME r.l.list # <<>> PROVE Head(r.l.tcnt) # 0
  <2> DEFINE t == r.l.list[1]
  <2>1. /\ r.l.list \in Seq(Timers) /\ r.l.tcnt \in Seq(Nat) /\ Len(r.l.tcnt) = Len(r.l.list)
        /\ Deltas(r.l.list, r.l.tcnt, DueAt(j, q), Len(r.l.list))
    BY DEF RunAt, Exact
  <2>2. Len(r.l.list) \in Nat /\ Len(r.l.list) > 0 /\ 1 \in 1 .. Len(r.l.list) /\ t \in Timers
    BY <1>2, <2>1
  <2>3. Head(r.l.tcnt) = DueAt(j, q)[t]
    BY <2>1, <2>2 DEF Deltas
  <2>4. Listed(r.l, t)
    BY <2>2 DEF Listed
  <2>5. due[t] > 0 /\ ~Ended(t, j, q)
    BY <2>2, <2>4 DEF RunAt
  <2>6. due[t] \in Nat /\ icnt[t] \in Nat /\ icnt[t] > 0 /\ type[t] \in {"Once", "Periodic"}
    BY <2>2, <2>5 DEF TInv
  <2>7. CASE t \in Served(j, q)
    <3>1. type[t] = "Periodic"
      BY <2>5, <2>6, <2>7 DEF Ended
    <3> QED
      BY <2>2, <2>3, <2>6, <2>7, <3>1 DEF DueAt
  <2>8. CASE t \notin Served(j, q)
    <3>1. PICK m \in 1 .. Len(list) : list[m] = t
      BY <2>2, <2>5 DEF TInv, Listed, List
    <3>2. ~(m <= q)
      <4> SUFFICES ASSUME m <= q PROVE FALSE
        OBVIOUS
      <4>1. m \in {x \in 1 .. q : x <= j}
        BY <1>0
      <4> QED
        BY <2>8, <3>1, <4>1 DEF Served
    <3>3. m \in q + 1 .. Len(list)
      BY <1>0, <3>2
    <3>4. due[t] > 1
      BY <3>1, <3>3 DEF Expiring
    <3>5. DueAt(j, q)[t] = due[t] - 1
      BY <2>2, <2>5, <2>6, <2>8 DEF DueAt
    <3> QED
      BY <2>3, <2>6, <3>4, <3>5
  <2> QED
    BY <2>7, <2>8
<1>3. Serve(r) = r
  BY <1>2 DEF Serve
<1>4. DueAt(j + 1, q) = DueAt(j, q) /\ \A t \in Timers : Ended(t, j + 1, q) <=> Ended(t, j, q)
  BY <1>1 DEF DueAt, Ended
<1>5. \A m \in 1 .. q - (j + 1) : FALSE
  BY <1>0
<1> QED
  BY <1>3, <1>4, <1>5 DEF RunAt

(* One tick serves exactly the timers whose time is over. *)
LEMMA TickStep == ASSUME TInv, sysTimerTick PROVE TInv'
<1> DEFINE n == Len(list)
           low == [List EXCEPT !.tcnt[1] = List.tcnt[1] - 1]
           start == [l |-> low, m |-> <<>>, s |-> state]
           Runs(f) == f = [j \in 0 .. n |-> IF j = 0 THEN start ELSE Serve(f[j - 1])]
           run == CHOOSE f : Runs(f)
           zero == [t \in Timers |-> IF due[t] = 0 THEN 0 ELSE due[t] - 1]
<1>1. /\ list \in Seq(Timers) /\ tcnt \in Seq(Nat) /\ Len(tcnt) = n /\ n \in Nat /\ n > 0
      /\ Distinct(list, n) /\ Deltas(list, tcnt, due, n)
  <2>1. list \in Seq(Timers) /\ tcnt \in Seq(Nat) /\ Len(tcnt) = n /\ n \in Nat
        /\ Distinct(list, n) /\ Deltas(list, tcnt, due, n)
    BY DEF TInv, Exact, List
  <2>2. list # <<>>
    BY DEF sysTimerTick
  <2> QED
    BY <2>1, <2>2
<1>2. /\ list' = run[n].l.list /\ tcnt' = run[n].l.tcnt /\ state' = run[n].s
  BY DEF sysTimerTick, SetList
<1>3. /\ due' = [t \in Timers |-> IF due[t] = 1 /\ type[t] = "Periodic" THEN icnt[t]
                                  ELSE IF due[t] = 0 THEN 0 ELSE due[t] - 1]
      /\ type' = type /\ icnt' = icnt
  BY DEF sysTimerTick
<1>4. Runs(run)
  <2>1. \E f : Runs(f)
    BY <1>1, RunExists
  <2> QED
    BY <2>1, Zenon
<1> HIDE DEF run, start
<1>5. run[0] = start /\ \A j \in 1 .. n : run[j] = Serve(run[j - 1])
  BY <1>1, <1>4
<1>6. \A m \in 1 .. n : list[m] \in Timers /\ due[list[m]] \in Nat /\ due[list[m]] > 0
  <2> SUFFICES ASSUME NEW m \in 1 .. n PROVE list[m] \in Timers /\ due[list[m]] \in Nat /\ due[list[m]] > 0
    OBVIOUS
  <2>1. list[m] \in Timers
    BY <1>1, ElementOfSeq
  <2>2. Listed(List, list[m])
    BY DEF Listed, List
  <2> QED
    BY <2>1, <2>2 DEF TInv
<1>7. low.list = list /\ low.tcnt = [tcnt EXCEPT ![1] = tcnt[1] - 1]
  BY DEF List
<1> HIDE DEF low, Runs, n
<1>8. zero \in [Timers -> Nat] /\ \A m \in 1 .. n : zero[list[m]] = due[list[m]] - 1
  BY <1>6 DEF TInv
<1> HIDE DEF zero
<1>9. Exact(low, zero)
  <2>1. 1 \in 1 .. n /\ tcnt[1] = due[list[1]]
    BY <1>1 DEF Deltas
  <2>2. tcnt[1] - 1 \in Nat
    BY <1>6, <2>1
  <2>3. /\ low.tcnt \in Seq(Nat) /\ Len(low.tcnt) = n
        /\ \A j \in 1 .. n : low.tcnt[j] = IF j = 1 THEN tcnt[1] - 1 ELSE tcnt[j]
    BY <1>1, <1>7, <2>1, <2>2, ExceptSeq
  <2>4. low.tcnt[1] = zero[list[1]]
    BY <1>8, <2>1, <2>3
  <2>5. ASSUME NEW j \in 2 .. n PROVE low.tcnt[j] = zero[list[j]] - zero[list[j - 1]]
    <3>1. j \in 1 .. n /\ j - 1 \in 1 .. n /\ j # 1
      BY <1>1
    <3>2. tcnt[j] = due[list[j]] - due[list[j - 1]]
      BY <1>1 DEF Deltas
    <3>3. zero[list[j]] = due[list[j]] - 1 /\ zero[list[j - 1]] = due[list[j - 1]] - 1
      BY <1>8, <3>1
    <3>4. due[list[j]] \in Nat /\ due[list[j - 1]] \in Nat /\ low.tcnt[j] = tcnt[j]
      BY <1>6, <2>3, <3>1
    <3> QED
      BY <3>2, <3>3, <3>4
  <2>6. Deltas(list, low.tcnt, zero, n)
    BY <2>4, <2>5 DEF Deltas
  <2> QED
    BY <1>1, <1>7, <2>3, <2>6 DEF Exact, n
<1>10. PICK q \in 0 .. n : Expiring(q)
  <2>1. PICK q \in 0 .. n : /\ \A m \in 1 .. q : zero[list[m]] = 0
                            /\ \A m \in q + 1 .. n : zero[list[m]] > 0
    BY <1>7, <1>8, <1>9, ZerosFirst DEF n
  <2>2. ASSUME NEW m \in 1 .. q PROVE due[list[m]] = 1
    <3>1. m \in 1 .. n
      BY <1>1
    <3>2. zero[list[m]] = 0 /\ zero[list[m]] = due[list[m]] - 1 /\ due[list[m]] \in Nat
      BY <1>6, <1>8, <2>1, <3>1
    <3> QED
      BY <3>2
  <2>3. ASSUME NEW m \in q + 1 .. n PROVE due[list[m]] > 1
    <3>1. m \in 1 .. n
      BY <1>1
    <3>2. zero[list[m]] > 0 /\ zero[list[m]] = due[list[m]] - 1 /\ due[list[m]] \in Nat
      BY <1>6, <1>8, <2>1, <3>1
    <3> QED
      BY <3>2
  <2>4. Expiring(q)
    BY <2>2, <2>3 DEF Expiring, n
  <2> QED
    BY <2>4
<1>11. RunAt(run[0], 0, q)
  <2>1. Served(0, q) = {}
    BY <1>1 DEF Served
  <2>2. DueAt(0, q) = zero /\ \A t \in Timers : ~Ended(t, 0, q)
    BY <2>1 DEF DueAt, Ended, zero
  <2>3. run[0].l = low /\ run[0].s = state
    BY <1>5 DEF start
  <2>4. \A t \in Timers : Listed(low, t) <=> due[t] > 0
    BY <1>7 DEF TInv, Listed, List
  <2>5. state = [t \in Timers |-> IF Ended(t, 0, q) THEN "Stopped" ELSE state[t]]
    BY <2>2 DEF TInv
  <2>6. \A m \in 1 .. q - 0 : m \in 1 .. Len(low.list) /\ low.list[m] = list[0 + m]
    BY <1>1, <1>7 DEF n
  <2> QED
    BY <1>9, <2>2, <2>3, <2>4, <2>5, <2>6 DEF RunAt
<1> DEFINE Bad == {j \in 0 .. n : ~RunAt(run[j], j, q)}
<1>12. Bad = {}
  <2> SUFFICES ASSUME Bad # {} PROVE FALSE
    OBVIOUS
  <2>1. PICK j \in Bad : \A m \in Bad : j <= m
    <3>1. Bad \in SUBSET Nat
      BY <1>1
    <3> QED
      BY <3>1, Least
  <2>2. j # 0 /\ j \in 0 .. n /\ ~RunAt(run[j], j, q)
    BY <1>11
  <2>3. j \in 1 .. n /\ j - 1 \in 0 .. n /\ j - 1 \in Nat /\ ~(j <= j - 1) /\ (j - 1) + 1 = j
    BY <1>1, <2>2
  <2>4. RunAt(run[j - 1], j - 1, q)
    BY <2>1, <2>3
  <2>5. RunAt(Serve(run[j - 1]), (j - 1) + 1, q)
    <3>1. q \in 0 .. Len(list) /\ q \in Nat
      BY <1>1 DEF n
    <3>2. CASE j - 1 < q
      BY <1>10, <2>3, <2>4, <3>1, <3>2, ServeNext
    <3>3. CASE j - 1 >= q
      BY <1>10, <2>3, <2>4, <3>1, <3>3, ServeRest
    <3> QED
      BY <2>3, <3>1, <3>2, <3>3
  <2> QED
    BY <1>5, <2>2, <2>3, <2>5
<1>13. RunAt(run[n], n, q)
  BY <1>1, <1>12
<1>14. \A t \in Timers : t \in Served(n, q) <=> due[t] = 1
  <2>1. ASSUME NEW t \in Timers, t \in Served(n, q) PROVE due[t] = 1
    BY <1>10, <2>1 DEF Served, Expiring
  <2>2. ASSUME NEW t \in Timers, due[t] = 1 PROVE t \in Served(n, q)
    <3>1. PICK m \in 1 .. n : list[m] = t
      <4>1. Listed(List, t)
        BY <2>2 DEF TInv
      <4> QED
        BY <4>1 DEF Listed, List, n
    <3>2. m \in 1 .. q
      <4> SUFFICES ASSUME m > q PROVE FALSE
        BY <1>1
      <4>1. m \in q + 1 .. n
        BY <1>1
      <4>2. due[t] > 1
        BY <1>10, <3>1, <4>1 DEF Expiring, n
      <4> QED
        BY <2>2, <4>2
    <3> QED
      BY <1>1, <3>1, <3>2 DEF Served
  <2> QED
    BY <2>1, <2>2
<1>15. DueAt(n, q) = due'
  BY <1>3, <1>14 DEF DueAt
<1>16. List' = [list |-> run[n].l.list, tcnt |-> run[n].l.tcnt]
  BY <1>2 DEF List
<1>17. Exact(List', due') /\ \A t \in Timers : Listed(List', t) <=> due[t] > 0 /\ ~Ended(t, n, q)
  <2>1. Exact(run[n].l, due') /\ \A t \in Timers : Listed(run[n].l, t) <=> due[t] > 0 /\ ~Ended(t, n, q)
    BY <1>13, <1>15 DEF RunAt
  <2> QED
    BY <1>16, <2>1 DEF Exact, Listed
<1>18. \A t \in Timers : Ended(t, n, q) <=> due[t] = 1 /\ type[t] = "Once"
  BY <1>14 DEF Ended
<1>19. state' = [t \in Timers |-> IF Ended(t, n, q) THEN "Stopped" ELSE state[t]]
  BY <1>2, <1>13 DEF RunAt
<1>20. due' \in [Timers -> Nat] /\ icnt' \in [Timers -> Nat] /\ type' \in [Timers -> {"Once", "Periodic"}]
  BY <1>3 DEF TInv
<1>21. state' \in [Timers -> {"Invalid", "Stopped", "Running"}]
  BY <1>19 DEF TInv
<1>22. \A t \in Timers : due'[t] > 0 <=> due[t] > 0 /\ ~Ended(t, n, q)
  <2> SUFFICES ASSUME NEW t \in Timers PROVE due'[t] > 0 <=> due[t] > 0 /\ ~Ended(t, n, q)
    OBVIOUS
  <2>1. /\ due[t] \in Nat /\ icnt[t] \in Nat /\ type[t] \in {"Once", "Periodic"}
        /\ due[t] > 0 => icnt[t] > 0
        /\ due'[t] = IF due[t] = 1 /\ type[t] = "Periodic" THEN icnt[t]
                     ELSE IF due[t] = 0 THEN 0 ELSE due[t] - 1
    BY <1>3 DEF TInv
  <2> QED
    BY <1>18, <2>1
<1>23. \A t \in Timers : state'[t] = "Running" <=> Listed(List', t)
  <2> SUFFICES ASSUME NEW t \in Timers PROVE state'[t] = "Running" <=> Listed(List', t)
    OBVIOUS
  <2>1. state[t] = "Running" <=> due[t] > 0
    BY DEF TInv
  <2>2. state'[t] = IF Ended(t, n, q) THEN "Stopped" ELSE state[t]
    BY <1>19
  <2> QED
    BY <1>17, <2>1, <2>2
<1>24. \A t \in Timers : due'[t] > 0 => icnt'[t] > 0
  BY <1>3, <1>22 DEF TInv
<1> QED
  BY <1>17, <1>20, <1>21, <1>22, <1>23, <1>24 DEF TInv

-----------------------------------------------------------------------------
(* The service calls                                                          *)

(* Starting a timer, running or not. *)
LEMMA StartStep ==
    ASSUME TInv, NEW t \in Timers, NEW n \in 1 .. MaxTicks, svcTimerStart(t, n)
    PROVE  TInv'
<1> DEFINE base == IF state[t] = "Running" THEN rt_timer_remove(List, t) ELSE List
           r == rt_timer_insert(base, t, n)
<1>0. n \in Nat /\ n > 0
  BY TimersAssumption
<1>1. /\ list' = r.list /\ tcnt' = r.tcnt /\ due' = [due EXCEPT ![t] = n] /\ type' = type
      /\ icnt' = IF state[t] = "Stopped" THEN [icnt EXCEPT ![t] = n] ELSE icnt
      /\ state' = [state EXCEPT ![t] = "Running"] /\ state[t] # "Invalid"
  BY DEF svcTimerStart, SetList
<1>2. Exact(base, due) /\ \A u : Listed(base, u) <=> u # t /\ Listed(List, u)
  <2>1. CASE state[t] = "Running"
    <3>1. Listed(List, t) /\ due \in [Timers -> Nat] /\ Exact(List, due)
      BY <2>1 DEF TInv
    <3>2. PICK i \in 1 .. Len(List.list) :
             /\ List.list[i] = t /\ Exact(base, due)
             /\ Len(base.list) = Len(List.list) - 1 /\ CutOut(base.list, List.list, i, Len(List.list))
      BY <2>1, <3>1, RemoveExact
    <3>3. Len(List.list) \in Nat /\ Distinct(List.list, Len(List.list))
      BY <3>1 DEF Exact
    <3> HIDE DEF base
    <3>4. \A u : Listed(base, u) <=> u # List.list[i] /\ Listed(List, u)
      BY <3>2, <3>3, CutListed
    <3> QED
      BY <3>2, <3>4
  <2>2. CASE state[t] # "Running"
    BY <2>2 DEF TInv
  <2> QED
    BY <2>1, <2>2
<1> HIDE DEF base
<1>3. Exact(r, due') /\ \A u : Listed(r, u) <=> u = t \/ Listed(List, u)
  <2>1. due \in [Timers -> Nat] /\ ~Listed(base, t)
    BY <1>2 DEF TInv
  <2>2. PICK i \in 0 .. Len(base.list) :
           /\ Exact(r, [due EXCEPT ![t] = n])
           /\ Len(r.list) = Len(base.list) + 1 /\ PutIn(r.list, base.list, i, t, Len(base.list))
    BY <1>0, <1>2, <2>1, InsertExact
  <2>3. Len(base.list) \in Nat
    BY <1>2 DEF Exact
  <2> HIDE DEF r
  <2>4. \A u : Listed(r, u) <=> u = t \/ Listed(base, u)
    BY <2>2, <2>3, PutListed
  <2> QED
    BY <1>1, <1>2, <2>2, <2>4
<1> HIDE DEF r
<1>4. Exact(List', due') /\ \A u : Listed(List', u) <=> u = t \/ Listed(List, u)
  BY <1>1, <1>3 DEF List, Exact, Listed
<1>5. /\ due' \in [Timers -> Nat] /\ icnt' \in [Timers -> Nat] /\ type' \in [Timers -> {"Once", "Periodic"}]
      /\ state' \in [Timers -> {"Invalid", "Stopped", "Running"}]
  BY <1>0, <1>1 DEF TInv
<1>6. ASSUME NEW u \in Timers
      PROVE  /\ due'[u] > 0 <=> Listed(List', u)
             /\ state'[u] = "Running" <=> Listed(List', u)
             /\ due'[u] > 0 => icnt'[u] > 0
  <2>1. CASE u = t
    <3>1. due'[u] = n /\ state'[u] = "Running" /\ Listed(List', u)
      BY <1>1, <1>4, <2>1 DEF TInv
    <3>2. icnt'[u] > 0
      BY <1>0, <1>1, <2>1 DEF TInv
    <3> QED
      BY <1>0, <3>1, <3>2
  <2>2. CASE u # t
    BY <1>1, <1>4, <2>2 DEF TInv
  <2> QED
    BY <2>1, <2>2
<1> QED
  BY <1>4, <1>5, <1>6 DEF TInv

(* Stopping or deleting one; a timer that is not in the list is left alone. *)
LEMMA EndStep ==
    ASSUME TInv, NEW t \in Timers, svcTimerStop(t) \/ svcTimerDelete(t)
    PROVE  TInv'
<1> DEFINE r == rt_timer_remove(List, t)
<1>1. /\ list' = r.list /\ tcnt' = r.tcnt /\ due' = [due EXCEPT ![t] = 0] /\ type' = type /\ icnt' = icnt
      /\ \E s \in {"Stopped", "Invalid"} : state' = [state EXCEPT ![t] = s]
  BY DEF svcTimerStop, svcTimerDelete, SetList
<1>2. due' \in [Timers -> Nat] /\ due \in [Timers -> Nat] /\ Exact(List, due)
      /\ \A u \in Timers : u # t => due'[u] = due[u]
  BY <1>1 DEF TInv
<1>3. Exact(r, due') /\ \A u : Listed(r, u) <=> u # t /\ Listed(List, u)
  <2>1. CASE Listed(List, t)
    <3>1. PICK i \in 1 .. Len(List.list) :
             /\ List.list[i] = t /\ Exact(r, due')
             /\ Len(r.list) = Len(List.list) - 1 /\ CutOut(r.list, List.list, i, Len(List.list))
      BY <1>2, <2>1, RemoveExact
    <3>2. Len(List.list) \in Nat /\ Distinct(List.list, Len(List.list))
      BY <1>2 DEF Exact
    <3> HIDE DEF r
    <3>3. \A u : Listed(r, u) <=> u # List.list[i] /\ Listed(List, u)
      BY <3>1, <3>2, CutListed
    <3> QED
      BY <3>1, <3>3
  <2>2. CASE ~Listed(List, t)
    <3>1. r = List
      BY <2>2 DEF rt_timer_remove
    <3>2. due[t] = 0
      BY <2>2 DEF TInv
    <3>3. due' = due
      BY <1>1, <1>2, <3>2
    <3> QED
      BY <1>2, <2>2, <3>1, <3>3
  <2> QED
    BY <2>1, <2>2
<1> HIDE DEF r
<1>4. Exact(List', due') /\ \A u : Listed(List', u) <=> u # t /\ Listed(List, u)
  BY <1>1, <1>3 DEF List, Exact, Listed
<1>5. ASSUME NEW u \in Timers
      PROVE  /\ due'[u] > 0 <=> Listed(List', u)
             /\ state'[u] = "Running" <=> Listed(List', u)
             /\ due'[u] > 0 => icnt'[u] > 0
  <2>1. CASE u = t
    <3>1. due'[u] = 0 /\ state'[u] # "Running" /\ ~Listed(List', u)
      BY <1>1, <1>4, <2>1 DEF TInv
    <3> QED
      BY <3>1
  <2>2. CASE u # t
    BY <1>1, <1>4, <2>2 DEF TInv
  <2> QED
    BY <2>1, <2>2
<1>6. /\ icnt' \in [Timers -> Nat] /\ type' \in [Timers -> {"Once", "Periodic"}]
      /\ state' \in [Timers -> {"Invalid", "Stopped", "Running"}]
  BY <1>1 DEF TInv
<1> QED
  BY <1>2, <1>4, <1>5, <1>6 DEF TInv

(* Every timer that runs expires in exactly the tick it was started for,      *)
(* whatever is started, stopped or deleted before, behind or together with    *)
(* it, for any number of timers and any times (rt_timer_insert,               *)
(* rt_timer_remove, sysTimerTick).                                            *)
THEOREM TimersRight == Spec => []TimersExact
<1>1. Init => TInv
  <2> SUFFICES ASSUME Init PROVE TInv
    OBVIOUS
  <2>1. list = <<>> /\ tcnt = <<>> /\ Len(<<>>) = 0 /\ Len(List.list) = 0
    BY DEF Init, List
  <2>2. Exact(List, due)
    BY <2>1 DEF Exact, List, Distinct, Deltas
  <2>3. \A t \in Timers : ~Listed(List, t)
    BY <2>1 DEF Listed
  <2> QED
    BY <2>2, <2>3 DEF Init, TInv
<1>2. TInv /\ [Next]_vars => TInv'
  <2> SUFFICES ASSUME TInv, [Next]_vars PROVE TInv'
    OBVIOUS
  <2>1. CASE \E t \in Timers, how \in {"Once", "Periodic"} : svcTimerCreate(t, how)
    <3>1. PICK t \in Timers, how \in {"Once", "Periodic"} : svcTimerCreate(t, how)
      BY <2>1
    <3>2. /\ List' = List /\ due' = due /\ icnt' = icnt /\ type' = [type EXCEPT ![t] = how]
          /\ state' = [state EXCEPT ![t] = "Stopped"] /\ state[t] = "Invalid"
      BY <3>1 DEF svcTimerCreate, List
    <3>3. Exact(List', due')
      BY <3>2 DEF TInv
    <3>4. /\ type' \in [Timers -> {"Once", "Periodic"}]
          /\ state' \in [Timers -> {"Invalid", "Stopped", "Running"}]
      BY <3>2 DEF TInv
    <3>5. \A u \in Timers : state'[u] = "Running" <=> state[u] = "Running"
      BY <3>2 DEF TInv
    <3> QED
      BY <3>2, <3>3, <3>4, <3>5 DEF TInv
  <2>2. CASE \E t \in Timers, n \in 1 .. MaxTicks : svcTimerStart(t, n)
    BY <2>2, StartStep
  <2>3. CASE \E t \in Timers : svcTimerStop(t) \/ svcTimerDelete(t)
    BY <2>3, EndStep
  <2>4. CASE sysTimerTick
    BY <2>4, TickStep
  <2>5. CASE osTimerThread \/ Stop \/ UNCHANGED vars
    <3>1. List' = List /\ due' = due /\ icnt' = icnt /\ type' = type /\ state' = state
      BY <2>5 DEF osTimerThread, Stop, vars, List
    <3>2. Exact(List', due')
      BY <3>1 DEF TInv
    <3> QED
      BY <3>1, <3>2 DEF TInv
  <2> QED
    BY <2>1, <2>2, <2>3, <2>4, <2>5 DEF Next
<1>3. TInv => TimersExact
  <2> SUFFICES ASSUME TInv PROVE TimersExact
    OBVIOUS
  <2>1. Len(list) \in Nat /\ List.list = list /\ Exact(List, due) /\ due \in [Timers -> Nat] /\ Distinct(list, Len(list))
    BY DEF TInv, Exact, List
  <2>2. ASSUME NEW i \in 1 .. Len(list) PROVE Until(List, i) = due[list[i]]
    <3>1. i \in 0 .. Len(List.list) /\ i # 0
      BY <2>1
    <3> QED
      BY <2>1, <3>1, UntilIs
  <2>3. ListedRuns
    BY <2>1 DEF TInv, ListedRuns, Distinct, Listed
  <2> QED
    BY <2>2, <2>3 DEF TInv, TimersExact
<1> QED
  BY <1>1, <1>2, <1>3, PTL DEF Spec
=============================================================================
