---------------------------- MODULE PowerProofs ----------------------------
(***************************************************************************)
(* The supplies keep their order in every state of every sequence, whoever  *)
(* runs it and wherever a restart cuts it short, and from init_hw on no     *)
(* input is above DVDD until a worker panics.  The argument follows what is *)
(* left of a sequence: a thread that goes down has a 3.3 V supply either at *)
(* zero or still before it, and all of them before a 1.8 V one; a thread    *)
(* that goes up the other way round.                                        *)
(***************************************************************************)
EXTENDS Power, TLAPS

Writes == Rails \X Nat

(* A write to rail r is left in s; the writes left all have volt v on rails R. *)
Left(s, r) == \E i \in DOMAIN s : s[i][1] = r
Sets(s, R, v) == \A i \in DOMAIN s : s[i][1] \in R => s[i][2] = v

(* Nothing is left for the rails of R once the first write to one of Q is next. *)
Before(s, R, Q) == \A i, j \in DOMAIN s : i <= j /\ s[i][1] \in Q => s[j][1] \notin R

(* What is left of power_down, power_up and power_core. *)
GoesDown(s) == Sets(s, Rails, 0) /\ Before(s, Rail33, Rail18)
GoesUp(s) == Sets(s, Rail18, 180) /\ Sets(s, Rail33, 330) /\ Before(s, Rail18, Rail33)
CoreOnly(s) == \A i \in DOMAIN s : s[i][1] \notin Rail33 \cup Rail18

High18 == full_code(180)
High33 == full_code(330)

Downs == {"start_down", "id_down", "load_down", "serve_down", "wait_down"}
MainAt == {"new", "start", "start_down", "up", "id", "id_down", "clocks", "load", "load_down",
           "serve", "serve_down", "off"}
WorkerAt == {"wait", "wait_down", "off", "gone"}

(* Types of what the sequences move. *)
Typed ==
    /\ todo \in [Threads -> Seq(Writes)]
    /\ at \in [Threads -> MainAt \cup WorkerAt]
    /\ at["main"] \in MainAt /\ at["worker"] \in WorkerAt
    /\ dac \in [Rails -> Nat]

(* Who may be in which sequence: a worker powers down only when main is past  *)
(* init_hw and not in a sequence that raises the padring.                     *)
Phases ==
    /\ at["worker"] # "wait_down" => todo["worker"] = <<>>
    /\ at["worker"] \in {"wait_down", "off"} =>
          at["main"] \in {"clocks", "load", "load_down", "serve", "off"}
    /\ at["main"] \in {"new", "start", "id", "clocks", "serve", "off"} => todo["main"] = <<>>

(* What is left of the sequence of each thread, and what it has done. *)
Sequenced ==
    /\ \A t \in Threads : at[t] \in Downs =>
          /\ GoesDown(todo[t])
          /\ \A r \in Rail33 : dac[r] = 0 \/ Left(todo[t], r)
    /\ at["main"] = "up" =>
          /\ GoesUp(todo["main"])
          /\ \A r \in Rail18 : dac[r] = High18 \/ Left(todo["main"], r)
    /\ at["main"] = "load" => CoreOnly(todo["main"])

(* The inductive invariant for the order of the supplies. *)
OrderInv == Typed /\ Phases /\ Sequenced /\ RailOrder

-----------------------------------------------------------------------------
(* The two bytes of a code say what the code says, and the codes of 1.8 V and *)
(* 3.3 V are not zero (dac.cpp).                                              *)
LEMMA Codes ==
    /\ DacLevel(dac_data(180)) = High18 /\ DacLevel(dac_data(330)) = High33 /\ DacLevel(dac_data(0)) = 0
    /\ High18 \in Nat \ {0} /\ High33 \in Nat \ {0}
BY DEF DacLevel, dac_data, full_code, High18, High33

(* A code is a natural number. *)
LEMMA CodeType == ASSUME NEW v \in Nat PROVE DacLevel(dac_data(v)) \in Nat
<1>1. full_code(v) \in Nat
  BY DEF full_code
<1>2. \A n \in Nat : DacLevel(<<(n \div 16) % 256, n % 16>>) \in Nat
  BY DEF DacLevel
<1> QED
  BY <1>1, <1>2 DEF dac_data

(* power_down: every supply to zero, the 3.3 V ones before the 1.8 V ones. *)
LEMMA DownSeq == power_down \in Seq(Writes) /\ GoesDown(power_down)
                   /\ \A r \in Rail33 : Left(power_down, r)
<1>1. power_down \in Seq(Writes)
  BY DEF power_down, Writes, Rails, Rail33, Rail18, CoreRails
<1>2. Sets(power_down, Rails, 0)
  BY DEF power_down, Sets
<1>3. Before(power_down, Rail33, Rail18)
  BY DEF power_down, Before, Rail33, Rail18
<1>4. \A r \in Rail33 : Left(power_down, r)
  BY DEF power_down, Left, Rail33
<1> QED
  BY <1>1, <1>2, <1>3, <1>4 DEF GoesDown

(* The same for power_up: the 1.8 V supplies first, then the 3.3 V ones. *)
LEMMA UpSeq == power_up(100) \in Seq(Writes) /\ GoesUp(power_up(100))
                 /\ \A r \in Rail18 \cup Rail33 : Left(power_up(100), r)
<1> DEFINE s == power_up(100)
<1>0. s = <<<<"ADVDD2", 180>>, <<"DVDD2", 180>>, <<"ADVDD", 330>>, <<"DVDD", 330>>,
          <<"PADVDD", 100>>, <<"COREVDD", 100>>, <<"MEM1VDD", 100>>, <<"MEM2VDD", 100>>,
          <<"CLOCKVDD", 100>>, <<"PLLAVDD", 100>>, <<"RING_OSC_NBIAS", 75>>,
          <<"SENSORVDD", 100>>, <<"SENSORLOWVDD", 35>>, <<"SENSORSTRESSVDD", 100>>>>
  BY DEF power_up, Min1
<1> HIDE DEF s
<1>1. s \in Seq(Writes)
  BY <1>0 DEF Writes, Rails, Rail33, Rail18, CoreRails
<1>2. Sets(s, Rail18, 180) /\ Sets(s, Rail33, 330)
  BY <1>0 DEF Sets, Rail33, Rail18
<1>3. Before(s, Rail18, Rail33)
  BY <1>0 DEF Before, Rail33, Rail18
<1>4. \A r \in Rail18 \cup Rail33 : Left(s, r)
  BY <1>0 DEF Left, Rail33, Rail18
<1> QED
  BY <1>1, <1>2, <1>3, <1>4 DEF GoesUp, s

(* power_core leaves the padring alone. *)
LEMMA CoreSeq == power_core(100) \in Seq(Writes) /\ CoreOnly(power_core(100))
<1> DEFINE s == power_core(100)
<1>0. s = <<<<"PADVDD", 100>>, <<"COREVDD", 100>>, <<"MEM1VDD", 100>>, <<"MEM2VDD", 100>>,
          <<"CLOCKVDD", 100>>, <<"PLLAVDD", 100>>, <<"SENSORVDD", 100>>,
          <<"SENSORLOWVDD", 35>>, <<"SENSORSTRESSVDD", 100>>>>
  BY DEF power_core, Min1
<1> HIDE DEF s
<1>1. s \in Seq(Writes)
  BY <1>0 DEF Writes, Rails, Rail33, Rail18, CoreRails
<1>2. CoreOnly(s)
  BY <1>0 DEF CoreOnly, Rail33, Rail18
<1> QED
  BY <1>1, <1>2 DEF s

(* What holds of the writes left holds when the first one is done. *)
LEMMA TailLeft ==
    ASSUME NEW s \in Seq(Writes), s # <<>>
    PROVE  /\ Head(s) \in Writes /\ Tail(s) \in Seq(Writes)
           /\ GoesDown(s) => GoesDown(Tail(s)) /\ Head(s)[2] = 0
           /\ GoesUp(s) => /\ GoesUp(Tail(s))
                           /\ Head(s)[1] \in Rail18 => Head(s)[2] = 180
                           /\ Head(s)[1] \in Rail33 => Head(s)[2] = 330
           /\ CoreOnly(s) => CoreOnly(Tail(s)) /\ Head(s)[1] \notin Rail33 \cup Rail18
           /\ \A r : Left(s, r) => Head(s)[1] = r \/ Left(Tail(s), r)
           /\ GoesDown(s) /\ Head(s)[1] \in Rail18 => \A r \in Rail33 : ~Left(s, r)
           /\ GoesUp(s) /\ Head(s)[1] \in Rail33 => \A r \in Rail18 : ~Left(s, r)
<1>1. /\ Head(s) = s[1] /\ Head(s) \in Writes /\ 1 \in DOMAIN s
      /\ Tail(s) \in Seq(Writes)
      /\ \A i \in DOMAIN Tail(s) : i + 1 \in DOMAIN s /\ Tail(s)[i] = s[i + 1] /\ i \in Nat
      /\ \A i \in DOMAIN s : i \in Nat /\ 1 <= i
      /\ \A i \in DOMAIN s \ {1} : i - 1 \in DOMAIN Tail(s)
  OBVIOUS
<1>2. Head(s)[1] \in Rails
  BY <1>1 DEF Writes
<1>3. GoesDown(s) => GoesDown(Tail(s)) /\ Head(s)[2] = 0
  BY <1>1, <1>2 DEF GoesDown, Sets, Before
<1>4. GoesUp(s) => /\ GoesUp(Tail(s))
                   /\ Head(s)[1] \in Rail18 => Head(s)[2] = 180
                   /\ Head(s)[1] \in Rail33 => Head(s)[2] = 330
  BY <1>1, <1>2 DEF GoesUp, Sets, Before
<1>5. CoreOnly(s) => CoreOnly(Tail(s)) /\ Head(s)[1] \notin Rail33 \cup Rail18
  BY <1>1 DEF CoreOnly
<1>6. ASSUME NEW r, Left(s, r), Head(s)[1] # r
      PROVE  Left(Tail(s), r)
  <2>1. PICK i \in DOMAIN s : s[i][1] = r
    BY <1>6 DEF Left
  <2>2. i # 1 /\ i - 1 \in DOMAIN Tail(s) /\ Tail(s)[i - 1] = s[i]
    BY <1>1, <1>6, <2>1
  <2> QED
    BY <2>1, <2>2 DEF Left
<1>7. GoesDown(s) /\ Head(s)[1] \in Rail18 => \A r \in Rail33 : ~Left(s, r)
  BY <1>1 DEF GoesDown, Before, Left
<1>8. GoesUp(s) /\ Head(s)[1] \in Rail33 => \A r \in Rail18 : ~Left(s, r)
  BY <1>1 DEF GoesUp, Before, Left
<1> QED
  BY <1>1, <1>3, <1>4, <1>5, <1>6, <1>7, <1>8

-----------------------------------------------------------------------------
(* At the start every supply is at zero. *)
LEMMA OrderInit == Init => OrderInv
<1> SUFFICES ASSUME Init PROVE OrderInv
  OBVIOUS
<1>1. Typed
  BY DEF Init, Typed, Threads, MainAt, WorkerAt, Writes
<1>2. Phases
  BY DEF Init, Phases, Threads
<1>3. Sequenced
  BY DEF Init, Sequenced, Threads, Downs
<1>4. RailOrder
  BY DEF Init, RailOrder, Rails, Rail33, Rail18
<1> QED
  BY <1>1, <1>2, <1>3, <1>4 DEF OrderInv

(* One write of a sequence keeps the order, in whatever state the other       *)
(* thread is.                                                                 *)
LEMMA WriteStep ==
    ASSUME OrderInv, NEW t \in Threads, power_chan(t)
    PROVE  OrderInv'
<1> DEFINE s == todo[t]
           w == Head(s)
<1>1. s \in Seq(Writes) /\ s # <<>> /\ at' = at
      /\ todo' = [todo EXCEPT ![t] = Tail(s)]
      /\ dac' = [dac EXCEPT ![w[1]] = DacLevel(dac_data(w[2]))]
  BY DEF OrderInv, Typed, power_chan
<1> HIDE DEF s
<1>2. w \in Writes /\ w[1] \in Rails /\ w[2] \in Nat /\ Tail(s) \in Seq(Writes)
  BY <1>1, TailLeft DEF Writes
<1>3. Typed'
  BY <1>1, <1>2, CodeType DEF OrderInv, Typed
<1>4. Phases'
  <2>1. \A u \in Threads : todo[u] = <<>> => todo'[u] = <<>>
    BY <1>1 DEF OrderInv, Typed, s
  <2> QED
    BY <1>1, <2>1 DEF OrderInv, Phases, Threads
<1>5. CASE at[t] \in Downs
  <2>1. GoesDown(s) /\ \A r \in Rail33 : dac[r] = 0 \/ Left(s, r)
    BY <1>5 DEF OrderInv, Sequenced, s
  <2>2. at["main"] # "up"
    BY <1>1, <1>5 DEF OrderInv, Phases, Threads, Downs, s
  <2>3. w[2] = 0 /\ dac' = [dac EXCEPT ![w[1]] = 0]
    BY <1>1, <2>1, TailLeft, Codes
  <2>4. \A r \in Rails : dac'[r] = (IF r = w[1] THEN 0 ELSE dac[r])
    BY <1>2, <2>3 DEF OrderInv, Typed
  <2>5. Rail33 \subseteq Rails /\ Rail18 \subseteq Rails /\ Rail33 \cap Rail18 = {}
    BY DEF Rails, Rail33, Rail18
  <2>6. \A r \in Rail33 : dac'[r] = 0 \/ Left(Tail(s), r)
    BY <1>1, <2>1, <2>4, <2>5, TailLeft
  <2>7. GoesDown(Tail(s))
    BY <1>1, <2>1, TailLeft
  <2>8. RailOrder'
    <3>1. CASE w[1] \in Rail18
      BY <1>1, <2>1, <2>4, <2>5, <3>1, TailLeft DEF RailOrder
    <3>2. CASE w[1] \notin Rail18
      BY <2>4, <2>5, <3>2 DEF RailOrder, OrderInv
    <3> QED
      BY <3>1, <3>2
  <2>9. todo'[t] = Tail(s) /\ \A u \in Threads \ {t} : todo'[u] = todo[u]
    BY <1>1 DEF OrderInv, Typed
  <2>10. Sequenced'
    <3>1. ASSUME NEW u \in Threads, at[u] \in Downs
          PROVE  GoesDown(todo'[u]) /\ \A r \in Rail33 : dac'[r] = 0 \/ Left(todo'[u], r)
      <4>1. CASE u = t
        BY <2>6, <2>7, <2>9, <4>1
      <4>2. CASE u # t
        BY <2>4, <2>5, <2>9, <3>1, <4>2 DEF OrderInv, Sequenced
      <4> QED
        BY <4>1, <4>2
    <3>2. at["main"] = "load" => CoreOnly(todo'["main"])
      BY <1>5, <2>9 DEF OrderInv, Sequenced, Threads, Downs
    <3> QED
      BY <1>1, <2>2, <3>1, <3>2 DEF Sequenced
  <2> QED
    BY <1>3, <1>4, <2>8, <2>10 DEF OrderInv
<1>6. CASE t = "main" /\ at["main"] = "up"
  <2>1. GoesUp(s) /\ \A r \in Rail18 : dac[r] = High18 \/ Left(s, r)
    BY <1>6 DEF OrderInv, Sequenced, s
  <2>2. at["worker"] \notin Downs
    BY <1>6 DEF OrderInv, Phases, Downs, Typed, WorkerAt
  <2>3. \A r \in Rails : dac'[r] = (IF r = w[1] THEN DacLevel(dac_data(w[2])) ELSE dac[r])
    BY <1>1, <1>2 DEF OrderInv, Typed
  <2>4. Rail33 \subseteq Rails /\ Rail18 \subseteq Rails /\ Rail33 \cap Rail18 = {}
    BY DEF Rails, Rail33, Rail18
  <2>5. w[1] \in Rail18 => dac'[w[1]] = High18
    BY <1>1, <1>2, <2>1, <2>3, TailLeft, Codes
  <2>6. \A r \in Rail18 : dac'[r] = High18 \/ Left(Tail(s), r)
    BY <1>1, <2>1, <2>3, <2>4, <2>5, TailLeft
  <2>7. RailOrder'
    <3>1. CASE w[1] \in Rail33
      BY <1>1, <2>1, <2>3, <2>4, <3>1, TailLeft DEF RailOrder, High18
    <3>2. CASE w[1] \notin Rail33
      BY <2>3, <2>4, <2>5, <3>2 DEF RailOrder, OrderInv, High18
    <3> QED
      BY <3>1, <3>2
  <2>8. Sequenced'
    BY <1>1, <1>6, <2>1, <2>2, <2>6, TailLeft DEF OrderInv, Typed, Sequenced, Threads, Downs
  <2> QED
    BY <1>3, <1>4, <2>7, <2>8 DEF OrderInv
<1>7. CASE t = "main" /\ at["main"] = "load"
  <2>1. CoreOnly(s)
    BY <1>7 DEF OrderInv, Sequenced, s
  <2>2. w[1] \notin Rail33 \cup Rail18 /\ CoreOnly(Tail(s))
    BY <1>1, <2>1, TailLeft
  <2>3. \A r \in Rail33 \cup Rail18 : dac'[r] = dac[r]
    BY <1>1, <2>2 DEF OrderInv, Typed, Rails
  <2>4. RailOrder'
    BY <2>3 DEF RailOrder, OrderInv
  <2>5. Sequenced'
    BY <1>1, <1>7, <2>2, <2>3 DEF OrderInv, Typed, Sequenced, Threads, Downs
  <2> QED
    BY <1>3, <1>4, <2>4, <2>5 DEF OrderInv
<1> QED
  <2>1. at[t] \in Downs \/ (t = "main" /\ at["main"] \in {"up", "load"})
    BY <1>1 DEF OrderInv, Typed, Phases, Threads, MainAt, WorkerAt, Downs, s
  <2> QED
    BY <2>1, <1>5, <1>6, <1>7

(* A thread that begins power_down has all of it left. *)
LEMMA DownStep ==
    ASSUME OrderInv, NEW t \in Threads, NEW a, BeginDown(t, a), at' = [at EXCEPT ![t] = DownFrom[a]],
           \/ t = "main" /\ a \in {"start", "id", "load"}
           \/ t = "worker" /\ a = "wait" /\ at["main"] \in {"clocks", "load", "serve"}
    PROVE  OrderInv'
<1>1. /\ DownFrom[a] \in Downs
      /\ t = "worker" => DownFrom[a] = "wait_down"
      /\ t = "main" => DownFrom[a] \in MainAt \ {"up", "load", "new", "start", "id", "clocks", "serve", "off"}
  BY DEF DownFrom, Downs, MainAt
<1>2. dac' = dac /\ todo' = [todo EXCEPT ![t] = power_down] /\ at[t] = a
  BY DEF BeginDown, Goto
<1>3. Typed'
  BY <1>1, <1>2, DownSeq DEF OrderInv, Typed, Threads, MainAt, WorkerAt, Downs
<1>4. Phases'
  BY <1>1, <1>2 DEF OrderInv, Typed, Phases, Threads, DownFrom
<1>5. Sequenced'
  <2>1. ASSUME NEW u \in Threads, at'[u] \in Downs
        PROVE  GoesDown(todo'[u]) /\ \A r \in Rail33 : dac'[r] = 0 \/ Left(todo'[u], r)
    BY <1>2, <2>1, DownSeq DEF OrderInv, Typed, Sequenced
  <2>2. at'["main"] = "up" => t # "main" /\ at["main"] = "up" /\ FALSE
    BY <1>1 DEF OrderInv, Typed, Threads
  <2>3. at'["main"] = "load" => CoreOnly(todo'["main"])
    BY <1>1, <1>2 DEF OrderInv, Typed, Sequenced, Threads
  <2> QED
    BY <2>1, <2>2, <2>3 DEF Sequenced
<1>6. RailOrder'
  BY <1>2 DEF OrderInv, RailOrder
<1> QED
  BY <1>3, <1>4, <1>5, <1>6 DEF OrderInv

(* Every step of main, of a worker and every restart keeps the order of the   *)
(* supplies.                                                                  *)
LEMMA OrderStep == OrderInv /\ [Next]_vars => OrderInv'
<1> SUFFICES ASSUME OrderInv, [Next]_vars PROVE OrderInv'
  OBVIOUS
<1> USE DEF OrderInv
<1> DEFINE Same == dac' = dac /\ todo' = todo
<1>1. ASSUME NEW t \in Threads, power_chan(t) PROVE OrderInv'
  BY <1>1, WriteStep
<1>2. ASSUME NEW t \in Threads, Off(t) PROVE OrderInv'
  <2>1. PICK a \in {"id", "load", "serve", "wait"} : Goto(t, DownFrom[a], "off")
    BY <1>2 DEF Off
  <2>2. Same /\ at' = [at EXCEPT ![t] = "off"] /\ at[t] \in Downs \ {"start_down"} /\ todo[t] = <<>>
    BY <1>2, <2>1 DEF Off, Goto, DownFrom, Downs
  <2>3. t = "worker" => at["worker"] = "wait_down"
    BY <2>2 DEF Typed, WorkerAt, Downs
  <2>4. Typed'
    BY <2>2 DEF Typed, Threads, MainAt, WorkerAt
  <2>5. Phases'
    BY <2>2, <2>3 DEF Typed, Phases, Threads, Downs
  <2>6. Sequenced'
    BY <2>2 DEF Typed, Sequenced, Threads, Downs
  <2> QED
    BY <2>2, <2>4, <2>5, <2>6 DEF RailOrder
<1>3. CASE InitDown
  BY <1>3, DownStep DEF InitDown, BeginDown, Goto, Threads
<1>4. CASE InitPanic
  BY <1>4, DownStep DEF InitPanic, BeginDown, Goto, Threads
<1>5. CASE LoadPanic
  BY <1>5, DownStep DEF LoadPanic, BeginDown, Goto, Threads
<1>6. CASE WorkerPanic
  BY <1>6, DownStep DEF WorkerPanic, BeginDown, Goto, Threads
<1>7. CASE InitUp
  <2>1. /\ at["main"] = "start_down" /\ todo["main"] = <<>> /\ dac' = dac
        /\ at' = [at EXCEPT !["main"] = "up"] /\ todo' = [todo EXCEPT !["main"] = power_up(100)]
    BY <1>7 DEF InitUp, Goto
  <2>2. at["worker"] \notin {"wait_down", "off"}
    BY <2>1 DEF Phases
  <2>3. Typed'
    BY <2>1, UpSeq DEF Typed, Threads, MainAt, WorkerAt
  <2>4. Phases'
    BY <2>1, <2>2 DEF Typed, Phases, Threads
  <2>5. Sequenced'
    BY <2>1, <2>2, UpSeq DEF Typed, Sequenced, Threads, Downs, WorkerAt
  <2> QED
    BY <2>1, <2>3, <2>4, <2>5 DEF RailOrder
<1>8. CASE NewJtag \/ NewJtagDone \/ InitReset \/ InitDone \/ CoreReset \/ DriveJtag
  <2>1. /\ Same /\ todo["main"] = <<>>
        /\ \/ at["main"] = "new" /\ at' = [at EXCEPT !["main"] = "start"]
           \/ at["main"] = "up" /\ at' = [at EXCEPT !["main"] = "id"]
           \/ at["main"] = "id" /\ at' = [at EXCEPT !["main"] = "clocks"]
           \/ at["main"] = "load" /\ at' = [at EXCEPT !["main"] = "serve"]
           \/ at' = at
    BY <1>8 DEF Phases, NewJtag, NewJtagDone, InitReset, InitDone, CoreReset, DriveJtag, Goto
  <2>2. Typed'
    BY <2>1 DEF Typed, Threads, MainAt, WorkerAt
  <2>3. Phases'
    BY <2>1 DEF Typed, Phases, Threads
  <2>4. Sequenced'
    BY <2>1 DEF Typed, Sequenced, Threads, Downs
  <2> QED
    BY <2>1, <2>2, <2>3, <2>4 DEF RailOrder
<1>9. CASE PowerCore
  <2>1. /\ at["main"] = "clocks" /\ dac' = dac
        /\ at' = [at EXCEPT !["main"] = "load"] /\ todo' = [todo EXCEPT !["main"] = power_core(100)]
    BY <1>9 DEF PowerCore, Goto
  <2>2. Typed'
    BY <2>1, CoreSeq DEF Typed, Threads, MainAt, WorkerAt
  <2>3. Phases'
    BY <2>1 DEF Typed, Phases, Threads
  <2>4. Sequenced'
    BY <2>1, CoreSeq DEF Typed, Sequenced, Threads, Downs
  <2> QED
    BY <2>1, <2>2, <2>3, <2>4 DEF RailOrder
<1>10. CASE Quit
  <2>1. /\ dac' = dac /\ at' = [main |-> "serve_down", worker |-> "gone"]
        /\ todo' = [main |-> power_down, worker |-> <<>>]
    BY <1>10 DEF Quit, DownFrom
  <2>2. Typed'
    <3>1. todo' \in [Threads -> Seq(Writes)]
      <4>1. power_down \in Seq(Writes) /\ <<>> \in Seq(Writes)
        BY DownSeq
      <4>2. \A S, x, y : x \in S /\ y \in S => [main |-> x, worker |-> y] \in [Threads -> S]
        BY DEF Threads
      <4> QED
        BY <2>1, <4>1, <4>2, Zenon
    <3>2. at' \in [Threads -> MainAt \cup WorkerAt] /\ at'["main"] \in MainAt /\ at'["worker"] \in WorkerAt
      BY <2>1 DEF Threads, MainAt, WorkerAt
    <3> QED
      BY <2>1, <3>1, <3>2 DEF Typed
  <2>3. Phases'
    BY <2>1 DEF Phases
  <2>4. Sequenced'
    BY <2>1, DownSeq DEF Typed, Sequenced, Threads, Downs
  <2> QED
    BY <2>1, <2>2, <2>3, <2>4 DEF RailOrder
<1>11. CASE Restart
  <2>1. /\ dac' = dac /\ at' = [main |-> "new", worker |-> "wait"]
        /\ todo' = [t \in Threads |-> <<>>]
    BY <1>11 DEF Restart
  <2>2. Typed'
    BY <2>1 DEF Typed, Threads, MainAt, WorkerAt
  <2>3. Phases' /\ Sequenced'
    BY <2>1 DEF Phases, Sequenced, Threads, Downs
  <2> QED
    BY <2>1, <2>2, <2>3 DEF RailOrder
<1>12. CASE UNCHANGED vars
  BY <1>12 DEF vars, Typed, Phases, Sequenced, RailOrder
<1> QED
  BY <1>1, <1>2, <1>3, <1>4, <1>5, <1>6, <1>7, <1>8, <1>9, <1>10, <1>11, <1>12 DEF Next

(* The 1.8 V supplies are up whenever a 3.3 V one is, in every reachable      *)
(* state: two sequences at once and restarts in the middle of one included    *)
(* (power.cpp, "MUST be up whenever the 3.3V ones are").                      *)
THEOREM SuppliesOrdered == Spec => []RailOrder
<1>1. OrderInv => RailOrder
  BY DEF OrderInv
<1> QED
  BY OrderInit, OrderStep, <1>1, PTL DEF Spec

-----------------------------------------------------------------------------
(* The states of main in which the chip is up and its inputs may be driven. *)
Driven == {"id", "clocks", "load", "serve"}

(* No worker has begun a power_down of its own. *)
Alone == at["worker"] \in {"wait", "gone"}

(* The inductive invariant for the inputs: a pin is high only while the chip  *)
(* is up, and DVDD has reached its level, or is left to do, before; or in the *)
(* constructor of the JTAG object.                                            *)
PinsInv ==
    /\ OrderInv
    /\ Alone => /\ pins # {} => at["main"] \in Driven \cup {"new"}
                /\ at["main"] \in Driven => dac["DVDD"] = High33
                /\ at["main"] = "up" => dac["DVDD"] = High33 \/ Left(todo["main"], "DVDD")

(* What a step other than a write has to show: while no worker goes down. *)
LEMMA PinsNext ==
    ASSUME PinsInv, [Next]_vars,
           Alone' => /\ pins' # {} => at'["main"] \in Driven \cup {"new"}
                     /\ at'["main"] \in Driven => dac'["DVDD"] = High33
                     /\ at'["main"] = "up" => dac'["DVDD"] = High33 \/ Left(todo'["main"], "DVDD")
    PROVE  PinsInv'
BY OrderStep DEF PinsInv

(* A write of a sequence lowers DVDD only while no pin is high. *)
LEMMA PinsWrite ==
    ASSUME PinsInv, NEW t \in Threads, power_chan(t)
    PROVE  PinsInv'
<1> DEFINE s == todo[t]
           w == Head(s)
<1>1. /\ s \in Seq(Writes) /\ s # <<>> /\ at' = at /\ pins' = pins
      /\ todo' = [todo EXCEPT ![t] = Tail(s)]
      /\ dac' = [dac EXCEPT ![w[1]] = DacLevel(dac_data(w[2]))]
  BY DEF PinsInv, OrderInv, Typed, power_chan
<1>0. OrderInv'
  BY WriteStep DEF PinsInv
<1> SUFFICES ASSUME Alone PROVE PinsInv'
  BY <1>0, <1>1 DEF PinsInv, Alone
<1>2. t = "main" /\ todo'["main"] = Tail(s)
  BY <1>1 DEF PinsInv, OrderInv, Typed, Phases, Threads, Alone
<1> HIDE DEF s
<1>3. /\ w[1] \in Rails
      /\ dac'["DVDD"] = (IF w[1] = "DVDD" THEN DacLevel(dac_data(w[2])) ELSE dac["DVDD"])
  BY <1>1, TailLeft DEF PinsInv, OrderInv, Typed, Rails, Rail33, Writes
<1>5. CASE at["main"] \in Downs
  BY <1>0, <1>1, <1>5 DEF PinsInv, Downs, Driven
<1>6. CASE at["main"] = "up"
  <2>1. GoesUp(s)
    BY <1>2, <1>6 DEF PinsInv, OrderInv, Sequenced, s
  <2>2. w[1] = "DVDD" => dac'["DVDD"] = High33
    BY <1>1, <1>3, <2>1, TailLeft, Codes DEF Rail33
  <2>3. dac["DVDD"] = High33 \/ Left(s, "DVDD")
    BY <1>2, <1>6 DEF PinsInv, s
  <2>4. dac'["DVDD"] = High33 \/ Left(Tail(s), "DVDD")
    BY <1>1, <1>3, <2>2, <2>3, TailLeft
  <2> QED
    BY <1>0, <1>1, <1>2, <1>6, <2>4 DEF PinsInv, Driven
<1>7. CASE at["main"] = "load"
  <2>1. CoreOnly(s)
    BY <1>2, <1>7 DEF PinsInv, OrderInv, Sequenced, s
  <2>2. dac'["DVDD"] = dac["DVDD"]
    BY <1>1, <1>3, <2>1, TailLeft DEF Rail33
  <2> QED
    BY <1>0, <1>1, <1>7, <2>2 DEF PinsInv, Driven
<1> QED
  <2>1. at["main"] \in Downs \cup {"up", "load"}
    BY <1>1, <1>2 DEF PinsInv, OrderInv, Typed, Phases, MainAt, Downs, s
  <2> QED
    BY <2>1, <1>5, <1>6, <1>7

(* Every step keeps the inputs below DVDD, up to the panic of a worker. *)
LEMMA PinsStep == PinsInv /\ [Next]_vars => PinsInv'
<1> SUFFICES ASSUME PinsInv, [Next]_vars PROVE PinsInv'
  OBVIOUS
<1>0. Typed
  BY DEF PinsInv, OrderInv
<1>1. ASSUME NEW t \in Threads, power_chan(t) PROVE PinsInv'
  BY <1>1, PinsWrite
<1>2. ASSUME NEW t \in Threads, Off(t) PROVE PinsInv'
  <2>1. PICK a \in {"id", "load", "serve", "wait"} : Goto(t, DownFrom[a], "off")
    BY <1>2 DEF Off
  <2>2. /\ dac' = dac /\ todo' = todo /\ pins' = pins
        /\ at' = [at EXCEPT ![t] = "off"] /\ at[t] \in Downs
    BY <1>2, <2>1 DEF Off, Goto, DownFrom, Downs
  <2>3. CASE t = "worker"
    BY <1>0, <2>2, <2>3, PinsNext DEF Typed, Threads, Alone
  <2>4. CASE t = "main"
    BY <1>0, <2>2, <2>4, PinsNext DEF PinsInv, Typed, Threads, Driven, Downs, Alone
  <2> QED
    BY <2>3, <2>4 DEF Threads
<1>3. CASE InitDown \/ InitPanic \/ LoadPanic
  <2>1. PICK a \in {"start", "id", "load"} : BeginDown("main", a)
    BY <1>3 DEF InitDown, InitPanic, LoadPanic
  <2>2. pins' = {} /\ at' = [at EXCEPT !["main"] = DownFrom[a]] /\ DownFrom[a] \in Downs
    BY <2>1 DEF BeginDown, Goto, ZeroInputs, DownFrom, Downs
  <2> QED
    BY <1>0, <2>2, PinsNext DEF Typed, Threads, Driven, Downs
<1>4. CASE InitUp
  <2>1. /\ pins' = pins /\ at["main"] = "start_down" /\ at' = [at EXCEPT !["main"] = "up"]
        /\ todo' = [todo EXCEPT !["main"] = power_up(100)]
    BY <1>4 DEF InitUp, Goto
  <2>2. Left(todo'["main"], "DVDD")
    BY <1>0, <2>1, UpSeq DEF Typed, Threads, Rail33
  <2> QED
    BY <1>0, <2>1, <2>2, PinsNext DEF PinsInv, Typed, Threads, Driven, Alone
<1>5. CASE InitReset
  <2>1. /\ dac' = dac /\ at["main"] = "up" /\ todo["main"] = <<>>
        /\ at' = [at EXCEPT !["main"] = "id"]
    BY <1>5 DEF InitReset, Goto
  <2>2. Alone => dac["DVDD"] = High33
    BY <2>1 DEF PinsInv, Left
  <2> QED
    BY <1>0, <2>1, <2>2, PinsNext DEF Typed, Threads, Driven, Alone
<1>6. CASE InitDone \/ CoreReset \/ DriveJtag \/ PowerCore
  <2>1. /\ dac' = dac /\ at["main"] \in Driven
        /\ \/ \E b \in Driven : at' = [at EXCEPT !["main"] = b]
           \/ at' = at
    BY <1>6 DEF InitDone, CoreReset, DriveJtag, PowerCore, Goto, Driven
  <2> QED
    BY <1>0, <2>1, PinsNext DEF PinsInv, Typed, Threads, Driven, Alone
<1>7. CASE WorkerPanic
  <2>1. at' = [at EXCEPT !["worker"] = "wait_down"]
    BY <1>7 DEF WorkerPanic, BeginDown, Goto, DownFrom
  <2> QED
    BY <1>0, <2>1, PinsNext DEF Typed, Threads, Alone
<1>8. CASE Quit
  <2>1. pins' = {} /\ at' = [main |-> "serve_down", worker |-> "gone"]
    BY <1>8 DEF Quit, ZeroInputs, DownFrom
  <2> QED
    BY <2>1, PinsNext DEF Driven
<1>9. CASE Restart
  <2>1. pins' = {} /\ at' = [main |-> "new", worker |-> "wait"]
    BY <1>9 DEF Restart
  <2> QED
    BY <2>1, PinsNext DEF Driven
<1>10. CASE NewJtag
  <2>1. at["main"] = "new" /\ at' = at
    BY <1>10 DEF NewJtag
  <2> QED
    BY <2>1, PinsNext DEF Driven
<1>11. CASE NewJtagDone
  <2>1. pins' = {} /\ at' = [at EXCEPT !["main"] = "start"]
    BY <1>11 DEF NewJtagDone, Goto
  <2> QED
    BY <1>0, <2>1, PinsNext DEF Typed, Threads, Driven
<1>12. CASE UNCHANGED vars
  BY <1>12, PinsNext DEF vars, PinsInv, Alone
<1> QED
  BY <1>1, <1>2, <1>3, <1>4, <1>5, <1>6, <1>7, <1>8, <1>9, <1>10, <1>11, <1>12 DEF Next

(* From init_hw on, until a worker panics, and again after the restart, DVDD  *)
(* is at 3.3 V whenever an input of the chip is high, after every sequence of *)
(* power cycles, quits, panics of main and restarts: power_down zeroes the    *)
(* inputs before it lowers DVDD (power.cpp), and main drives none until       *)
(* power_up has raised it.                                                    *)
THEOREM InputsSafe == Spec => []InputsBelowDVDD
<1>1. Init => PinsInv
  BY OrderInit DEF Init, PinsInv, Driven
<1>2. PinsInv /\ [Next]_vars => PinsInv'
  BY PinsStep
<1>3. PinsInv => InputsBelowDVDD
  BY DEF PinsInv, Alone, InputsBelowDVDD, High33
<1> QED
  BY <1>1, <1>2, <1>3, PTL DEF Spec
=============================================================================
