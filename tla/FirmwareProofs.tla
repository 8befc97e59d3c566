---------------------------- MODULE FirmwareProofs ----------------------------
(***************************************************************************)
(* Proofs about Firmware for every set of request types, texts and lines,  *)
(* every number of faults and every length of the debug dump.              *)
(*                                                                         *)
(* The first part is about the control block of a mutex, the second shows  *)
(* that each kind of kernel step preserves LockInv:                        *)
(* locking, unlocking, terminating, and moving without touching a mutex.   *)
(* The third part shows that the firmware implements Service.              *)
(***************************************************************************)
EXTENDS Firmware, SequenceTheorems, TLAPS

-----------------------------------------------------------------------------
(* What the kernel operations of RtxMutex do to a control block, for any set  *)
(* T of tasks.                                                                *)

(* A new mutex is free and nobody waits for it (rt_mut_init). *)
LEMMA InitFacts ==
    ASSUME NEW T
    PROVE  /\ rt_mut_init \in MUCB(T)
           /\ \A t : ~Queued(rt_mut_init, t)
  BY DEF rt_mut_init, MUCB, Queued, NoTask

(* rt_mut_wait yields a control block. *)
LEMMA WaitType ==
    ASSUME NEW T, NEW c \in MUCB(T), NEW t \in T
    PROVE  rt_mut_wait(c, t) \in MUCB(T)
  <1>1. c.wait \in Seq(T) /\ c.level \in Nat /\ c.owner \in T \cup {NoTask}
    BY DEF MUCB
  <1>2. [owner |-> t, level |-> 1, wait |-> c.wait] \in MUCB(T)
    BY DEF MUCB
  <1>3. [owner |-> t, level |-> c.level + 1, wait |-> c.wait] \in MUCB(T)
    BY <1>1 DEF MUCB
  <1>4. [owner |-> c.owner, level |-> c.level, wait |-> Append(c.wait, t)] \in MUCB(T)
    <2>1. Append(c.wait, t) \in Seq(T)
      BY <1>1
    <2>2. QED
      BY <2>1 DEF MUCB
  <1>5. QED
    BY <1>2, <1>3, <1>4 DEF rt_mut_wait

(* rt_mut_release yields a control block: the head of the list is a task. *)
LEMMA ReleaseType ==
    ASSUME NEW T, NEW c \in MUCB(T), NEW t \in T
    PROVE  rt_mut_release(c, t) \in MUCB(T)
  <1>1. c.wait \in Seq(T) /\ c.level \in Nat
    BY DEF MUCB
  <1>2. c.wait # << >> => Head(c.wait) \in T /\ Tail(c.wait) \in Seq(T)
    BY <1>1
  <1>3. c.level > 1 => [owner |-> t, level |-> c.level - 1, wait |-> c.wait] \in MUCB(T)
    BY <1>1 DEF MUCB
  <1>4. c.wait # << >> =>
          [owner |-> Head(c.wait), level |-> 1, wait |-> Tail(c.wait)] \in MUCB(T)
    BY <1>2 DEF MUCB
  <1>5. rt_mut_init \in MUCB(T)
    BY InitFacts
  <1>6. QED
    BY <1>3, <1>4, <1>5 DEF rt_mut_release

(* After rt_mut_wait by a task that does not own the mutex, that task owns it *)
(* one level deep or is queued behind the others; nobody else is affected.    *)
LEMMA WaitFacts ==
    ASSUME NEW T, NEW c \in MUCB(T), NEW t \in T, c.owner # t
    PROVE  LET d == rt_mut_wait(c, t) IN
           \/ /\ c.level = 0
              /\ d = [owner |-> t, level |-> 1, wait |-> c.wait]
           \/ /\ c.level # 0
              /\ d.owner = c.owner /\ d.level = c.level
              /\ d.wait = Append(c.wait, t)
              /\ \A u : Queued(d, u) <=> Queued(c, u) \/ u = t
  <1> DEFINE d == rt_mut_wait(c, t)
  <1>1. CASE c.level = 0
    BY <1>1 DEF rt_mut_wait, MUCB
  <1>2. CASE c.level # 0
    <2>1. d.owner = c.owner /\ d.level = c.level /\ d.wait = Append(c.wait, t)
      BY <1>2 DEF rt_mut_wait, MUCB
    <2>2. c.wait \in Seq(T)
      BY DEF MUCB
    <2>3. ASSUME NEW u PROVE Queued(d, u) <=> Queued(c, u) \/ u = t
      BY <2>1, <2>2 DEF Queued
    <2>4. QED
      BY <1>2, <2>1, <2>3
  <1>3. QED
    BY <1>1, <1>2

(* rt_mut_release by an owner one level deep frees the mutex or hands it to   *)
(* the first waiting task, which leaves the list; the others keep waiting.    *)
LEMMA ReleaseFacts ==
    ASSUME NEW T, NEW c \in MUCB(T), NEW t \in T, c.owner = t, c.level = 1
    PROVE  LET d == rt_mut_release(c, t) IN
           \/ /\ c.wait = << >>
              /\ d = [owner |-> NoTask, level |-> 0, wait |-> << >>]
           \/ /\ c.wait # << >>
              /\ d = [owner |-> Head(c.wait), level |-> 1, wait |-> Tail(c.wait)]
              /\ \A u : Queued(d, u) => Queued(c, u)
              /\ \A u : Queued(c, u) => Queued(d, u) \/ u = Head(c.wait)
  <1> DEFINE d == rt_mut_release(c, t)
  <1>0. c.wait \in Seq(T)
    BY DEF MUCB
  <1>1. CASE c.wait = << >>
    BY <1>1 DEF rt_mut_release, rt_mut_init, MUCB
  <1>2. CASE c.wait # << >>
    <2>1. d = [owner |-> Head(c.wait), level |-> 1, wait |-> Tail(c.wait)]
      BY <1>2 DEF rt_mut_release, MUCB
    <2>2. Len(Tail(c.wait)) = Len(c.wait) - 1 /\ Len(c.wait) \in Nat
      BY <1>0, <1>2
    <2>3. \A i \in 1..Len(Tail(c.wait)) : Tail(c.wait)[i] = c.wait[i + 1]
      BY <1>0, <1>2
    <2>4. ASSUME NEW u, Queued(d, u) PROVE Queued(c, u)
      <3>1. PICK i \in 1..Len(Tail(c.wait)) : Tail(c.wait)[i] = u
        BY <2>1, <2>4 DEF Queued
      <3>2. i + 1 \in 1..Len(c.wait) /\ c.wait[i + 1] = u
        BY <2>2, <2>3, <3>1
      <3>3. QED
        BY <3>2 DEF Queued
    <2>5. ASSUME NEW u, Queued(c, u) PROVE Queued(d, u) \/ u = Head(c.wait)
      <3>1. PICK i \in 1..Len(c.wait) : c.wait[i] = u
        BY <2>5 DEF Queued
      <3>2. CASE i = 1
        BY <1>0, <1>2, <3>1, <3>2
      <3>3. CASE i # 1
        <4>1. i - 1 \in 1..Len(Tail(c.wait))
          BY <2>2, <3>1, <3>3
        <4>2. Tail(c.wait)[i - 1] = u
          BY <2>2, <2>3, <3>1, <4>1
        <4>3. d.wait = Tail(c.wait)
          BY <2>1
        <4>4. QED
          BY <4>1, <4>2, <4>3 DEF Queued
      <3>4. QED
        BY <3>2, <3>3
    <2>6. QED
      BY <1>2, <2>1, <2>4, <2>5
  <1>3. QED
    BY <1>1, <1>2

(* The hand-over: the first waiting task owns the mutex one level deep and is *)
(* the only one to leave the list, which stays without duplicates.            *)
LEMMA HandOver ==
    ASSUME NEW T, NEW c \in MUCB(T), NEW t \in T, c.owner = t, c.level = 1,
           c.wait # << >>,
           \A i, j \in 1..Len(c.wait) : c.wait[i] = c.wait[j] => i = j
    PROVE  LET d == rt_mut_release(c, t) IN
           /\ d.owner \in T /\ d.level = 1 /\ Queued(c, d.owner)
           /\ \A i, j \in 1..Len(d.wait) : d.wait[i] = d.wait[j] => i = j
           /\ \A u : Queued(d, u) <=> Queued(c, u) /\ u # d.owner
  <1> DEFINE d == rt_mut_release(c, t)
  <1>1. /\ d = [owner |-> Head(c.wait), level |-> 1, wait |-> Tail(c.wait)]
        /\ \A u : Queued(d, u) => Queued(c, u)
        /\ \A u : Queued(c, u) => Queued(d, u) \/ u = Head(c.wait)
    BY ReleaseFacts
  <1> HIDE DEF d
  <1>2. d.owner = Head(c.wait) /\ d.level = 1 /\ d.wait = Tail(c.wait)
    BY <1>1
  <1>3. c.wait \in Seq(T) /\ Len(c.wait) \in Nat /\ Len(c.wait) # 0
    BY DEF MUCB
  <1>4. /\ Len(d.wait) = Len(c.wait) - 1
        /\ \A i \in 1..Len(d.wait) : d.wait[i] = c.wait[i + 1]
    BY <1>2, <1>3
  <1>5. 1 \in 1..Len(c.wait) /\ d.owner = c.wait[1] /\ d.owner \in T
    BY <1>2, <1>3
  <1>6. Queued(c, d.owner)
    BY <1>5 DEF Queued
  <1>7. ASSUME NEW i \in 1..Len(d.wait), NEW j \in 1..Len(d.wait), d.wait[i] = d.wait[j]
        PROVE  i = j
    <2>1. i + 1 \in 1..Len(c.wait) /\ j + 1 \in 1..Len(c.wait)
      BY <1>3, <1>4
    <2>2. c.wait[i + 1] = c.wait[j + 1]
      BY <1>4, <1>7
    <2>3. i + 1 = j + 1
      BY <2>1, <2>2
    <2>4. QED
      BY <1>3, <1>4, <2>3
  <1>8. ~Queued(d, d.owner)
    <2>1. SUFFICES ASSUME NEW i \in 1..Len(d.wait), d.wait[i] = d.owner PROVE FALSE
      BY DEF Queued
    <2>2. i + 1 \in 1..Len(c.wait) /\ c.wait[i + 1] = c.wait[1] /\ i + 1 # 1
      BY <1>3, <1>4, <1>5, <2>1
    <2>3. QED
      BY <1>5, <2>2
  <1>9. QED
    BY <1>1, <1>2, <1>5, <1>6, <1>7, <1>8 DEF d

(* A function on 1..n is a sequence of length n. *)
LEMMA SeqIntro ==
    ASSUME NEW T, NEW n \in Nat, NEW w \in [1..n -> T]
    PROVE  w \in Seq(T) /\ Len(w) = n
  <1>1. w \in Seq(T)
    BY SeqDef, Zenon
  <1>2. DOMAIN w = 1..n /\ DOMAIN w = 1..Len(w) /\ Len(w) \in Nat
    BY <1>1, LenProperties
  <1>3. QED
    BY <1>1, <1>2

(* rt_rmv_list takes t out of a list without duplicates and leaves everybody  *)
(* else in it; owner and level stay as they are.                              *)
LEMMA RemoveFacts ==
    ASSUME NEW T, NEW c \in MUCB(T), NEW t \in T,
           \A i, j \in 1..Len(c.wait) : c.wait[i] = c.wait[j] => i = j
    PROVE  LET d == rt_rmv_list(c, t) IN
           /\ d \in MUCB(T)
           /\ d.owner = c.owner /\ d.level = c.level
           /\ \A i, j \in 1..Len(d.wait) : d.wait[i] = d.wait[j] => i = j
           /\ \A u : Queued(d, u) <=> Queued(c, u) /\ u # t
  <1> DEFINE d == rt_rmv_list(c, t)
  <1>0. c.wait \in Seq(T) /\ Len(c.wait) \in Nat
    BY DEF MUCB
  <1>1. CASE ~Queued(c, t)
    BY <1>1 DEF rt_rmv_list
  <1>2. CASE Queued(c, t)
    <2> DEFINE k == CHOOSE k \in 1..Len(c.wait) : c.wait[k] = t
               n == Len(c.wait) - 1
               w == [i \in 1..n |-> c.wait[IF i < k THEN i ELSE i + 1]]
    <2>1. k \in 1..Len(c.wait) /\ c.wait[k] = t
      BY <1>2 DEF Queued
    <2>2. d = [owner |-> c.owner, level |-> c.level, wait |-> w]
      BY <1>2 DEF rt_rmv_list
    <2> HIDE DEF k, d
    <2>3. n \in Nat /\ Len(c.wait) = n + 1 /\ k \in 1..(n + 1)
      BY <1>0, <2>1
    <2>4. \A i \in 1..n : /\ (IF i < k THEN i ELSE i + 1) \in 1..Len(c.wait)
                          /\ w[i] = c.wait[IF i < k THEN i ELSE i + 1]
      BY <2>3
    <2>5. w \in [1..n -> T]
      BY <1>0, <2>4
    <2> HIDE DEF w, n
    <2>5a. w \in Seq(T) /\ Len(w) = n
      BY <2>3, <2>5, SeqIntro
    <2>6. d.wait = w /\ d.owner = c.owner /\ d.level = c.level
      BY <2>2
    <2>7. d \in MUCB(T)
      BY <2>2, <2>5a DEF MUCB
    <2>8. ASSUME NEW i \in 1..n, NEW j \in 1..n, w[i] = w[j] PROVE i = j
      <3>1. (IF i < k THEN i ELSE i + 1) = (IF j < k THEN j ELSE j + 1)
        BY <2>4, <2>8
      <3>2. QED
        BY <2>3, <3>1
    <2>9. ASSUME NEW u, Queued(d, u) PROVE Queued(c, u) /\ u # t
      <3>1. PICK i \in 1..n : w[i] = u
        BY <2>5a, <2>6, <2>9 DEF Queued
      <3>2. (IF i < k THEN i ELSE i + 1) # k
        BY <2>3
      <3>3. QED
        BY <2>1, <2>4, <3>1, <3>2 DEF Queued
    <2>10. ASSUME NEW u, Queued(c, u), u # t PROVE Queued(d, u)
      <3>1. PICK i \in 1..Len(c.wait) : c.wait[i] = u
        BY <2>10 DEF Queued
      <3>2. i # k
        BY <2>1, <2>10, <3>1
      <3>3. CASE i < k
        <4>1. i \in 1..n /\ w[i] = u
          BY <2>3, <2>4, <3>1, <3>3
        <4>2. QED
          BY <2>5a, <2>6, <4>1 DEF Queued
      <3>4. CASE i > k
        <4>1. i - 1 \in 1..n /\ ~(i - 1 < k) /\ (i - 1) + 1 = i
          BY <2>3, <3>1, <3>4
        <4>2. w[i - 1] = u
          BY <2>4, <3>1, <4>1
        <4>3. QED
          BY <2>5a, <2>6, <4>1, <4>2 DEF Queued
      <3>5. QED
        BY <2>3, <3>1, <3>2, <3>3, <3>4
    <2>11. QED
      BY <2>5a, <2>6, <2>7, <2>8, <2>9, <2>10 DEF d
  <1>3. QED
    BY <1>1, <1>2

-----------------------------------------------------------------------------
(* The labels of the threads and the kernel calls between them. *)

(* Moving from label a to label b changes nothing about the mutexes held. *)
SameHeld(a, b) ==
    /\ \A m \in Mutexes : a \in HeldAt(m) <=> b \in HeldAt(m)
    /\ a \in Panicking <=> b \in Panicking

(* The labels of a lock call: a in front of it, b behind it. *)
LockCall(m, a, b) ==
    /\ b \in BehindLock(m) /\ a \notin HeldAt(m)
    /\ \A k \in Mutexes \ {m} : a \in HeldAt(k) <=> b \in HeldAt(k)
    /\ a \in Panicking <=> b \in Panicking

(* The labels of an unlock call of m. *)
UnlockCall(m, a, b) ==
    /\ a \in HeldAt(m) /\ b \notin HeldAt(m)
    /\ \A k \in Mutexes \ {m} : a \in HeldAt(k) <=> b \in HeldAt(k)
    /\ a \in Panicking <=> b \in Panicking

(* A thread behind a lock call is in the section the mutex guards. *)
LEMMA BehindHeld ==
    ASSUME NEW m \in Mutexes
    PROVE  BehindLock(m) \subseteq HeldAt(m)
  BY DEF Mutexes, BehindLock, HeldAt

(* A step that changes no mutex and moves threads that are not queued between *)
(* labels that hold the same mutexes, or into panic, preserves LockInv.       *)
LEMMA MoveStep ==
    ASSUME TypeOK, LockInv, mtx' = mtx, alive' = alive,
           \A u \in Threads :
              \/ pc'[u] = pc[u]
              \/ /\ \A m \in Mutexes : ~Queued(mtx[m], u)
                 /\ SameHeld(pc[u], pc'[u]) \/ pc'[u] = "p_lock"
    PROVE  LockInv'
  <1> SUFFICES ASSUME NEW m \in Mutexes, NEW t \in Threads
               PROVE  LET c == mtx[m] IN
                      /\ Queued(c, t) => pc'[t] \in BehindLock(m) /\ c.owner # t
                      /\ t \in alive /\ pc'[t] \in HeldAt(m) /\ ~Queued(c, t) => c.owner = t
                      /\ c.owner = t /\ pc'[t] \notin Panicking
                           => pc'[t] \in HeldAt(m) /\ c.level = 1
    BY DEF LockInv, MutexInv, Queued
  <1>1. "p_lock" \notin HeldAt(m) /\ "p_lock" \in Panicking
    BY DEF HeldAt, Panicking, Mutexes
  <1>2. QED
    BY <1>1 DEF LockInv, MutexInv, SameHeld

(* Mutex::lock preserves LockInv. *)
LEMMA LockStep ==
    ASSUME TypeOK, LockInv, NEW t \in Threads, NEW m \in Mutexes, NEW to,
           Runnable(t), LockCall(m, pc[t], to), alive' = alive,
           pc' = [pc EXCEPT ![t] = to],
           mtx' = [mtx EXCEPT ![m] = rt_mut_wait(@, t)]
    PROVE  LockInv'
  <1> DEFINE c == mtx[m]
             d == rt_mut_wait(c, t)
  <1>1. /\ c \in MUCB(Threads) /\ mtx' = [mtx EXCEPT ![m] = d]
        /\ mtx'[m] = d /\ \A k \in Mutexes \ {m} : mtx'[k] = mtx[k]
        /\ pc'[t] = to /\ \A u \in Threads \ {t} : pc'[u] = pc[u]
    BY DEF TypeOK
  <1>2. \A k \in Mutexes : ~Queued(mtx[k], t)
    BY DEF Runnable
  <1>3. to \in BehindLock(m) /\ to \in HeldAt(m) /\ pc[t] \notin HeldAt(m)
    BY BehindHeld DEF LockCall
  <1>4. ASSUME NEW k \in Mutexes \ {m}
        PROVE  MutexInv(k)'
    <2>1. pc[t] \in HeldAt(k) <=> to \in HeldAt(k)
      BY DEF LockCall
    <2>2. QED
      BY <1>1, <1>2, <2>1 DEF LockInv, MutexInv, LockCall, Queued
  <1>5. MutexInv(m)'
    <2>0. MutexInv(m) /\ NoTask \notin Threads /\ (pc[t] \in Panicking <=> to \in Panicking)
      BY DEF LockInv, LockCall, NoTask, Threads, Workers
    <2>1. CASE c.owner = t
      <3>1. to \in Panicking /\ c.level # 0
        BY <1>3, <2>0, <2>1 DEF MutexInv
      <3>2. d = [owner |-> t, level |-> c.level + 1, wait |-> c.wait] /\ c.level \in Nat
        BY <1>1, <2>1, <3>1 DEF rt_mut_wait, MUCB
      <3>3. d.owner = t /\ d.level = c.level + 1 /\ d.wait = c.wait
        BY <3>2
      <3>4. QED
        BY <1>1, <1>2, <1>3, <2>0, <2>1, <3>1, <3>2, <3>3 DEF MutexInv, Queued
    <2>2. CASE c.owner # t /\ c.level = 0
      <3>1. d.owner = t /\ d.level = 1 /\ d.wait = c.wait
        BY <1>1, <2>2, WaitFacts
      <3>2. QED
        BY <1>1, <1>2, <1>3, <2>0, <2>2, <3>1 DEF MutexInv, Queued
    <2>3. CASE c.owner # t /\ c.level # 0
      <3>1. /\ d.owner = c.owner /\ d.level = c.level /\ d.wait = Append(c.wait, t)
            /\ \A u : Queued(d, u) <=> Queued(c, u) \/ u = t
        BY <1>1, <2>3, WaitFacts
      <3>2. \A i, j \in 1..Len(d.wait) : d.wait[i] = d.wait[j] => i = j
        <4>1. c.wait \in Seq(Threads) /\ \A i \in 1..Len(c.wait) : c.wait[i] # t
          BY <1>1, <1>2 DEF MUCB, Queued
        <4>2. QED
          BY <2>0, <3>1, <4>1 DEF MutexInv
      <3>3. QED
        BY <1>1, <1>2, <1>3, <2>0, <2>3, <3>1, <3>2 DEF MutexInv
    <2>4. QED
      BY <2>1, <2>2, <2>3
  <1>6. QED
    BY <1>4, <1>5 DEF LockInv

(* Mutex::unlock preserves LockInv: the thread that unlocks owns the mutex,   *)
(* and the thread it is handed to has been behind its lock call all the time. *)
LEMMA UnlockStep ==
    ASSUME TypeOK, LockInv, NEW t \in Threads, NEW m \in Mutexes, NEW to,
           Runnable(t), UnlockCall(m, pc[t], to), alive' = alive,
           pc' = [pc EXCEPT ![t] = to],
           mtx' = [mtx EXCEPT ![m] = rt_mut_release(@, t)]
    PROVE  LockInv'
  <1> DEFINE c == mtx[m]
             d == rt_mut_release(c, t)
  <1>1. /\ c \in MUCB(Threads) /\ mtx' = [mtx EXCEPT ![m] = d]
        /\ mtx'[m] = d /\ \A k \in Mutexes \ {m} : mtx'[k] = mtx[k]
        /\ pc'[t] = to /\ \A u \in Threads \ {t} : pc'[u] = pc[u]
    BY DEF TypeOK
  <1>2. t \in alive /\ \A k \in Mutexes : ~Queued(mtx[k], t)
    BY DEF Runnable
  <1>3. to \notin HeldAt(m) /\ pc[t] \in HeldAt(m)
    BY DEF UnlockCall
  <1>4. ASSUME NEW k \in Mutexes \ {m}
        PROVE  MutexInv(k)'
    <2>1. pc[t] \in HeldAt(k) <=> to \in HeldAt(k)
      BY DEF UnlockCall
    <2>2. QED
      BY <1>1, <1>2, <2>1 DEF LockInv, MutexInv, UnlockCall, Queued
  <1>5. MutexInv(m)'
    <2>0. /\ MutexInv(m) /\ NoTask \notin Threads
          /\ (pc[t] \in Panicking <=> to \in Panicking)
          /\ BehindLock(m) \subseteq HeldAt(m)
      BY BehindHeld DEF LockInv, UnlockCall, NoTask, Threads, Workers
    <2>1. c.owner = t /\ c.level # 0 /\ c.level \in Nat /\ c.wait \in Seq(Threads)
      BY <1>1, <1>2, <1>3, <2>0 DEF MutexInv, MUCB
    <2>2. CASE c.level > 1
      <3>1. to \in Panicking
        BY <2>0, <2>1, <2>2 DEF MutexInv
      <3>2. d = [owner |-> t, level |-> c.level - 1, wait |-> c.wait]
        BY <2>1, <2>2 DEF rt_mut_release
      <3>3. d.owner = t /\ d.level = c.level - 1 /\ d.level # 0 /\ d.wait = c.wait
        BY <2>1, <2>2, <3>2
      <3>4. QED
        BY <1>1, <1>2, <1>3, <2>0, <2>1, <2>2, <3>1, <3>3 DEF MutexInv, Queued
    <2>3. CASE c.level = 1 /\ c.wait = << >>
      <3>1. d.owner = NoTask /\ d.level = 0 /\ d.wait = << >>
        BY <1>1, <2>1, <2>3, ReleaseFacts
      <3>2. \A u : ~Queued(d, u) /\ ~Queued(c, u)
        BY <2>3, <3>1 DEF Queued
      <3>3. QED
        BY <1>1, <1>2, <1>3, <2>0, <2>1, <3>1, <3>2 DEF MutexInv
    <2>4. CASE c.level = 1 /\ c.wait # << >>
      <3>1. /\ d.owner \in Threads /\ d.level = 1 /\ Queued(c, d.owner)
            /\ \A i, j \in 1..Len(d.wait) : d.wait[i] = d.wait[j] => i = j
            /\ \A u : Queued(d, u) <=> Queued(c, u) /\ u # d.owner
        <4>1. \A i, j \in 1..Len(c.wait) : c.wait[i] = c.wait[j] => i = j
          BY <2>0 DEF MutexInv
        <4>2. QED
          BY <1>1, <2>1, <2>4, <4>1, HandOver
      <3> HIDE DEF d
      <3>2. d.owner # t /\ pc'[d.owner] \in BehindLock(m) /\ pc'[d.owner] \in HeldAt(m)
        BY <1>1, <1>2, <2>0, <3>1 DEF MutexInv
      <3>3. ASSUME NEW u \in Threads
            PROVE  /\ Queued(d, u) => pc'[u] \in BehindLock(m) /\ d.owner # u
                   /\ u \in alive /\ pc'[u] \in HeldAt(m) /\ ~Queued(d, u) => d.owner = u
                   /\ d.owner = u /\ pc'[u] \notin Panicking
                        => pc'[u] \in HeldAt(m) /\ d.level = 1
        <4>1. CASE u = t
          BY <1>1, <1>2, <1>3, <3>1, <3>2, <4>1
        <4>2. CASE u = d.owner
          BY <3>1, <3>2, <4>2
        <4>3. CASE u # t /\ u # d.owner
          <5>1. pc'[u] = pc[u] /\ c.owner # u /\ (Queued(d, u) <=> Queued(c, u))
            BY <1>1, <2>1, <3>1, <4>3
          <5>2. QED
            BY <2>0, <4>3, <5>1 DEF MutexInv
        <4>4. QED
          BY <4>1, <4>2, <4>3
      <3>4. QED
        BY <1>1, <2>0, <3>1, <3>3 DEF MutexInv
    <2>5. QED
      BY <2>1, <2>2, <2>3, <2>4
  <1>6. QED
    BY <1>4, <1>5 DEF LockInv

(* Thread::terminate preserves LockInv: the dead thread leaves the list it    *)
(* waits in, and keeps the mutexes it owns.                                   *)
LEMMA TerminateStep ==
    ASSUME TypeOK, LockInv, NEW v \in Threads, NEW to, Runnable("main"),
           SameHeld(pc["main"], to), alive' = alive \ {v},
           pc' = [pc EXCEPT !["main"] = to],
           mtx' = [k \in Mutexes |-> rt_rmv_list(mtx[k], v)]
    PROVE  LockInv'
  <1> SUFFICES ASSUME NEW m \in Mutexes PROVE MutexInv(m)'
    BY DEF LockInv
  <1> DEFINE c == mtx[m]
             d == rt_rmv_list(c, v)
  <1>1. /\ c \in MUCB(Threads) /\ mtx'[m] = d /\ "main" \in Threads
        /\ pc'["main"] = to /\ \A u \in Threads \ {"main"} : pc'[u] = pc[u]
    BY DEF TypeOK, Threads
  <1>2. MutexInv(m) /\ ~Queued(c, "main")
    BY DEF LockInv, Runnable
  <1>3. /\ d.owner = c.owner /\ d.level = c.level
        /\ \A i, j \in 1..Len(d.wait) : d.wait[i] = d.wait[j] => i = j
        /\ \A u : Queued(d, u) <=> Queued(c, u) /\ u # v
    <2>1. \A i, j \in 1..Len(c.wait) : c.wait[i] = c.wait[j] => i = j
      BY <1>2 DEF MutexInv
    <2>2. QED
      BY <1>1, <2>1, RemoveFacts
  <1> HIDE DEF d
  <1>4. QED
    BY <1>1, <1>2, <1>3 DEF MutexInv, SameHeld

-----------------------------------------------------------------------------
(* The inductive invariant.                                                   *)

SchedOK ==
    /\ pc \in [Threads -> Labels]
    /\ mtx \in [Mutexes -> MUCB(Threads)]
    /\ sig \subseteq Threads
    /\ alive \subseteq Threads

DataOK ==
    /\ loc \in [Threads -> Local]
    /\ job \in [send : {"none", "print", "enet_send", "wireless_send"},
                recv : {"none", "scan", "enet_recv", "wireless_recv"},
                gain : Data]
    /\ fresh \in [isr : BOOLEAN, debug : BOOLEAN]
    /\ words \in 0..(2 * DebugWords)
    /\ tx \in Data
    /\ rx \in Data
    /\ ethernet_open \in BOOLEAN
    /\ ram \in RAM
    /\ core \in [type : AllTypes \cup {"off", "none"}, arg : Data]
    /\ irq \in BOOLEAN
    /\ ack_irq \in BOOLEAN
    /\ served \in [dev : {"none", "terminal", "keyboard", "net_out", "net_in", "sensor"},
                   what : Data]
    /\ line \in Lines \cup {"none"}
    /\ power \in BOOLEAN
    /\ halted \in BOOLEAN
    /\ hurt \subseteq Threads
    /\ faults \in 0..MaxFaults

(* Where the debug thread is about to read a word, one is left to read. *)
WordsLeft == {"g_lock", "g_init", "g_read", "g_lockb", "g_blank"}
WordsInv == pc["debug"] \in WordsLeft => words > 0

(* The terminal buffers belong to the service that has filled them. *)
BufInv ==
    ~halted =>
      /\ "send" \in alive /\ pc["send"] = "tp_print" => tx = loc["send"].val
      /\ "recv" \in alive /\ pc["recv"] \in {"ts_lock", "ts_copy"} => rx = loc["recv"].val

IInv == SchedOK /\ DataOK /\ LockInv /\ WordsInv /\ BufInv

(* The type invariant in two halves. *)
LEMMA TypeSplit == TypeOK <=> SchedOK /\ DataOK
  BY DEF TypeOK, SchedOK, DataOK

(* The initial states satisfy the invariant. *)
LEMMA InitInv == Init => IInv
  <1> SUFFICES ASSUME Init PROVE IInv
    OBVIOUS
  <1>1. rt_mut_init \in MUCB(Threads) /\ \A t : ~Queued(rt_mut_init, t)
    BY InitFacts
  <1>2. SchedOK
    BY <1>1 DEF Init, SchedOK, Labels, Access
  <1>3. DataOK
    <2>1. "none" \in Data
      BY DEF Data
    <2>2. ethernet_open \in BOOLEAN
      BY ConstantsAssumption DEF Init
    <2>3. loc \in [Threads -> Local]
      BY <2>1 DEF Init, Local, NoLocal
    <2>4. words \in 0..(2 * DebugWords) /\ faults \in 0..MaxFaults
      BY ConstantsAssumption DEF Init
    <2>5. ram \in RAM
      BY <2>1 DEF Init, RAM
    <2>6. QED
      BY <2>1, <2>2, <2>3, <2>4, <2>5 DEF Init, DataOK, NoService
  <1>4. LockInv
    <2> SUFFICES ASSUME NEW m \in Mutexes PROVE MutexInv(m)
      BY DEF LockInv
    <2>1. mtx[m] = rt_mut_init
      BY DEF Init
    <2>2. /\ rt_mut_init.owner = NoTask /\ rt_mut_init.level = 0
          /\ rt_mut_init.wait = << >> /\ NoTask \notin Threads
      BY DEF rt_mut_init, NoTask, Threads, Workers
    <2>3. \A t \in Threads : pc[t] \notin HeldAt(m)
      BY DEF Init, HeldAt, Mutexes
    <2>4. QED
      BY <1>1, <2>1, <2>2, <2>3 DEF MutexInv
  <1>5. WordsInv /\ BufInv
    BY DEF Init, WordsInv, BufInv, WordsLeft, Threads, Workers
  <1>6. QED
    BY <1>2, <1>3, <1>4, <1>5 DEF IInv

-----------------------------------------------------------------------------
(* Steps by kind: what is left to show for an action is DataOK' and what it   *)
(* does to the buffers.                                                       *)

(* t changes nobody else's local variables and neither buffer nor the dump. *)
Quiet(t) ==
    /\ words' = words /\ tx' = tx /\ rx' = rx
    /\ \A u \in Threads \ {t} : loc'[u] = loc[u]

(* Labels at which WordsInv and BufInv say nothing. *)
Plain(to) == to \in Labels \ (WordsLeft \cup {"tp_print", "ts_lock", "ts_copy"})

(* A quiet step of t to a plain label preserves WordsInv and BufInv. *)
LEMMA QuietStep ==
    ASSUME IInv, NEW t \in Threads, NEW to, Runnable(t), Quiet(t), Plain(to),
           pc' = [pc EXCEPT ![t] = to], alive' \subseteq alive
    PROVE  WordsInv' /\ BufInv'
  <1>1. pc'[t] = to /\ \A u \in Threads \ {t} : pc'[u] = pc[u]
    BY DEF IInv, SchedOK
  <1>2. {"send", "recv", "debug"} \subseteq Threads /\ ~halted
    BY DEF Threads, Workers, Runnable
  <1>3. QED
    BY <1>1, <1>2 DEF IInv, WordsInv, BufInv, Quiet, Plain

(* A step that leaves the mutexes alone keeps the scheduling state correct. *)
LEMMA GotoSched ==
    ASSUME IInv, NEW t \in Threads, NEW to \in Labels, Runnable(t), Goto(t, to),
           SameHeld(pc[t], to) \/ to = "p_lock"
    PROVE  SchedOK' /\ LockInv'
  <1>1. SchedOK'
    BY DEF IInv, SchedOK, Goto
  <1>2. LockInv'
    BY MoveStep, TypeSplit DEF IInv, SchedOK, Goto, Runnable
  <1>3. QED
    BY <1>1, <1>2

(* So does Mutex::unlock. *)
LEMMA UnlockSched ==
    ASSUME IInv, NEW t \in Threads, NEW m \in Mutexes, NEW to \in Labels,
           Runnable(t), Unlock(t, m, to), UnlockCall(m, pc[t], to)
    PROVE  SchedOK' /\ LockInv'
  <1>1. rt_mut_release(mtx[m], t) \in MUCB(Threads)
    BY ReleaseType DEF IInv, SchedOK
  <1>2. SchedOK'
    BY <1>1 DEF IInv, SchedOK, Unlock
  <1>3. LockInv'
    BY UnlockStep, TypeSplit DEF IInv, Unlock
  <1>4. QED
    BY <1>2, <1>3

(* Mutex::lock preserves the invariant. *)
LEMMA LockAct ==
    ASSUME IInv, NEW t \in Threads, NEW m \in Mutexes, NEW from, NEW to \in Labels,
           Lock(t, m, from, to), LockCall(m, from, to), to # "tp_print", to # "ts_lock",
           to \in WordsLeft => from \in WordsLeft,
           to = "ts_copy" => from = "ts_lock"
    PROVE  IInv'
  <1>1. pc[t] = from /\ Runnable(t) /\ pc' = [pc EXCEPT ![t] = to] /\ alive' = alive
    BY DEF Lock, At
  <1>2. SchedOK'
    <2>1. rt_mut_wait(mtx[m], t) \in MUCB(Threads)
      BY WaitType DEF IInv, SchedOK
    <2>2. QED
      BY <2>1 DEF IInv, SchedOK, Lock
  <1>3. LockInv'
    BY <1>1, LockStep, TypeSplit DEF IInv, Lock
  <1>4. DataOK'
    BY DEF IInv, DataOK, Lock, local, shared, buffers, coreIO, devices, plant, bus
  <1>5. WordsInv' /\ BufInv'
    <2>1. pc'[t] = to /\ \A u \in Threads \ {t} : pc'[u] = pc[u]
      BY <1>1 DEF IInv, SchedOK
    <2>2. {"send", "recv", "debug"} \subseteq Threads
      BY DEF Threads, Workers
    <2>3. words' = words /\ tx' = tx /\ rx' = rx /\ loc' = loc /\ halted' = halted
      BY DEF Lock, local, buffers, plant
    <2>4. QED
      BY <1>1, <2>1, <2>2, <2>3 DEF IInv, WordsInv, BufInv
  <1>6. QED
    BY <1>2, <1>3, <1>4, <1>5 DEF IInv

(* A quiet step without a mutex preserves the invariant. *)
LEMMA GotoAct ==
    ASSUME IInv, NEW t \in Threads, NEW from, NEW to, At(t, from), Goto(t, to),
           SameHeld(from, to) \/ to = "p_lock", Plain(to), Quiet(t), DataOK'
    PROVE  IInv'
  <1>1. to \in Labels /\ Runnable(t) /\ pc[t] = from
    BY DEF Plain, At
  <1>2. SchedOK' /\ LockInv'
    BY <1>1, GotoSched
  <1>3. WordsInv' /\ BufInv'
    BY <1>1, QuietStep DEF Goto
  <1>4. QED
    BY <1>2, <1>3 DEF IInv

(* A quiet step that ends with an unlock preserves the invariant. *)
LEMMA UnlockAct ==
    ASSUME IInv, NEW t \in Threads, NEW m \in Mutexes, NEW from, NEW to,
           At(t, from), Unlock(t, m, to), UnlockCall(m, from, to),
           Plain(to), Quiet(t), DataOK'
    PROVE  IInv'
  <1>1. to \in Labels /\ Runnable(t) /\ pc[t] = from
    BY DEF Plain, At
  <1>2. SchedOK' /\ LockInv'
    BY <1>1, UnlockSched
  <1>3. WordsInv' /\ BufInv'
    BY <1>1, QuietStep DEF Unlock
  <1>4. QED
    BY <1>2, <1>3 DEF IInv

-----------------------------------------------------------------------------
(* One lemma per operation of the code.                                       *)

(* The bookkeeping of overlapping accesses keeps its type. *)
LEMMA AccessType ==
    ASSUME IInv, NEW t \in Threads, EndAccess(t)
    PROVE  hurt' \subseteq Threads /\ faults' \in 0..MaxFaults
  BY DEF IInv, DataOK, EndAccess, Others

(* JTAG::shiftData and the checks around it: panic leaves every mutex alone. *)
LEMMA JtagPanicAct ==
    ASSUME IInv, NEW t \in Threads, JtagPanic(t)
    PROVE  IInv'
  <1>1. At(t, pc[t]) /\ Goto(t, "p_lock")
    BY DEF JtagPanic, InJtag, At
  <1>2. Plain("p_lock")
    BY DEF Plain, Labels, WordsLeft
  <1>3. Quiet(t)
    BY DEF JtagPanic, Quiet, local, buffers
  <1>4. DataOK'
    <2>1. faults' \in 0..MaxFaults /\ hurt' \subseteq Threads
      BY ConstantsAssumption DEF IInv, DataOK, JtagPanic, Others
    <2>2. QED
      BY <2>1 DEF IInv, DataOK, JtagPanic, local, shared, buffers, coreIO, devices, plant
  <1>5. QED
    BY <1>1, <1>2, <1>3, <1>4, GotoAct

(* A thread that runs between the lock and the unlock of m owns m, so nobody  *)
(* else alive is there without waiting for m.                                 *)
LEMMA OnlyOwner ==
    ASSUME IInv, NEW m \in Mutexes, NEW t \in Threads, NEW u \in Threads,
           Runnable(t), pc[t] \in HeldAt(m),
           u \in alive, pc[u] \in HeldAt(m) \ BehindLock(m)
    PROVE  t = u
  <1>1. MutexInv(m)
    BY DEF IInv, LockInv
  <1>2. mtx[m].owner = t
    BY <1>1 DEF MutexInv, Runnable
  <1>3. mtx[m].owner = u
    BY <1>1 DEF MutexInv
  <1>4. QED
    BY <1>2, <1>3

(* mbed_printf: the terminal buffer is overwritten by the owner of            *)
(* term_write_mutex, when no print service relies on it.                      *)
LEMMA PrintfAct ==
    ASSUME IInv, NEW t \in Threads, NEW lock, NEW print, NEW to,
           mbed_printf(t, lock, print, to), print \in Labels,
           LockCall("tw", lock, print), UnlockCall("tw", print, to),
           print \in WordsLeft => lock \in WordsLeft, print \notin {"tp_print", "ts_lock", "ts_copy"},
           to \in Labels \ {"tp_print", "ts_lock", "ts_copy"},
           t = "debug" /\ to \in WordsLeft => words > 0
    PROVE  IInv'
  <1>0. "tw" \in Mutexes
    BY DEF Mutexes
  <1>1. CASE Lock(t, "tw", lock, print)
    BY <1>0, <1>1, LockAct
  <1>2. CASE /\ At(t, print)
             /\ tx' = "msg"
             /\ Unlock(t, "tw", to)
             /\ UNCHANGED <<rx, local, shared, coreIO, devices, plant, bus>>
    <2>1. Runnable(t) /\ pc[t] = print /\ print \in HeldAt("tw")
      BY <1>2 DEF At, UnlockCall
    <2>2. SchedOK' /\ LockInv'
      BY <1>0, <1>2, <2>1, UnlockSched
    <2>3. DataOK'
      <3>1. tx' \in Data
        BY <1>2 DEF Data
      <3>2. QED
        BY <1>2, <3>1 DEF IInv, DataOK, local, shared, coreIO, devices, plant, bus
    <2>4. /\ pc'[t] = to /\ \A u \in Threads \ {t} : pc'[u] = pc[u]
          /\ words' = words /\ loc' = loc /\ rx' = rx /\ alive' = alive /\ halted' = halted
          /\ {"send", "recv", "debug"} \subseteq Threads
      BY <1>2 DEF IInv, SchedOK, Unlock, local, plant, Threads, Workers
    <2>5. WordsInv'
      BY <2>4 DEF IInv, WordsInv
    <2>6. "send" \in alive => pc'["send"] # "tp_print"
      <3>1. SUFFICES ASSUME "send" \in alive, pc'["send"] = "tp_print" PROVE FALSE
        OBVIOUS
      <3>2. t # "send" /\ pc["send"] = "tp_print"
        BY <2>4, <3>1
      <3>3. "tp_print" \in HeldAt("tw") \ BehindLock("tw")
        BY DEF HeldAt, BehindLock
      <3>4. QED
        BY <1>0, <2>1, <2>4, <3>1, <3>2, <3>3, OnlyOwner
    <2>7. BufInv'
      BY <2>4, <2>6 DEF IInv, BufInv
    <2>8. QED
      BY <2>2, <2>3, <2>5, <2>7 DEF IInv
  <1>3. QED
    BY <1>1, <1>2 DEF mbed_printf

(* panic *)
LEMMA PanicAct ==
    ASSUME IInv, NEW t \in Threads, panic(t)
    PROVE  IInv'
  <1>1. CASE mbed_printf(t, "p_lock", "p_print", "p_down")
    <2>1. /\ LockCall("tw", "p_lock", "p_print") /\ UnlockCall("tw", "p_print", "p_down")
          /\ {"p_print", "p_down"} \subseteq Labels
      BY DEF LockCall, UnlockCall, Mutexes, HeldAt, BehindLock, Panicking, Labels
    <2>2. QED
      BY <1>1, <2>1, PrintfAct DEF WordsLeft
  <1>2. CASE /\ At(t, "p_down")
             /\ power' = FALSE
             /\ halted' = TRUE
             /\ UNCHANGED <<sched, local, shared, buffers, coreIO, devices, bus>>
    <2>1. SchedOK' /\ LockInv' /\ WordsInv' /\ BufInv'
      BY <1>2 DEF IInv, SchedOK, LockInv, MutexInv, Queued, WordsInv, BufInv, sched, local
    <2>2. DataOK'
      <3>1. power' \in BOOLEAN /\ halted' \in BOOLEAN
        BY <1>2
      <3>2. QED
        BY <1>2, <3>1 DEF IInv, DataOK, local, shared, buffers, coreIO, devices, bus
    <2>3. QED
      BY <2>1, <2>2 DEF IInv
  <1>3. QED
    BY <1>1, <1>2 DEF panic, power_down

(* What an access reads or leaves behind is a word of the RAM or junk. *)
LEMMA SeesData ==
    ASSUME NEW t, NEW v \in Data
    PROVE  Sees(t, v, {"junk"}) \subseteq Data
  BY DEF Sees, Data

(* Another value in the local variable of one thread. *)
LEMMA LocalType ==
    ASSUME IInv, NEW t \in Threads, NEW v \in Data,
           loc' = [loc EXCEPT ![t].val = v]
    PROVE  /\ loc' \in [Threads -> Local] /\ loc'[t].val = v
           /\ \A u \in Threads \ {t} : loc'[u] = loc[u]
  <1>1. loc \in [Threads -> Local] /\ loc[t] \in Local
    BY DEF IInv, DataOK
  <1>2. [loc[t] EXCEPT !.val = v] \in Local /\ [loc[t] EXCEPT !.val = v].val = v
    BY <1>1 DEF Local
  <1>3. loc' = [loc EXCEPT ![t] = [loc[t] EXCEPT !.val = v]]
    OBVIOUS
  <1>4. QED
    BY <1>1, <1>2, <1>3

(* jtag_writebuffer of the send thread: term_printf reads into the terminal   *)
(* buffer, enet_send into a buffer of its own.                                *)
LEMMA WriteBufferAct ==
    ASSUME IInv, NEW lock, NEW copy, NEW to,
           jtag_writebuffer("send", lock, copy, to),
           \/ <<lock, copy, to>> = <<"tp_lock", "tp_copy", "tp_print">>
           \/ <<lock, copy, to>> = <<"es_lock", "es_copy", "es_send">>
    PROVE  IInv'
  <1>0. "jtag" \in Mutexes /\ {"send", "recv", "debug"} \subseteq Threads
    BY DEF Mutexes, Threads, Workers
  <1>1. /\ LockCall("jtag", lock, copy) /\ UnlockCall("jtag", copy, to)
        /\ {copy, to} \subseteq Labels
    BY DEF LockCall, UnlockCall, Mutexes, HeldAt, BehindLock, Panicking, Labels
  <1>2. CASE Lock("send", "jtag", lock, copy)
    BY <1>0, <1>1, <1>2, LockAct DEF WordsLeft
  <1>3. CASE At("send", copy) /\ ~Lock("send", "jtag", lock, copy)
    <2>1. PICK v \in Sees("send", ram.wbuf, {"junk"}) :
            /\ loc' = [loc EXCEPT !["send"].val = v]
            /\ tx' = IF copy = "tp_copy" THEN v ELSE tx
      BY <1>3 DEF jtag_writebuffer
    <2>2. /\ EndAccess("send") /\ Unlock("send", "jtag", to)
          /\ UNCHANGED <<rx, words, shared, coreIO, devices, plant>>
      BY <1>3 DEF jtag_writebuffer
    <2>3. v \in Data
      <3>1. ram.wbuf \in Data
        BY DEF IInv, DataOK, RAM
      <3>2. QED
        BY <2>1, <3>1, SeesData
    <2>4. /\ loc' \in [Threads -> Local] /\ loc'["send"].val = v
          /\ \A u \in Threads \ {"send"} : loc'[u] = loc[u]
      BY <1>0, <2>1, <2>3, LocalType
    <2>5. SchedOK' /\ LockInv'
      BY <1>0, <1>1, <1>3, <2>2, UnlockSched DEF At
    <2>6. DataOK'
      <3>1. hurt' \subseteq Threads /\ faults' \in 0..MaxFaults
        BY <1>0, <2>2, AccessType
      <3>2. tx' \in Data
        BY <2>1, <2>3 DEF IInv, DataOK
      <3>3. QED
        BY <2>2, <2>4, <3>1, <3>2 DEF IInv, DataOK, shared, coreIO, devices, plant
    <2>7. WordsInv' /\ BufInv'
      <3>1. pc'["send"] = to /\ pc'["recv"] = pc["recv"] /\ pc'["debug"] = pc["debug"]
        BY <1>0, <2>2 DEF IInv, SchedOK, Unlock
      <3>2. words' = words /\ rx' = rx /\ alive' = alive /\ halted' = halted
        BY <2>2 DEF Unlock, plant
      <3>3. to = "tp_print" => tx' = v
        BY <2>1
      <3>4. QED
        BY <1>0, <2>4, <3>1, <3>2, <3>3 DEF IInv, WordsInv, BufInv
    <2>8. QED
      BY <2>5, <2>6, <2>7 DEF IInv
  <1>4. QED
    BY <1>2, <1>3 DEF jtag_writebuffer

(* jtag_readbuffer *)
LEMMA ReadBufferAct ==
    ASSUME IInv, NEW t \in Threads, NEW v \in Data, NEW lock, NEW copy, NEW to,
           jtag_readbuffer(t, v, lock, copy, to),
           \/ <<lock, copy, to>> = <<"ts_lock", "ts_copy", "ts_done">>
           \/ <<lock, copy, to>> = <<"er_lock", "er_copy", "a_lock">>
           \/ <<lock, copy, to>> = <<"pw_lockj", "pw_copy", "a_lock">>
    PROVE  IInv'
  <1>0. "jtag" \in Mutexes
    BY DEF Mutexes
  <1>1. /\ LockCall("jtag", lock, copy) /\ UnlockCall("jtag", copy, to)
        /\ copy \in Labels /\ Plain(to)
    BY DEF LockCall, UnlockCall, Mutexes, HeldAt, BehindLock, Panicking, Labels, Plain, WordsLeft
  <1>2. CASE Lock(t, "jtag", lock, copy)
    BY <1>0, <1>1, <1>2, LockAct DEF WordsLeft
  <1>3. CASE At(t, copy) /\ ~Lock(t, "jtag", lock, copy)
    <2>1. PICK w \in Lands(t, v, ram.rbuf) : ram' = [ram EXCEPT !.rbuf = w]
      BY <1>3 DEF jtag_readbuffer
    <2>2. /\ loc' = [loc EXCEPT ![t].val = v]
          /\ EndAccess(t) /\ Unlock(t, "jtag", to)
          /\ UNCHANGED <<words, shared, buffers, core, irq, ack_irq, devices, plant>>
      BY <1>3 DEF jtag_readbuffer
    <2>3. loc' \in [Threads -> Local] /\ \A u \in Threads \ {t} : loc'[u] = loc[u]
      BY <2>2, LocalType
    <2>4. ram' \in RAM
      <3>1. ram \in RAM /\ w \in Data
        BY <2>1 DEF IInv, DataOK, RAM, Lands
      <3>2. QED
        BY <2>1, <3>1 DEF RAM
    <2>5. DataOK'
      <3>1. hurt' \subseteq Threads /\ faults' \in 0..MaxFaults
        BY <2>2, AccessType
      <3>2. QED
        BY <2>2, <2>3, <2>4, <3>1 DEF IInv, DataOK, shared, buffers, devices, plant
    <2>6. Quiet(t)
      BY <2>2, <2>3 DEF Quiet, buffers
    <2>7. QED
      BY <1>0, <1>1, <1>3, <2>2, <2>5, <2>6, UnlockAct
  <1>4. QED
    BY <1>2, <1>3 DEF jtag_readbuffer

(* term_printf *)
LEMMA TermPrintfAct ==
    ASSUME IInv, term_printf("send")
    PROVE  IInv'
  <1>0. "tw" \in Mutexes /\ "send" \in Threads
    BY DEF Mutexes, Threads, Workers
  <1>1. CASE Lock("send", "tw", "tp_lockw", "tp_lock")
    <2>1. LockCall("tw", "tp_lockw", "tp_lock") /\ "tp_lock" \in Labels
      BY DEF LockCall, Mutexes, HeldAt, BehindLock, Panicking, Labels
    <2>2. QED
      BY <1>0, <1>1, <2>1, LockAct DEF WordsLeft
  <1>2. CASE jtag_writebuffer("send", "tp_lock", "tp_copy", "tp_print")
    BY <1>2, WriteBufferAct
  <1>3. CASE /\ At("send", "tp_print")
             /\ served' = [dev |-> "terminal", what |-> tx]
             /\ Unlock("send", "tw", "a_lock")
             /\ UNCHANGED <<local, shared, buffers, coreIO, line, plant, bus>>
    <2>1. UnlockCall("tw", "tp_print", "a_lock") /\ Plain("a_lock")
      BY DEF UnlockCall, Mutexes, HeldAt, Panicking, Labels, Plain, WordsLeft
    <2>2. Quiet("send")
      BY <1>3 DEF Quiet, local, buffers
    <2>3. DataOK'
      BY <1>3 DEF IInv, DataOK, local, shared, buffers, coreIO, plant, bus
    <2>4. QED
      BY <1>0, <1>3, <2>1, <2>2, <2>3, UnlockAct
  <1>4. QED
    BY <1>1, <1>2, <1>3 DEF term_printf

(* A thread that reads a line holds term_read_mutex, so the receive buffer    *)
(* belongs to it.                                                             *)
LEMMA LineAct ==
    ASSUME IInv, NEW t \in Threads, Runnable(t), pc[t] \in HeldAt("tr"),
           rx' = line, loc' = [loc EXCEPT ![t].val = line], line # "none",
           tx' = tx, words' = words, alive' = alive, halted' = halted,
           NEW to, pc' = [pc EXCEPT ![t] = to], to # "tp_print", to \notin WordsLeft
    PROVE  /\ WordsInv' /\ BufInv' /\ rx' \in Data
           /\ loc' \in [Threads -> Local] /\ \A u \in Threads \ {t} : loc'[u] = loc[u]
  <1>1. line \in Data
    BY DEF IInv, DataOK, Data
  <1>2. /\ loc' \in [Threads -> Local] /\ loc'[t].val = line
        /\ \A u \in Threads \ {t} : loc'[u] = loc[u]
    BY <1>1, LocalType
  <1>3. /\ pc'[t] = to /\ \A u \in Threads \ {t} : pc'[u] = pc[u]
        /\ {"send", "recv", "debug"} \subseteq Threads /\ "tr" \in Mutexes
    BY DEF IInv, SchedOK, Threads, Workers, Mutexes
  <1>4. "recv" \in alive /\ pc["recv"] \in {"ts_lock", "ts_copy"} => t = "recv"
    <2>1. {"ts_lock", "ts_copy"} \subseteq HeldAt("tr") \ BehindLock("tr")
      BY DEF HeldAt, BehindLock
    <2>2. QED
      BY <1>3, <2>1, OnlyOwner
  <1>5. WordsInv'
    BY <1>3 DEF IInv, WordsInv
  <1>6. BufInv'
    BY <1>2, <1>3, <1>4 DEF IInv, BufInv
  <1>7. QED
    BY <1>1, <1>2, <1>5, <1>6

(* term_scanf *)
LEMMA TermScanfAct ==
    ASSUME IInv, term_scanf("recv")
    PROVE  IInv'
  <1>0. "tr" \in Mutexes /\ "recv" \in Threads
    BY DEF Mutexes, Threads, Workers
  <1>1. CASE Lock("recv", "tr", "ts_lockr", "ts_read")
    <2>1. LockCall("tr", "ts_lockr", "ts_read") /\ "ts_read" \in Labels
      BY DEF LockCall, Mutexes, HeldAt, BehindLock, Panicking, Labels
    <2>2. QED
      BY <1>0, <1>1, <2>1, LockAct DEF WordsLeft
  <1>2. CASE /\ At("recv", "ts_read")
             /\ line # "none"
             /\ rx' = line
             /\ loc' = [loc EXCEPT !["recv"].val = line]
             /\ served' = [dev |-> "keyboard", what |-> line]
             /\ line' = "none"
             /\ Goto("recv", "ts_lock")
             /\ UNCHANGED <<tx, words, shared, coreIO, plant, bus>>
    <2>1. /\ Runnable("recv") /\ pc["recv"] \in HeldAt("tr") /\ halted' = halted
          /\ "ts_lock" \in Labels /\ SameHeld(pc["recv"], "ts_lock")
      BY <1>2 DEF At, HeldAt, Labels, SameHeld, Mutexes, Panicking, plant
    <2>2. /\ WordsInv' /\ BufInv' /\ rx' \in Data /\ loc' \in [Threads -> Local]
      BY <1>0, <1>2, <2>1, LineAct DEF Goto, WordsLeft
    <2>3. SchedOK' /\ LockInv'
      BY <1>0, <1>2, <2>1, GotoSched
    <2>4. DataOK'
      <3>1. line \in Data
        BY DEF IInv, DataOK, Data
      <3>2. QED
        BY <1>2, <2>2, <3>1 DEF IInv, DataOK, shared, coreIO, plant, bus
    <2>5. QED
      BY <2>2, <2>3, <2>4 DEF IInv
  <1>3. CASE jtag_readbuffer("recv", rx, "ts_lock", "ts_copy", "ts_done")
    BY <1>0, <1>3, ReadBufferAct DEF IInv, DataOK
  <1>4. CASE /\ At("recv", "ts_done")
             /\ Unlock("recv", "tr", "a_lock")
             /\ UNCHANGED <<local, shared, buffers, coreIO, devices, plant, bus>>
    <2>1. UnlockCall("tr", "ts_done", "a_lock") /\ Plain("a_lock")
      BY DEF UnlockCall, Mutexes, HeldAt, Panicking, Labels, Plain, WordsLeft
    <2>2. Quiet("recv")
      BY <1>4 DEF Quiet, local, buffers
    <2>3. DataOK'
      BY <1>4 DEF IInv, DataOK, local, shared, buffers, coreIO, devices, plant, bus
    <2>4. QED
      BY <1>0, <1>4, <2>1, <2>2, <2>3, UnlockAct
  <1>5. QED
    BY <1>1, <1>2, <1>3, <1>4 DEF term_scanf, term_readbuffer

(* enet_send *)
LEMMA EnetSendAct ==
    ASSUME IInv, enet_send("send")
    PROVE  IInv'
  <1>0. "send" \in Threads
    BY DEF Threads, Workers
  <1>1. CASE jtag_writebuffer("send", "es_lock", "es_copy", "es_send")
    BY <1>1, WriteBufferAct
  <1>2. CASE /\ At("send", "es_send")
             /\ served' = [dev |-> "net_out", what |-> loc["send"].val]
             /\ \E size \in {"full", "zero"} : loc' = [loc EXCEPT !["send"].val = size]
             /\ Goto("send", "a_lock")
             /\ UNCHANGED <<words, shared, buffers, coreIO, line, plant, bus>>
    <2>1. SameHeld("es_send", "a_lock") /\ Plain("a_lock")
      BY DEF SameHeld, Mutexes, HeldAt, Panicking, Labels, Plain, WordsLeft
    <2>2. /\ loc' \in [Threads -> Local] /\ \A u \in Threads \ {"send"} : loc'[u] = loc[u]
      <3>1. PICK size \in {"full", "zero"} : loc' = [loc EXCEPT !["send"].val = size]
        BY <1>2
      <3>2. size \in Data
        BY DEF Data
      <3>3. QED
        BY <1>0, <3>1, <3>2, LocalType
    <2>3. Quiet("send")
      BY <1>2, <2>2 DEF Quiet, buffers
    <2>4. DataOK'
      <3>1. loc["send"].val \in Data
        BY <1>0 DEF IInv, DataOK, Local
      <3>2. QED
        BY <1>2, <2>2, <3>1 DEF IInv, DataOK, shared, buffers, coreIO, plant, bus
    <2>5. QED
      BY <1>0, <1>2, <2>1, <2>3, <2>4, GotoAct
  <1>3. QED
    BY <1>1, <1>2 DEF enet_send

(* enet_recv *)
LEMMA EnetRecvAct ==
    ASSUME IInv, enet_recv("recv")
    PROVE  IInv'
  <1>0. "recv" \in Threads /\ loc["recv"].val \in Data
    BY DEF Threads, Workers, IInv, DataOK, Local
  <1>1. CASE At("recv", "er_recv")
    <2>1. UNCHANGED <<words, shared, buffers, coreIO, line, plant, bus>>
      BY <1>1 DEF enet_recv, jtag_readbuffer, Lock, At
    <2>2. CASE Goto("recv", "a_lock") /\ UNCHANGED <<loc, served>>
      <3>1. SameHeld("er_recv", "a_lock") /\ Plain("a_lock")
        BY DEF SameHeld, Mutexes, HeldAt, Panicking, Labels, Plain, WordsLeft
      <3>2. Quiet("recv")
        BY <2>1, <2>2 DEF Quiet, buffers
      <3>3. DataOK'
        BY <2>1, <2>2 DEF IInv, DataOK, shared, buffers, coreIO, plant, bus
      <3>4. QED
        BY <1>0, <1>1, <2>2, <3>1, <3>2, <3>3, GotoAct
    <2>3. CASE \E v \in Texts :
                 /\ loc' = [loc EXCEPT !["recv"].val = v]
                 /\ served' = [dev |-> "net_in", what |-> v]
                 /\ Goto("recv", "er_lock")
      <3>1. SameHeld("er_recv", "er_lock") /\ Plain("er_lock")
        BY DEF SameHeld, Mutexes, HeldAt, Panicking, Labels, Plain, WordsLeft
      <3>2. PICK v \in Texts :
              /\ loc' = [loc EXCEPT !["recv"].val = v]
              /\ served' = [dev |-> "net_in", what |-> v]
              /\ Goto("recv", "er_lock")
        BY <2>3
      <3>3. v \in Data
        BY DEF Data
      <3>4. loc' \in [Threads -> Local] /\ \A u \in Threads \ {"recv"} : loc'[u] = loc[u]
        BY <1>0, <3>2, <3>3, LocalType
      <3>5. Quiet("recv")
        BY <2>1, <3>4 DEF Quiet, buffers
      <3>6. DataOK'
        BY <2>1, <3>2, <3>3, <3>4 DEF IInv, DataOK, shared, buffers, coreIO, plant, bus
      <3>7. QED
        BY <1>0, <1>1, <3>1, <3>2, <3>5, <3>6, GotoAct
    <2>4. QED
      BY <1>1, <2>2, <2>3 DEF enet_recv, jtag_readbuffer, Lock, At
  <1>2. CASE ~At("recv", "er_recv")
    <2>1. jtag_readbuffer("recv", loc["recv"].val, "er_lock", "er_copy", "a_lock")
      BY <1>2 DEF enet_recv
    <2>2. QED
      BY <1>0, <2>1, ReadBufferAct
  <1>3. QED
    BY <1>1, <1>2

(* read_pow *)
LEMMA ReadPowAct ==
    ASSUME IInv, read_pow("pow")
    PROVE  IInv'
  <1>0. "pow" \in Mutexes /\ "pow" \in Threads /\ loc["pow"].val \in Data
    BY DEF Mutexes, Threads, Workers, IInv, DataOK, Local
  <1>1. CASE Lock("pow", "pow", "pw_lock", "pw_read")
    <2>1. LockCall("pow", "pw_lock", "pw_read") /\ "pw_read" \in Labels
      BY DEF LockCall, Mutexes, HeldAt, BehindLock, Panicking, Labels
    <2>2. QED
      BY <1>0, <1>1, <2>1, LockAct DEF WordsLeft
  <1>2. CASE /\ At("pow", "pw_read")
             /\ served' = [dev |-> "sensor", what |-> loc["pow"].val]
             /\ loc' = [loc EXCEPT !["pow"].val = Report(loc["pow"].val)]
             /\ Unlock("pow", "pow", "pw_lockj")
             /\ UNCHANGED <<words, shared, buffers, coreIO, line, plant, bus>>
    <2>1. UnlockCall("pow", "pw_read", "pw_lockj") /\ Plain("pw_lockj")
      BY DEF UnlockCall, Mutexes, HeldAt, Panicking, Labels, Plain, WordsLeft
    <2>2. Report(loc["pow"].val) \in Data
      BY DEF Report, Data
    <2>3. loc' \in [Threads -> Local] /\ \A u \in Threads \ {"pow"} : loc'[u] = loc[u]
      BY <1>0, <1>2, <2>2, LocalType
    <2>4. Quiet("pow")
      BY <1>2, <2>3 DEF Quiet, buffers
    <2>5. DataOK'
      BY <1>0, <1>2, <2>3 DEF IInv, DataOK, shared, buffers, coreIO, plant, bus
    <2>6. QED
      BY <1>0, <1>2, <2>1, <2>4, <2>5, UnlockAct
  <1>3. CASE jtag_readbuffer("pow", loc["pow"].val, "pw_lockj", "pw_copy", "a_lock")
    BY <1>0, <1>3, ReadBufferAct
  <1>4. QED
    BY <1>1, <1>2, <1>3 DEF read_pow

(* The acknowledgement at the end of every service. *)
LEMMA AcknowledgeAct ==
    ASSUME IInv, NEW t \in Threads, acknowledge(t)
    PROVE  IInv'
  <1>0. "jtag" \in Mutexes /\ loc[t] \in Local /\ ram \in RAM
    BY DEF Mutexes, IInv, DataOK
  <1>1. CASE Lock(t, "jtag", "a_lock", "a_write")
    <2>1. LockCall("jtag", "a_lock", "a_write") /\ "a_write" \in Labels
      BY DEF LockCall, Mutexes, HeldAt, BehindLock, Panicking, Labels
    <2>2. QED
      BY <1>0, <1>1, <2>1, LockAct DEF WordsLeft
  <1>2. CASE /\ At(t, "a_write")
             /\ WriteAck(t)
             /\ EndAccess(t)
             /\ Goto(t, "a_pulse")
             /\ UNCHANGED <<local, shared, buffers, core, irq, ack_irq, devices, plant>>
    <2>1. SameHeld("a_write", "a_pulse") /\ Plain("a_pulse")
      BY DEF SameHeld, Mutexes, HeldAt, Panicking, Labels, Plain, WordsLeft
    <2>2. ram' \in RAM
      <3>1. PICK v \in Lands(t, loc[t].val, ram.ack_val),
                 ty \in Lands(t, loc[t].type, ram.ack_type) :
              ram' = [ram EXCEPT !.ack_val = v, !.ack_type = ty]
        BY <1>2 DEF WriteAck
      <3>2. v \in Data /\ ty \in AllTypes \cup {"none", "empty", "junk"}
        BY <1>0, <3>1 DEF Lands, Local, RAM
      <3>3. QED
        BY <1>0, <3>1, <3>2 DEF RAM
    <2>3. Quiet(t)
      BY <1>2 DEF Quiet, local, buffers
    <2>4. hurt' \subseteq Threads /\ faults' \in 0..MaxFaults
      BY <1>2, AccessType
    <2>5. DataOK'
      BY <1>2, <2>2, <2>4 DEF IInv, DataOK, local, shared, buffers, devices, plant
    <2>6. QED
      BY <1>2, <2>1, <2>3, <2>5, GotoAct
  <1>3. CASE /\ At(t, "a_pulse")
             /\ ack_irq' = TRUE
             /\ loc' = [loc EXCEPT ![t] = NoLocal]
             /\ Unlock(t, "jtag", "loop")
             /\ UNCHANGED <<words, shared, buffers, ram, core, irq, devices, plant, bus>>
    <2>1. UnlockCall("jtag", "a_pulse", "loop") /\ Plain("loop")
      BY DEF UnlockCall, Mutexes, HeldAt, Panicking, Labels, Plain, WordsLeft
    <2>2. NoLocal \in Local
      BY DEF NoLocal, Local, Data
    <2>3. loc' \in [Threads -> Local] /\ \A u \in Threads \ {t} : loc'[u] = loc[u]
      BY <1>3, <2>2 DEF IInv, DataOK
    <2>4. Quiet(t)
      BY <1>3, <2>3 DEF Quiet, buffers
    <2>5. ack_irq' \in BOOLEAN
      BY <1>3
    <2>6. DataOK'
      BY <1>3, <2>3, <2>5 DEF IInv, DataOK, shared, buffers, devices, plant, bus
    <2>7. QED
      BY <1>0, <1>3, <2>1, <2>4, <2>6, UnlockAct
  <1>4. QED
    BY <1>1, <1>2, <1>3 DEF acknowledge

(* Thread::signal_wait *)
LEMMA SignalWaitAct ==
    ASSUME IInv, NEW t \in Threads, signal_wait(t)
    PROVE  IInv'
  <1>1. PICK to \in {"run", "wait"} : pc' = [pc EXCEPT ![t] = to]
    BY DEF signal_wait
  <1>2. /\ Runnable(t) /\ pc[t] = "loop" /\ mtx' = mtx /\ alive' = alive
        /\ sig' \subseteq Threads
        /\ UNCHANGED <<local, shared, buffers, coreIO, devices, plant, bus>>
    BY DEF signal_wait, At, IInv, SchedOK
  <1>3. Plain(to) /\ SameHeld("loop", to)
    BY DEF SameHeld, Mutexes, HeldAt, Panicking, Labels, Plain, WordsLeft
  <1>4. SchedOK'
    BY <1>1, <1>2, <1>3 DEF IInv, SchedOK, Plain
  <1>5. LockInv'
    BY <1>1, <1>2, <1>3, MoveStep, TypeSplit DEF IInv, SchedOK, Runnable
  <1>6. DataOK' /\ Quiet(t)
    BY <1>2 DEF IInv, DataOK, Quiet, local, shared, buffers, coreIO, devices, plant, bus
  <1>7. WordsInv' /\ BufInv'
    BY <1>1, <1>2, <1>3, <1>6, QuietStep
  <1>8. QED
    BY <1>4, <1>5, <1>6, <1>7 DEF IInv

(* Thread::signal_set by a caller that moves the program counters to p: a     *)
(* thread blocked for a signal waits for no mutex.                            *)
LEMMA SignalSetAct ==
    ASSUME IInv, ~halted, NEW u \in Threads, NEW p \in [Threads -> Labels],
           signal_set(p, u), DataOK',
           \A t \in Threads : p[t] = pc[t] \/ /\ Runnable(t) /\ SameHeld(pc[t], p[t])
                                              /\ Plain(p[t]) /\ t \notin {u, "send", "recv"},
           words' = words, tx' = tx, rx' = rx,
           loc'["send"] = loc["send"], loc'["recv"] = loc["recv"]
    PROVE  IInv'
  <1>1. /\ mtx' = mtx /\ alive' = alive /\ sig' \subseteq Threads
        /\ \/ pc' = p
           \/ pc' = [p EXCEPT ![u] = "run"] /\ pc[u] = "wait"
    BY DEF signal_set, IInv, SchedOK
  <1>2. /\ SameHeld("wait", "run") /\ Plain("run") /\ "run" \in Labels
        /\ \A m \in Mutexes : "wait" \notin BehindLock(m)
    BY DEF SameHeld, Mutexes, HeldAt, BehindLock, Panicking, Labels, Plain, WordsLeft
  <1>3. \A t \in Threads :
          \/ pc'[t] = pc[t]
          \/ /\ pc'[t] = "run" /\ pc[t] = "wait"
          \/ /\ Runnable(t) /\ SameHeld(pc[t], pc'[t]) /\ Plain(pc'[t])
    BY <1>1
  <1>4. SchedOK'
    BY <1>1, <1>2 DEF IInv, SchedOK
  <1>5. \A t \in Threads : pc[t] = "wait" => \A m \in Mutexes : ~Queued(mtx[m], t)
    BY <1>2 DEF IInv, LockInv, MutexInv
  <1>6. LockInv'
    <2>1. \A t \in Threads :
            \/ pc'[t] = pc[t]
            \/ /\ \A m \in Mutexes : ~Queued(mtx[m], t)
               /\ SameHeld(pc[t], pc'[t]) \/ pc'[t] = "p_lock"
      BY <1>2, <1>3, <1>5 DEF Runnable
    <2>2. QED
      BY <1>1, <2>1, MoveStep, TypeSplit DEF IInv
  <1>7. WordsInv' /\ BufInv'
    <2>1. {"send", "recv", "debug"} \subseteq Threads
      BY DEF Threads, Workers
    <2>2. QED
      BY <1>1, <1>2, <1>3, <2>1 DEF IInv, WordsInv, BufInv, Plain
  <1>8. QED
    BY <1>4, <1>6, <1>7 DEF IInv

(* The start of a service. *)
LEMMA StartAct ==
    ASSUME IInv, NEW t \in Threads, NEW type \in AllTypes \cup {"none"}, NEW val \in Data,
           NEW to, At(t, "run"), Start(t, type, val, to),
           to \in {"tp_lockw", "es_lock", "a_lock", "ts_lockr", "er_recv", "pw_lock", "p_lock"}
    PROVE  IInv'
  <1>1. SameHeld("run", to) \/ to = "p_lock"
    BY DEF SameHeld, Mutexes, HeldAt, Panicking
  <1>2. Plain(to)
    BY DEF Labels, Plain, WordsLeft
  <1>3. [type |-> type, val |-> val] \in Local
    BY DEF Local
  <1>4. loc' \in [Threads -> Local] /\ \A u \in Threads \ {t} : loc'[u] = loc[u]
    BY <1>3 DEF IInv, DataOK, Start
  <1>5. Quiet(t)
    BY <1>4 DEF Quiet, Start, buffers
  <1>6. DataOK'
    BY <1>4 DEF IInv, DataOK, Start, shared, buffers, coreIO, devices, plant, bus
  <1>7. QED
    BY <1>1, <1>2, <1>5, <1>6, GotoAct DEF Start

(* data_send_loop, data_recv_loop and read_pow_loop *)
LEMMA ServiceAct ==
    ASSUME IInv, data_send_loop \/ data_recv_loop \/ read_pow_loop
    PROVE  IInv'
  <1>0. /\ {"send", "recv", "pow"} \subseteq Threads
        /\ job.send \in AllTypes \cup {"none"} /\ job.recv \in AllTypes \cup {"none"}
        /\ job.gain \in Data /\ "zero" \in Data /\ "pow" \in AllTypes
    BY DEF Threads, Workers, IInv, DataOK, AllTypes, Data
  <1>1. CASE data_send_loop
    <2>1. CASE At("send", "run") /\ ~signal_wait("send") /\ ~term_printf("send")
               /\ ~enet_send("send") /\ ~acknowledge("send")
      <3>1. \E to \in {"tp_lockw", "es_lock", "a_lock", "p_lock"} :
              Start("send", job.send, "zero", to)
        BY <1>1, <2>1 DEF data_send_loop
      <3>2. QED
        BY <1>0, <2>1, <3>1, StartAct
    <2>2. QED
      BY <1>0, <1>1, <2>1, SignalWaitAct, TermPrintfAct, EnetSendAct, AcknowledgeAct
         DEF data_send_loop
  <1>2. CASE data_recv_loop
    <2>1. CASE At("recv", "run") /\ ~signal_wait("recv") /\ ~term_scanf("recv")
               /\ ~enet_recv("recv") /\ ~acknowledge("recv")
      <3>1. \E to \in {"ts_lockr", "er_recv", "a_lock", "p_lock"} :
              Start("recv", job.recv, "zero", to)
        BY <1>2, <2>1 DEF data_recv_loop
      <3>2. QED
        BY <1>0, <2>1, <3>1, StartAct
    <2>2. QED
      BY <1>0, <1>2, <2>1, SignalWaitAct, TermScanfAct, EnetRecvAct, AcknowledgeAct
         DEF data_recv_loop
  <1>3. CASE read_pow_loop
    <2>1. CASE /\ At("pow", "run")
               /\ IF job.gain \in GoodGains
                  THEN Start("pow", "pow", job.gain, "pw_lock")
                  ELSE Start("pow", "pow", "zero", "a_lock")
      BY <1>0, <2>1, StartAct
    <2>2. QED
      BY <1>0, <1>3, <2>1, SignalWaitAct, ReadPowAct, AcknowledgeAct DEF read_pow_loop
  <1>4. QED
    BY <1>1, <1>2, <1>3

(* The switch of dispatch_loop. *)
LEMMA DispatchAct ==
    ASSUME IInv, At("dispatch", "d_switch"), loc["dispatch"].type \in AllTypes,
           Dispatch(loc["dispatch"].type, loc["dispatch"].val,
                    [pc EXCEPT !["dispatch"] = "loop"]),
           loc' = [loc EXCEPT !["dispatch"] = NoLocal],
           UNCHANGED <<words, fresh, ethernet_open, buffers, coreIO, devices, plant, bus>>
    PROVE  IInv'
  <1> DEFINE p == [pc EXCEPT !["dispatch"] = "loop"]
             ty == loc["dispatch"].type
  <1>0. /\ {"dispatch", "send", "recv", "pow"} \subseteq Threads
        /\ loc["dispatch"] \in Local /\ NoLocal \in Local
    BY DEF Threads, Workers, IInv, DataOK, NoLocal, Local, Data
  <1>1. PICK u \in {"send", "recv", "pow"} : signal_set(p, u)
    BY DEF Dispatch
  <1>2. job' \in [send : {"none", "print", "enet_send", "wireless_send"},
                  recv : {"none", "scan", "enet_recv", "wireless_recv"}, gain : Data]
    <2>1. /\ job \in [send : {"none", "print", "enet_send", "wireless_send"},
                      recv : {"none", "scan", "enet_recv", "wireless_recv"}, gain : Data]
          /\ loc["dispatch"].val \in Data
      BY <1>0 DEF IInv, DataOK, Local
    <2>2. CASE ty \in {"panic", "print", "enet_send", "wireless_send"}
      <3>1. job' = [job EXCEPT !.send = IF ty = "panic" THEN "print" ELSE ty]
        BY <2>2 DEF Dispatch
      <3>2. QED
        BY <2>1, <2>2, <3>1
    <2>3. CASE ty \in {"scan", "enet_recv", "wireless_recv"}
      <3>1. job' = [job EXCEPT !.recv = ty]
        BY <2>3 DEF Dispatch
      <3>2. QED
        BY <2>1, <2>3, <3>1
    <2>4. CASE ty = "pow"
      <3>1. job' = [job EXCEPT !.gain = loc["dispatch"].val]
        BY <2>4 DEF Dispatch
      <3>2. QED
        BY <2>1, <3>1
    <2>5. QED
      BY <2>2, <2>3, <2>4 DEF Dispatch
  <1>3. DataOK'
    <2>1. loc' \in [Threads -> Local]
      BY <1>0 DEF IInv, DataOK
    <2>2. QED
      BY <1>2, <2>1 DEF IInv, DataOK, buffers, coreIO, devices, plant, bus
  <1>4. SameHeld("d_switch", "loop") /\ Plain("loop")
    BY DEF SameHeld, Mutexes, HeldAt, Panicking, Labels, Plain, WordsLeft
  <1>5. p \in [Threads -> Labels]
    BY <1>4 DEF IInv, SchedOK, Plain
  <1>6. \A t \in Threads : p[t] = pc[t] \/ /\ Runnable(t) /\ SameHeld(pc[t], p[t])
                                           /\ Plain(p[t]) /\ t \notin {u, "send", "recv"}
    BY <1>0, <1>4 DEF IInv, SchedOK, At
  <1>7. /\ ~halted /\ words' = words /\ tx' = tx /\ rx' = rx
        /\ loc'["send"] = loc["send"] /\ loc'["recv"] = loc["recv"]
    BY <1>0 DEF At, Runnable, buffers, IInv, DataOK
  <1> HIDE DEF p
  <1>8. QED
    BY <1>0, <1>1, <1>3, <1>5, <1>6, <1>7, SignalSetAct

(* dispatch_loop *)
LEMMA DispatchLoopAct ==
    ASSUME IInv, dispatch_loop
    PROVE  IInv'
  <1>0. /\ "dispatch" \in Threads /\ "jtag" \in Mutexes /\ NoLocal \in Local /\ ram \in RAM
    BY DEF Threads, Workers, Mutexes, NoLocal, Local, Data, IInv, DataOK
  <1>1. CASE signal_wait("dispatch")
    BY <1>0, <1>1, SignalWaitAct
  <1>2. CASE Lock("dispatch", "jtag", "run", "d_read")
    <2>1. LockCall("jtag", "run", "d_read") /\ "d_read" \in Labels
      BY DEF LockCall, Mutexes, HeldAt, BehindLock, Panicking, Labels
    <2>2. QED
      BY <1>0, <1>2, <2>1, LockAct DEF WordsLeft
  <1>3. CASE /\ At("dispatch", "d_read")
             /\ \E ty \in Sees("dispatch", ram.io_type, AnyType),
                   v \in Sees("dispatch", ram.rbuf, {"junk"}) :
                  loc' = [loc EXCEPT !["dispatch"] = [type |-> ty, val |-> v]]
             /\ EndAccess("dispatch")
             /\ Goto("dispatch", "d_clear")
             /\ UNCHANGED <<words, shared, buffers, coreIO, devices, plant>>
    <2>1. SameHeld("d_read", "d_clear") /\ Plain("d_clear")
      BY DEF SameHeld, Mutexes, HeldAt, Panicking, Labels, Plain, WordsLeft
    <2>2. /\ loc' \in [Threads -> Local]
          /\ \A u \in Threads \ {"dispatch"} : loc'[u] = loc[u]
      <3>1. PICK ty \in Sees("dispatch", ram.io_type, AnyType),
                 v \in Sees("dispatch", ram.rbuf, {"junk"}) :
              loc' = [loc EXCEPT !["dispatch"] = [type |-> ty, val |-> v]]
        BY <1>3
      <3>2. v \in Data /\ ty \in AllTypes \cup {"none", "empty", "junk"}
        BY <1>0, <3>1, ConstantsAssumption DEF Sees, AnyType, RAM, Data
      <3>3. [type |-> ty, val |-> v] \in Local
        BY <3>2 DEF Local
      <3>4. QED
        BY <3>1, <3>3 DEF IInv, DataOK
    <2>3. Quiet("dispatch")
      BY <1>3, <2>2 DEF Quiet, buffers
    <2>4. hurt' \subseteq Threads /\ faults' \in 0..MaxFaults
      BY <1>0, <1>3, AccessType
    <2>5. DataOK'
      BY <1>3, <2>2, <2>4 DEF IInv, DataOK, shared, buffers, coreIO, devices, plant
    <2>6. QED
      BY <1>0, <1>3, <2>1, <2>3, <2>5, GotoAct
  <1>4. CASE /\ At("dispatch", "d_clear")
             /\ \E ty \in Lands("dispatch", "empty", ram.io_type) :
                  ram' = [ram EXCEPT !.io_type = ty]
             /\ EndAccess("dispatch")
             /\ Unlock("dispatch", "jtag", "d_switch")
             /\ UNCHANGED <<local, shared, buffers, core, irq, ack_irq, devices, plant>>
    <2>1. UnlockCall("jtag", "d_clear", "d_switch") /\ Plain("d_switch")
      BY DEF UnlockCall, Mutexes, HeldAt, Panicking, Labels, Plain, WordsLeft
    <2>2. ram' \in RAM
      <3>1. PICK ty \in Lands("dispatch", "empty", ram.io_type) :
              ram' = [ram EXCEPT !.io_type = ty]
        BY <1>4
      <3>2. ty \in AllTypes \cup {"empty"}
        BY <1>0, <3>1 DEF Lands, RAM
      <3>3. QED
        BY <1>0, <3>1, <3>2 DEF RAM
    <2>3. Quiet("dispatch")
      BY <1>4 DEF Quiet, local, buffers
    <2>4. hurt' \subseteq Threads /\ faults' \in 0..MaxFaults
      BY <1>0, <1>4, AccessType
    <2>5. DataOK'
      BY <1>4, <2>2, <2>4 DEF IInv, DataOK, local, shared, buffers, devices, plant
    <2>6. QED
      BY <1>0, <1>4, <2>1, <2>3, <2>5, UnlockAct
  <1>5. CASE /\ At("dispatch", "d_switch")
             /\ loc["dispatch"].type \in AllTypes
             /\ Dispatch(loc["dispatch"].type, loc["dispatch"].val,
                         [pc EXCEPT !["dispatch"] = "loop"])
             /\ loc' = [loc EXCEPT !["dispatch"] = NoLocal]
             /\ UNCHANGED <<words, fresh, ethernet_open, buffers, coreIO, devices, plant, bus>>
    BY <1>5, DispatchAct
  <1>6. CASE /\ At("dispatch", "d_switch")
             /\ loc["dispatch"].type \notin AllTypes
             /\ Goto("dispatch", "d_lockw")
             /\ loc' = [loc EXCEPT !["dispatch"] = NoLocal]
             /\ UNCHANGED <<words, shared, buffers, coreIO, devices, plant, bus>>
    <2>1. SameHeld("d_switch", "d_lockw") /\ Plain("d_lockw")
      BY DEF SameHeld, Mutexes, HeldAt, Panicking, Labels, Plain, WordsLeft
    <2>2. /\ loc' \in [Threads -> Local]
          /\ \A u \in Threads \ {"dispatch"} : loc'[u] = loc[u]
      BY <1>0, <1>6 DEF IInv, DataOK
    <2>3. Quiet("dispatch")
      BY <1>6, <2>2 DEF Quiet, buffers
    <2>4. DataOK'
      BY <1>6, <2>2 DEF IInv, DataOK, shared, buffers, coreIO, devices, plant, bus
    <2>5. QED
      BY <1>0, <1>6, <2>1, <2>3, <2>4, GotoAct
  <1>7. CASE mbed_printf("dispatch", "d_lockw", "d_print", "loop")
    <2>1. /\ LockCall("tw", "d_lockw", "d_print") /\ UnlockCall("tw", "d_print", "loop")
          /\ {"d_print", "loop"} \subseteq Labels
      BY DEF LockCall, UnlockCall, Mutexes, HeldAt, BehindLock, Panicking, Labels
    <2>2. QED
      BY <1>0, <1>7, <2>1, PrintfAct DEF WordsLeft
  <1>8. QED
    BY <1>1, <1>2, <1>3, <1>4, <1>5, <1>6, <1>7 DEF dispatch_loop

(* A step of the debug thread that keeps the buffers and the local variables. *)
LEMMA DebugMove ==
    ASSUME IInv, Runnable("debug"), NEW to, to = "g_read" \/ to \notin WordsLeft,
           pc' = [pc EXCEPT !["debug"] = to], alive' = alive, tx' = tx, rx' = rx,
           loc' = loc, halted' = halted, to \in WordsLeft => words' > 0
    PROVE  WordsInv' /\ BufInv'
  <1>1. /\ pc'["debug"] = to /\ pc'["send"] = pc["send"] /\ pc'["recv"] = pc["recv"]
    BY DEF IInv, SchedOK, Threads, Workers
  <1>2. QED
    BY <1>1 DEF IInv, WordsInv, BufInv

(* debug_loop and debug_print *)
LEMMA DebugAct ==
    ASSUME IInv, debug_loop
    PROVE  IInv'
  <1>0. "debug" \in Threads /\ "jtag" \in Mutexes /\ words \in Nat /\ fresh \in [isr : BOOLEAN, debug : BOOLEAN]
    BY ConstantsAssumption DEF Threads, Workers, Mutexes, IInv, DataOK
  <1>1. CASE signal_wait("debug")
    BY <1>0, <1>1, SignalWaitAct
  <1>2. CASE /\ At("debug", "run")
             /\ words' = 2 * DebugWords
             /\ Goto("debug", IF fresh.debug THEN "g_lock" ELSE "g_read")
             /\ UNCHANGED <<loc, shared, buffers, coreIO, devices, plant, bus>>
    <2>1. PICK to \in {"g_lock", "g_read"} : Goto("debug", to)
      BY <1>2
    <2>2. to \in Labels /\ SameHeld("run", to)
      BY DEF SameHeld, Mutexes, HeldAt, Panicking, Labels, Access
    <2>3. SchedOK' /\ LockInv'
      BY <1>0, <1>2, <2>1, <2>2, GotoSched DEF At
    <2>4. DataOK'
      <3>1. words' \in 0..(2 * DebugWords)
        BY <1>2, ConstantsAssumption
      <3>2. QED
        BY <1>2, <3>1 DEF IInv, DataOK, shared, buffers, coreIO, devices, plant, bus
    <2>5. WordsInv'
      BY <1>2, ConstantsAssumption DEF WordsInv
    <2>6. BufInv'
      <3>1. pc'["send"] = pc["send"] /\ pc'["recv"] = pc["recv"]
        BY <2>1 DEF IInv, SchedOK, Goto, Threads, Workers
      <3>2. QED
        BY <1>2, <2>1, <3>1 DEF IInv, BufInv, Goto, buffers, plant
    <2>7. QED
      BY <2>3, <2>4, <2>5, <2>6 DEF IInv
  <1>3. CASE Lock("debug", "jtag", "g_lock", "g_init")
    <2>1. LockCall("jtag", "g_lock", "g_init") /\ "g_init" \in Labels
      BY DEF LockCall, Mutexes, HeldAt, BehindLock, Panicking, Labels
    <2>2. QED
      BY <1>0, <1>3, <2>1, LockAct DEF WordsLeft
  <1>4. CASE debug_init
    <2>1. UnlockCall("jtag", "g_init", "g_read") /\ "g_read" \in Labels
      BY DEF UnlockCall, Mutexes, HeldAt, Panicking, Labels, Access
    <2>2. SchedOK' /\ LockInv'
      BY <1>0, <1>4, <2>1, UnlockSched DEF debug_init, At
    <2>3. DataOK'
      <3>1. hurt' \subseteq Threads /\ faults' \in 0..MaxFaults
        BY <1>0, <1>4, AccessType DEF debug_init
      <3>2. fresh' \in [isr : BOOLEAN, debug : BOOLEAN]
        BY <1>0, <1>4 DEF debug_init
      <3>3. QED
        BY <1>4, <3>1, <3>2
           DEF debug_init, IInv, DataOK, local, buffers, coreIO, devices, plant
    <2>4. words > 0
      BY <1>4 DEF debug_init, At, IInv, WordsInv, WordsLeft
    <2>5. WordsInv' /\ BufInv'
      BY <1>4, <2>4, DebugMove DEF debug_init, At, Unlock, local, buffers, plant
    <2>6. QED
      BY <2>2, <2>3, <2>5 DEF IInv
  <1>5. CASE /\ At("debug", "g_read")
             /\ words' = words - 1
             /\ EndAccess("debug")
             /\ Goto("debug", "g_lockw")
             /\ UNCHANGED <<loc, shared, buffers, coreIO, devices, plant>>
    <2>1. SameHeld("g_read", "g_lockw") /\ "g_lockw" \in Labels \ WordsLeft
      BY DEF SameHeld, Mutexes, HeldAt, Panicking, Labels, WordsLeft
    <2>2. SchedOK' /\ LockInv'
      BY <1>0, <1>5, <2>1, GotoSched DEF At
    <2>3. words > 0
      BY <1>5 DEF At, IInv, WordsInv, WordsLeft
    <2>4. DataOK'
      <3>1. hurt' \subseteq Threads /\ faults' \in 0..MaxFaults
        BY <1>0, <1>5, AccessType
      <3>2. words' \in 0..(2 * DebugWords)
        BY <1>5, <2>3, ConstantsAssumption DEF IInv, DataOK
      <3>3. QED
        BY <1>5, <3>1, <3>2 DEF IInv, DataOK, shared, buffers, coreIO, devices, plant
    <2>5. WordsInv' /\ BufInv'
      BY <1>5, <2>1, DebugMove DEF At, Goto, buffers, plant
    <2>6. QED
      BY <2>2, <2>4, <2>5 DEF IInv
  <1>6. CASE mbed_printf("debug", "g_lockw", "g_print", DumpNext)
    <2>1. PICK to \in {"loop", "g_read", "g_lockb"} :
            to = DumpNext /\ (to \in WordsLeft => words > 0)
      BY <1>0, ConstantsAssumption DEF DumpNext, WordsLeft
    <2>2. /\ LockCall("tw", "g_lockw", "g_print") /\ UnlockCall("tw", "g_print", to)
          /\ {"g_print", to} \subseteq Labels
      BY DEF LockCall, UnlockCall, Mutexes, HeldAt, BehindLock, Panicking, Labels, Access
    <2>3. mbed_printf("debug", "g_lockw", "g_print", to)
      BY <1>6, <2>1
    <2>4. QED
      BY <1>0, <2>1, <2>2, <2>3, PrintfAct DEF WordsLeft
  <1>7. CASE mbed_printf("debug", "g_lockb", "g_blank", "g_read")
    <2>1. /\ LockCall("tw", "g_lockb", "g_blank") /\ UnlockCall("tw", "g_blank", "g_read")
          /\ {"g_blank", "g_read"} \subseteq Labels
      BY DEF LockCall, UnlockCall, Mutexes, HeldAt, BehindLock, Panicking, Labels, Access
    <2>2. CASE Lock("debug", "tw", "g_lockb", "g_blank")
      BY <1>0, <2>1, <2>2, LockAct DEF WordsLeft, Mutexes
    <2>3. CASE At("debug", "g_blank")
      <3>1. words > 0
        BY <2>3 DEF At, IInv, WordsInv, WordsLeft
      <3>2. QED
        BY <1>0, <1>7, <2>1, <3>1, PrintfAct DEF WordsLeft
    <2>4. QED
      BY <1>7, <2>2, <2>3 DEF mbed_printf
  <1>8. QED
    BY <1>1, <1>2, <1>3, <1>4, <1>5, <1>6, <1>7 DEF debug_loop, debug_print

(* Thread::terminate of a worker by main. *)
LEMMA TerminateAct ==
    ASSUME IInv, At("main", "m_kill"), NEW v \in Workers, terminate(v)
    PROVE  IInv'
  <1>0. "main" \in Threads /\ v \in Threads
    BY DEF Threads
  <1>1. PICK to \in {"m_kill", "m_reset"} : pc' = [pc EXCEPT !["main"] = to]
    BY DEF terminate
  <1>2. SameHeld("m_kill", to) /\ Plain(to)
    BY DEF SameHeld, Mutexes, HeldAt, Panicking, Labels, Access, Plain, WordsLeft
  <1>3. /\ alive' = alive \ {v} /\ sig' = sig
        /\ mtx' = [m \in Mutexes |-> rt_rmv_list(mtx[m], v)]
        /\ UNCHANGED <<local, shared, buffers, coreIO, devices, plant, bus>>
    BY DEF terminate
  <1>4. SchedOK'
    <2>1. ASSUME NEW m \in Mutexes PROVE rt_rmv_list(mtx[m], v) \in MUCB(Threads)
      <3>1. /\ mtx[m] \in MUCB(Threads)
            /\ \A i, j \in 1..Len(mtx[m].wait) : mtx[m].wait[i] = mtx[m].wait[j] => i = j
        BY DEF IInv, SchedOK, LockInv, MutexInv
      <3>2. QED
        BY <1>0, <3>1, RemoveFacts
    <2>2. QED
      BY <1>1, <1>2, <1>3, <2>1 DEF IInv, SchedOK, Plain
  <1>5. LockInv'
    BY <1>0, <1>1, <1>2, <1>3, TerminateStep, TypeSplit DEF IInv, At
  <1>6. DataOK' /\ Quiet("main")
    BY <1>3 DEF IInv, DataOK, Quiet, local, shared, buffers, coreIO, devices, plant, bus
  <1>7. WordsInv' /\ BufInv'
    BY <1>0, <1>1, <1>2, <1>3, <1>6, QuietStep DEF At
  <1>8. QED
    BY <1>4, <1>5, <1>6, <1>7 DEF IInv

(* main *)
LEMMA MainAct ==
    ASSUME IInv, main
    PROVE  IInv'
  <1>0. /\ {"main", "send", "recv", "debug"} \subseteq Threads
        /\ {"tr", "tw"} \subseteq Mutexes /\ NoLocal \in Local
    BY DEF Threads, Workers, Mutexes, NoLocal, Local, Data
  <1>1. CASE /\ At("main", "m_start")
             /\ core' = [core EXCEPT !.type = "none"]
             /\ Goto("main", "m_lockr")
             /\ UNCHANGED <<local, shared, buffers, ram, irq, ack_irq, devices, plant, bus>>
    <2>1. SameHeld("m_start", "m_lockr") /\ Plain("m_lockr")
      BY DEF SameHeld, Mutexes, HeldAt, Panicking, Labels, Plain, WordsLeft
    <2>2. Quiet("main")
      BY <1>1 DEF Quiet, local, buffers
    <2>3. core' \in [type : AllTypes \cup {"off", "none"}, arg : Data]
      BY <1>1 DEF IInv, DataOK
    <2>4. DataOK'
      BY <1>1, <2>3 DEF IInv, DataOK, local, shared, buffers, devices, plant, bus
    <2>5. QED
      BY <1>0, <1>1, <2>1, <2>2, <2>4, GotoAct
  <1>2. CASE Lock("main", "tr", "m_lockr", "m_read")
    <2>1. LockCall("tr", "m_lockr", "m_read") /\ "m_read" \in Labels
      BY DEF LockCall, Mutexes, HeldAt, BehindLock, Panicking, Labels
    <2>2. QED
      BY <1>0, <1>2, <2>1, LockAct DEF WordsLeft
  <1>3. CASE /\ At("main", "m_read")
             /\ line # "none"
             /\ rx' = line
             /\ loc' = [loc EXCEPT !["main"].val = line]
             /\ line' = "none"
             /\ Unlock("main", "tr", "m_cmd")
             /\ UNCHANGED <<tx, words, shared, coreIO, served, plant, bus>>
    <2>1. /\ Runnable("main") /\ pc["main"] \in HeldAt("tr") /\ halted' = halted
          /\ "m_cmd" \in Labels /\ UnlockCall("tr", pc["main"], "m_cmd")
      BY <1>3 DEF At, HeldAt, Labels, UnlockCall, Mutexes, Panicking, plant
    <2>2. WordsInv' /\ BufInv' /\ rx' \in Data /\ loc' \in [Threads -> Local]
      BY <1>0, <1>3, <2>1, LineAct DEF Unlock, WordsLeft
    <2>3. SchedOK' /\ LockInv'
      BY <1>0, <1>3, <2>1, UnlockSched
    <2>4. DataOK'
      BY <1>3, <2>2 DEF IInv, DataOK, shared, coreIO, plant, bus
    <2>5. QED
      BY <2>2, <2>3, <2>4 DEF IInv
  <1>4. CASE /\ At("main", "m_cmd")
             /\ signal_set([pc EXCEPT !["main"] = "m_lockr"], "debug")
             /\ loc' = [loc EXCEPT !["main"] = NoLocal]
             /\ UNCHANGED <<words, shared, buffers, coreIO, devices, plant, bus>>
    <2> DEFINE p == [pc EXCEPT !["main"] = "m_lockr"]
    <2>1. SameHeld("m_cmd", "m_lockr") /\ Plain("m_lockr")
      BY DEF SameHeld, Mutexes, HeldAt, Panicking, Labels, Plain, WordsLeft
    <2>2. p \in [Threads -> Labels]
      BY <2>1 DEF IInv, SchedOK, Plain
    <2>3. \A t \in Threads : p[t] = pc[t] \/ /\ Runnable(t) /\ SameHeld(pc[t], p[t])
                                             /\ Plain(p[t]) /\ t \notin {"debug", "send", "recv"}
      BY <1>0, <1>4, <2>1 DEF IInv, SchedOK, At
    <2>4. /\ ~halted /\ words' = words /\ tx' = tx /\ rx' = rx
          /\ loc'["send"] = loc["send"] /\ loc'["recv"] = loc["recv"]
          /\ loc' \in [Threads -> Local]
      BY <1>0, <1>4 DEF At, Runnable, buffers, IInv, DataOK
    <2>5. DataOK'
      BY <1>4, <2>4 DEF IInv, DataOK, shared, buffers, coreIO, devices, plant, bus
    <2>6. signal_set(p, "debug")
      BY <1>4
    <2> HIDE DEF p
    <2>7. QED
      BY <1>0, <2>2, <2>3, <2>4, <2>5, <2>6, SignalSetAct
  <1>5. CASE /\ At("main", "m_cmd")
             /\ Goto("main", "m_kill")
             /\ UNCHANGED <<local, shared, buffers, coreIO, devices, plant, bus>>
    <2>1. SameHeld("m_cmd", "m_kill") /\ Plain("m_kill")
      BY DEF SameHeld, Mutexes, HeldAt, Panicking, Labels, Plain, WordsLeft
    <2>2. Quiet("main") /\ DataOK'
      BY <1>5 DEF Quiet, IInv, DataOK, local, shared, buffers, coreIO, devices, plant, bus
    <2>3. QED
      BY <1>0, <1>5, <2>1, <2>2, GotoAct
  <1>6. CASE /\ At("main", "m_kill")
             /\ \E k \in 1..Len(KillOrder) :
                  /\ KillOrder[k] \in alive
                  /\ \A j \in 1..(k - 1) : KillOrder[j] \notin alive
                  /\ terminate(KillOrder[k])
    <2>1. \A k \in 1..Len(KillOrder) : KillOrder[k] \in Workers
      BY DEF KillOrder, Workers
    <2>2. QED
      BY <1>6, <2>1, TerminateAct
  <1>7. ASSUME NEW from, NEW to,
               \/ from = "m_boot" /\ to = "m_lockh"
               \/ from = "m_load" /\ to = "m_lockl"
               \/ from = "m_reset" /\ to = "m_lockw",
               /\ At("main", from)
               /\ EndAccess("main")
               /\ Goto("main", to)
               /\ UNCHANGED <<local, shared, buffers, coreIO, devices, plant>>
        PROVE  IInv'
    <2>1. SameHeld(from, to) /\ Plain(to)
      BY <1>7 DEF SameHeld, Mutexes, HeldAt, Panicking, Labels, Plain, WordsLeft
    <2>2. Quiet("main")
      BY <1>7 DEF Quiet, local, buffers
    <2>3. hurt' \subseteq Threads /\ faults' \in 0..MaxFaults
      BY <1>0, <1>7, AccessType
    <2>4. DataOK'
      BY <1>7, <2>3 DEF IInv, DataOK, local, shared, buffers, coreIO, devices, plant
    <2>5. QED
      BY <1>0, <1>7, <2>1, <2>2, <2>4, GotoAct
  <1>8. ASSUME NEW lock, NEW print, NEW to, mbed_printf("main", lock, print, to),
               \/ <<lock, print, to>> = <<"m_lockh", "m_hello", "m_load">>
               \/ <<lock, print, to>> = <<"m_lockl", "m_loaded", "m_start">>
               \/ <<lock, print, to>> = <<"m_lockw", "m_print", "m_down">>
               \/ <<lock, print, to>> = <<"m_lockw2", "m_print2", "m_done">>
        PROVE  IInv'
    <2>1. /\ LockCall("tw", lock, print) /\ UnlockCall("tw", print, to)
          /\ {print, to} \subseteq Labels
      BY <1>8 DEF LockCall, UnlockCall, Mutexes, HeldAt, BehindLock, Panicking, Labels, Access
    <2>2. QED
      BY <1>0, <1>8, <2>1, PrintfAct DEF WordsLeft
  <1>9. CASE /\ At("main", "m_down")
             /\ power' = FALSE
             /\ Goto("main", "m_lockw2")
             /\ UNCHANGED <<halted, local, shared, buffers, coreIO, devices, bus>>
    <2>1. SameHeld("m_down", "m_lockw2") /\ Plain("m_lockw2")
      BY DEF SameHeld, Mutexes, HeldAt, Panicking, Labels, Plain, WordsLeft
    <2>2. Quiet("main") /\ power' \in BOOLEAN
      BY <1>9 DEF Quiet, local, buffers
    <2>3. DataOK'
      BY <1>9, <2>2 DEF IInv, DataOK, local, shared, buffers, coreIO, devices, bus
    <2>4. QED
      BY <1>0, <1>9, <2>1, <2>2, <2>3, GotoAct
  <1>10. QED
    BY <1>1, <1>2, <1>3, <1>4, <1>5, <1>6, <1>7, <1>8, <1>9
       DEF main, mbed_scanf, term_readbuffer, power_down, loadProgram

(* req_intr_handler *)
LEMMA InterruptAct ==
    ASSUME IInv, req_intr_handler
    PROVE  IInv'
  <1>1. /\ ~halted /\ irq' = FALSE
        /\ UNCHANGED <<local, job, ethernet_open, rx, ram, core, ack_irq, devices>>
    BY DEF req_intr_handler
  <1>2. CASE /\ hurt' = IF fresh.isr /\ Garbles THEN hurt \cup {u \in Threads : InJtag(u)} ELSE hurt
             /\ fresh' = [fresh EXCEPT !.isr = FALSE]
             /\ signal_set(pc, "dispatch")
             /\ UNCHANGED <<tx, plant, faults>>
    <2>1. /\ irq' \in BOOLEAN /\ hurt' \subseteq Threads
          /\ fresh' \in [isr : BOOLEAN, debug : BOOLEAN]
      BY <1>1, <1>2 DEF IInv, DataOK
    <2>2. DataOK'
      BY <1>1, <1>2, <2>1 DEF IInv, DataOK, local, devices, plant
    <2>3. pc \in [Threads -> Labels] /\ "dispatch" \in Threads
      BY DEF IInv, SchedOK, Threads, Workers
    <2>4. words' = words /\ tx' = tx /\ rx' = rx /\ loc' = loc
      BY <1>1, <1>2 DEF local
    <2>5. QED
      BY <1>1, <1>2, <2>2, <2>3, <2>4, SignalSetAct
  <1>3. CASE /\ fresh.isr
             /\ faults > 0
             /\ faults' = faults - 1
             /\ tx' = "msg"
             /\ power' = FALSE
             /\ halted' = TRUE
             /\ UNCHANGED <<sched, fresh, hurt>>
    <2>1. SchedOK' /\ LockInv' /\ WordsInv' /\ BufInv'
      BY <1>1, <1>3 DEF IInv, SchedOK, LockInv, MutexInv, Queued, WordsInv, BufInv, sched, local
    <2>2. /\ irq' \in BOOLEAN /\ power' \in BOOLEAN /\ halted' \in BOOLEAN
      BY <1>1, <1>3
    <2>3. tx' \in Data /\ faults' \in 0..MaxFaults
      BY <1>3, ConstantsAssumption DEF IInv, DataOK, Data
    <2>4. DataOK'
      BY <1>1, <1>3, <2>2, <2>3 DEF IInv, DataOK, local, devices
    <2>5. QED
      BY <2>1, <2>4 DEF IInv
  <1>4. QED
    BY <1>2, <1>3 DEF req_intr_handler, power_down

(* A step of the environment moves no thread and touches no mutex or buffer. *)
LEMMA StillStep ==
    ASSUME IInv, UNCHANGED <<sched, local, buffers, halted>>
    PROVE  SchedOK' /\ LockInv' /\ WordsInv' /\ BufInv'
  BY DEF IInv, SchedOK, LockInv, MutexInv, Queued, WordsInv, BufInv, sched, local, buffers

(* The core and the user. *)
LEMMA EnvironmentAct ==
    ASSUME IInv, CoreRequest \/ CoreAck \/ UserLine
    PROVE  IInv'
  <1>1. UNCHANGED <<sched, local, buffers, halted, shared, power, bus>>
    BY DEF CoreRequest, CoreAck, UserLine, plant
  <1>2. SchedOK' /\ LockInv' /\ WordsInv' /\ BufInv'
    BY <1>1, StillStep
  <1>3. ram \in RAM /\ "none" \in Data /\ Gains \subseteq Data /\ Texts \subseteq Data
    BY DEF IInv, DataOK, Data
  <1>4. CASE CoreRequest
    <2>1. PICK ty \in ReqTypes, arg \in Texts \cup Gains \cup {"none"} :
            /\ core' = [type |-> ty, arg |-> arg]
            /\ ram' = [ram EXCEPT !.io_type = ty,
                                  !.wbuf = IF arg \in Texts THEN arg ELSE @,
                                  !.rbuf = IF arg \in Gains THEN arg ELSE @]
      BY <1>4 DEF CoreRequest
    <2>2. ty \in AllTypes /\ arg \in Data
      BY <1>3, ConstantsAssumption
    <2>3. ram' \in RAM
      BY <1>3, <2>1, <2>2 DEF RAM
    <2>4. core' \in [type : AllTypes \cup {"off", "none"}, arg : Data]
      BY <2>1, <2>2
    <2>5. irq' \in BOOLEAN /\ UNCHANGED <<ack_irq, devices>>
      BY <1>4 DEF CoreRequest
    <2>6. DataOK'
      BY <1>1, <2>3, <2>4, <2>5 DEF IInv, DataOK, local, buffers, shared, devices, bus
    <2>7. QED
      BY <1>2, <2>6 DEF IInv
  <1>5. CASE CoreAck
    <2>1. ram' \in RAM
      BY <1>3, <1>5 DEF CoreAck, RAM
    <2>2. core' \in [type : AllTypes \cup {"off", "none"}, arg : Data] /\ ack_irq' \in BOOLEAN
      BY <1>3, <1>5 DEF CoreAck
    <2>3. served' \in [dev : {"none", "terminal", "keyboard", "net_out", "net_in", "sensor"},
                       what : Data]
      BY <1>3, <1>5 DEF CoreAck, NoService
    <2>4. DataOK'
      BY <1>1, <1>5, <2>1, <2>2, <2>3 DEF CoreAck, IInv, DataOK, local, buffers, shared, bus
    <2>5. QED
      BY <1>2, <2>4 DEF IInv
  <1>6. CASE UserLine
    <2>1. DataOK'
      BY <1>1, <1>6 DEF UserLine, IInv, DataOK, local, buffers, shared, coreIO, bus
    <2>2. QED
      BY <1>2, <2>1 DEF IInv
  <1>7. QED
    BY <1>4, <1>5, <1>6

-----------------------------------------------------------------------------
(* The theorems.                                                              *)

(* Every step preserves the invariant. *)
LEMMA NextInv == IInv /\ [Next]_vars => IInv'
  <1> SUFFICES ASSUME IInv, [Next]_vars PROVE IInv'
    OBVIOUS
  <1>1. ASSUME NEW t \in Threads, Code(t) PROVE IInv'
    BY <1>1, MainAct, DispatchLoopAct, ServiceAct, DebugAct, PanicAct DEF Code
  <1>2. ASSUME NEW t \in Threads, JtagPanic(t) PROVE IInv'
    BY <1>2, JtagPanicAct
  <1>3. CASE req_intr_handler
    BY <1>3, InterruptAct
  <1>4. CASE CoreRequest \/ CoreAck \/ UserLine
    BY <1>4, EnvironmentAct
  <1>5. CASE UNCHANGED vars
    <2>1. UNCHANGED <<sched, local, buffers, halted>>
      BY <1>5 DEF vars, plant
    <2>2. SchedOK' /\ LockInv' /\ WordsInv' /\ BufInv'
      BY <2>1, StillStep
    <2>3. DataOK'
      BY <1>5 DEF IInv, DataOK, vars, local, shared, buffers, coreIO, devices, plant, bus
    <2>4. QED
      BY <2>2, <2>3 DEF IInv
  <1>6. QED
    BY <1>1, <1>2, <1>3, <1>4, <1>5 DEF Next

(* The inductive invariant holds in every reachable state. *)
THEOREM Invariance == Spec => []IInv
  BY InitInv, NextInv, PTL DEF Spec

(* Every variable keeps its type; in particular the dump of debug_print never *)
(* counts below zero and the job words hold only types their threads serve.   *)
THEOREM TypeCorrect == Spec => []TypeOK
  <1>1. IInv => TypeOK
    BY TypeSplit DEF IInv
  <1>2. QED
    BY <1>1, Invariance, PTL

(* The control blocks of the four mutexes agree with where the threads are,   *)
(* whichever thread panics or is terminated at whatever point.                *)
THEOREM LocksCorrect == Spec => []LockInv
  <1>1. IInv => LockInv
    BY DEF IInv
  <1>2. QED
    BY <1>1, Invariance, PTL

(* No two threads are inside sections guarded by the same mutex. *)
THEOREM Exclusion == Spec => []MutualExclusion
  <1>1. IInv => MutualExclusion
    <2> SUFFICES ASSUME IInv, NEW m \in Mutexes, NEW t \in Threads, NEW u \in Threads,
                        Inside(t, m), Inside(u, m)
                 PROVE  t = u
      BY DEF MutualExclusion
    <2>1. MutexInv(m)
      BY DEF IInv, LockInv
    <2>2. mtx[m].owner = t /\ mtx[m].owner = u
      BY <2>1 DEF MutexInv, Inside, Runnable
    <2>3. QED
      BY <2>2
  <1>2. QED
    BY <1>1, Invariance, PTL

(* What term_printf sends and what term_scanf copies to the core is what that *)
(* service itself put into the shared terminal buffer.                        *)
THEOREM BuffersSafe == Spec => []BuffersIntact
  <1>1. IInv => BuffersIntact
    BY DEF IInv, BufInv, BuffersIntact, At, Runnable
  <1>2. QED
    BY <1>1, Invariance, PTL

(* The lock order of the code: whoever waits for a mutex behind another one   *)
(* waits for JTAG_mutex and holds a terminal mutex.                           *)
LEMMA LockOrder ==
    ASSUME NEW m \in Mutexes, NEW k \in Mutexes, m # k,
           NEW a \in HeldAt(m) \cap BehindLock(k)
    PROVE  k = "jtag" /\ m # "jtag"
  BY DEF Mutexes, HeldAt, BehindLock

(* A circle of threads that wait for each other contains one that waits in    *)
(* panic: a waiting owner stands at a label that LockOrder speaks about, so   *)
(* it waits for JTAG_mutex, and the owner of JTAG_mutex waits for nothing.    *)
THEOREM NoCircle == Spec => []NoCircularWait
  <1>1. IInv => NoCircularWait
    <2> SUFFICES ASSUME IInv, NEW S \in SUBSET Waiting, S # {},
                        \A t \in S : pc[t] # "p_print",
                        \A t \in S : \E m \in Mutexes : Queued(mtx[m], t) /\ mtx[m].owner \in S
                 PROVE  FALSE
      BY DEF NoCircularWait
    <2>1. S \subseteq Threads
      BY DEF Waiting
    <2>2. \A m \in Mutexes : MutexInv(m)
      BY DEF IInv, LockInv
    <2>3. \A k \in Mutexes : BehindLock(k) \cap Panicking \subseteq {"p_print"}
      BY DEF Mutexes, BehindLock, Panicking
    <2>4. ASSUME NEW m \in Mutexes, NEW k \in Mutexes, NEW t \in S,
                 mtx[m].owner = t, Queued(mtx[k], t)
          PROVE  k = "jtag" /\ m # "jtag"
      <3>1. pc[t] \in BehindLock(k) /\ mtx[k].owner # t
        BY <2>1, <2>2, <2>4 DEF MutexInv
      <3>2. pc[t] \notin Panicking
        BY <2>3, <3>1
      <3>3. pc[t] \in HeldAt(m) /\ m # k
        BY <2>1, <2>2, <2>4, <3>1, <3>2 DEF MutexInv
      <3>4. QED
        BY <3>1, <3>3, LockOrder
    <2>5. PICK t0 \in S : TRUE
      OBVIOUS
    <2>6. PICK m0 \in Mutexes : Queued(mtx[m0], t0) /\ mtx[m0].owner \in S
      BY <2>5
    <2>7. PICK m1 \in Mutexes : Queued(mtx[m1], mtx[m0].owner) /\ mtx[m1].owner \in S
      BY <2>6
    <2>8. m1 = "jtag"
      BY <2>4, <2>6, <2>7
    <2>9. PICK m2 \in Mutexes : Queued(mtx[m2], mtx[m1].owner)
      BY <2>7
    <2>10. m1 # "jtag"
      BY <2>4, <2>7, <2>9
    <2>11. QED
      BY <2>8, <2>10
  <1>2. QED
    BY <1>1, Invariance, PTL

-----------------------------------------------------------------------------
(***************************************************************************)
(* The firmware implements Service, for every set of request types, texts  *)
(* and lines, every number of faults and every point at which the user     *)
(* quits, as long as no JTAG access is garbled by another one.             *)
(*                                                                         *)
(* One request is under way at a time.  It moves like a token: from the    *)
(* interrupt line to the dispatcher, to a worker and to the acknowledge    *)
(* line.  Whoever has it knows what the request was and what has been done *)
(* for it so far.                                                          *)
(***************************************************************************)

Servers == {"dispatch", "send", "recv", "pow"}
Outgoing == {"panic", "print", "enet_send", "wireless_send"}
Incoming == {"scan", "enet_recv", "wireless_recv"}

Busy(t) == t \in sig \/ pc[t] \notin {"loop", "wait"}

(* The request is in one place, and there is one. *)
Token ==
    /\ \A t \in Servers : Busy(t) =>
          /\ core.type \in AllTypes /\ ~irq /\ ~ack_irq
          /\ \A u \in Servers : Busy(u) => u = t
    /\ \A t \in Servers : t \in sig => pc[t] = "loop"
    /\ irq \/ ack_irq => core.type \in AllTypes
    /\ ~(irq /\ ack_irq)

(* What the core has put into the RAM along with a request; without one no    *)
(* device has acted.                                                          *)
Posted ==
    /\ core.type \notin AllTypes => served = NoService
    /\ core.type \in Outgoing => core.arg \in Texts /\ ram.wbuf = core.arg
    /\ core.type = "pow" => core.arg \in Gains

(* Nobody has looked at the request yet. *)
Unread ==
    /\ ram.io_type = core.type /\ served = NoService
    /\ core.type = "pow" => ram.rbuf = core.arg

(* The type a worker works on. *)
Wanted == IF core.type = "panic" THEN "print" ELSE core.type

(* All that was to be done for the request has been done, with result v. *)
Outcome(v) ==
    /\ core.type \in {"panic", "print"} =>
          served = [dev |-> "terminal", what |-> core.arg] /\ v = core.arg
    /\ core.type = "scan" =>
          served = [dev |-> "keyboard", what |-> ram.rbuf] /\ v = ram.rbuf
    /\ core.type = "enet_send" =>
          \/ served = [dev |-> "net_out", what |-> core.arg]
          \/ served = NoService /\ v = "zero" /\ ~ethernet_open
    /\ core.type = "enet_recv" =>
          \/ served = [dev |-> "net_in", what |-> ram.rbuf] /\ v = ram.rbuf
          \/ served = NoService /\ v = "zero"
    /\ core.type \in {"wireless_send", "wireless_recv"} => served = NoService /\ v = "zero"
    /\ core.type = "pow" =>
          \/ /\ core.arg \in {"0", "1"}
             /\ served = [dev |-> "sensor", what |-> core.arg]
             /\ ram.rbuf = Report(core.arg) /\ v = ram.rbuf
          \/ core.arg = "bad" /\ served = NoService /\ v = "zero"

(* The dispatcher has the request. *)
Dispatching ==
    /\ pc["dispatch"] \in {"loop", "run", "d_read", "d_clear", "d_switch"} \cup Panicking
    /\ pc["dispatch"] \in {"loop", "run", "d_read"} => Unread
    /\ pc["dispatch"] \in {"d_clear", "d_switch"} =>
          /\ loc["dispatch"].type = core.type /\ served = NoService
          /\ core.type = "pow" => loc["dispatch"].val = core.arg
    /\ pc["dispatch"] = "d_switch" => ram.io_type = "empty"

(* The end of a service, with the result in a local variable of t. *)
Ending(t) ==
    /\ pc[t] \in {"a_lock", "a_write", "a_pulse"} => Outcome(loc[t].val)
    /\ pc[t] = "a_pulse" => ram.ack_val = loc[t].val /\ ram.ack_type = loc[t].type

(* The send thread has the request. *)
Sending ==
    /\ core.type \in Outgoing /\ ram.io_type = "empty" /\ job.send = Wanted
    /\ pc["send"] \in {"loop", "run", "tp_lockw", "tp_lock", "tp_copy", "tp_print",
                       "es_lock", "es_copy", "es_send", "a_lock", "a_write", "a_pulse"} \cup Panicking
    /\ pc["send"] \in {"loop", "run"} => served = NoService
    /\ pc["send"] \notin {"loop", "run"} => loc["send"].type = Wanted
    /\ pc["send"] \in {"tp_lockw", "tp_lock", "tp_copy", "tp_print"} =>
          Wanted = "print" /\ served = NoService
    /\ pc["send"] \in {"es_lock", "es_copy", "es_send"} =>
          Wanted = "enet_send" /\ served = NoService
    /\ pc["send"] \in {"tp_print", "es_send"} => loc["send"].val = core.arg
    /\ Ending("send")

(* The receive thread has the request. *)
Receiving ==
    /\ core.type \in Incoming /\ ram.io_type = "empty" /\ job.recv = core.type
    /\ pc["recv"] \in {"loop", "run", "ts_lockr", "ts_read", "ts_lock", "ts_copy", "ts_done",
                       "er_recv", "er_lock", "er_copy", "a_lock", "a_write", "a_pulse"} \cup Panicking
    /\ pc["recv"] \in {"loop", "run", "ts_lockr", "ts_read", "er_recv"} => served = NoService
    /\ pc["recv"] \notin {"loop", "run"} => loc["recv"].type = core.type
    /\ pc["recv"] \in {"ts_lockr", "ts_read", "ts_lock", "ts_copy", "ts_done"} => core.type = "scan"
    /\ pc["recv"] \in {"er_recv", "er_lock", "er_copy"} => core.type = "enet_recv"
    /\ pc["recv"] \in {"ts_lock", "ts_copy", "ts_done"} =>
          served = [dev |-> "keyboard", what |-> loc["recv"].val]
    /\ pc["recv"] = "ts_done" => ram.rbuf = loc["recv"].val
    /\ pc["recv"] = "er_recv" => loc["recv"].val = "zero"
    /\ pc["recv"] \in {"er_lock", "er_copy"} =>
          served = [dev |-> "net_in", what |-> loc["recv"].val]
    /\ Ending("recv")

(* The thread of the power sensor has the request. *)
Measuring ==
    /\ core.type = "pow" /\ ram.io_type = "empty"
    /\ pc["pow"] \in {"loop", "run", "pw_lock", "pw_read", "pw_lockj", "pw_copy",
                      "a_lock", "a_write", "a_pulse"} \cup Panicking
    /\ pc["pow"] \in {"loop", "run"} => job.gain = core.arg
    /\ pc["pow"] \in {"loop", "run", "pw_lock", "pw_read"} => served = NoService
    /\ pc["pow"] \notin {"loop", "run"} => loc["pow"].type = "pow"
    /\ pc["pow"] \in {"pw_lock", "pw_read"} => loc["pow"].val = core.arg
    /\ pc["pow"] \in {"pw_lock", "pw_read", "pw_lockj", "pw_copy"} => core.arg \in GoodGains
    /\ pc["pow"] \in {"pw_lockj", "pw_copy"} =>
          /\ served = [dev |-> "sensor", what |-> core.arg]
          /\ loc["pow"].val = Report(core.arg)
    /\ Ending("pow")

(* The core can take its answer. *)
Answered == ram.io_type = "empty" /\ ram.ack_type = Wanted /\ Outcome(ram.ack_val)

RequestInv ==
    /\ Token
    /\ Posted
    /\ irq => Unread
    /\ Busy("dispatch") => Dispatching
    /\ Busy("send") => Sending
    /\ Busy("recv") => Receiving
    /\ Busy("pow") => Measuring
    /\ ack_irq => Answered

(* The core has power until main or a panic has powered it down, and main has *)
(* terminated every worker before it does.                                    *)
QuitInv ==
    /\ ~power => halted \/ pc["main"] \in {"m_lockw2", "m_print2", "m_done"}
    /\ pc["main"] \in {"m_reset", "m_lockw", "m_print", "m_down", "m_lockw2", "m_print2", "m_done"}
          => alive \subseteq {"main"}

(* The core asks for nothing before main has started it. *)
StartInv ==
    pc["main"] \in {"m_boot", "m_lockh", "m_hello", "m_load", "m_lockl", "m_loaded", "m_start"}
      => core.type = "off"

(* The parts of the invariant, by the thread that has the request. *)
Part(t) ==
    /\ t = "dispatch" => Dispatching
    /\ t = "send" => Sending
    /\ t = "recv" => Receiving
    /\ t = "pow" => Measuring

(* What the steps below may use. *)
Before == ~Garbles /\ IInv /\ RequestInv /\ QuitInv /\ StartInv

(* What they have to show: the invariant again, and a step of Service. *)
After == RequestInv' /\ [Remote!Next]_(Remote!vars)

-----------------------------------------------------------------------------
(* Without garbling an access reads what is there and writes what it means. *)
LEMMA Ungarbled ==
    ASSUME ~Garbles
    PROVE  \A t, v, w : Sees(t, v, w) = {v} /\ Lands(t, v, w) = {v}
  BY DEF Sees, Lands, Overlapped

(* A step that the core cannot see stutters in Service. *)
LEMMA Unseen ==
    ASSUME core' = core, served' = served, ram'.ack_val = ram.ack_val,
           ack_irq' = ack_irq, power' = power
    PROVE  [Remote!Next]_(Remote!vars)
  BY DEF Remote!vars

(* The core has power while a worker acts. *)
LEMMA Powered ==
    ASSUME QuitInv, NEW t \in Threads \ {"main"}, Runnable(t)
    PROVE  power
  BY DEF QuitInv, Runnable

(* A step that touches nothing of a request. *)
LEMMA Elsewhere ==
    ASSUME RequestInv,
           \A u \in Servers : pc'[u] = pc[u] /\ loc'[u] = loc[u] /\ (u \in sig' <=> u \in sig),
           UNCHANGED <<job, ethernet_open, ram, core, irq, ack_irq, served>>
    PROVE  RequestInv'
<1>1. \A u \in Servers : Busy(u)' <=> Busy(u)
  BY DEF Busy
<1>2. {"dispatch", "send", "recv", "pow"} \subseteq Servers
  BY DEF Servers
<1>3. Token' /\ Posted' /\ (irq' => Unread') /\ (ack_irq' => Answered')
  BY <1>1 DEF RequestInv, Token, Posted, Unread, Answered, Outcome, Wanted
<1>4. Dispatching' <=> Dispatching
  BY <1>2 DEF Dispatching, Unread
<1>5. Sending' <=> Sending
  BY <1>2 DEF Sending, Ending, Outcome, Wanted
<1>6. Receiving' <=> Receiving
  BY <1>2 DEF Receiving, Ending, Outcome
<1>7. Measuring' <=> Measuring
  BY <1>2 DEF Measuring, Ending, Outcome
<1> QED
  BY <1>1, <1>2, <1>3, <1>4, <1>5, <1>6, <1>7 DEF RequestInv

(* t, and nobody else, has the request, and moves to a label. *)
Holds(t, to) ==
    /\ core.type \in AllTypes /\ ~irq /\ ~ack_irq
    /\ Part(t)
    /\ pc'[t] = to /\ t \notin sig'
    /\ \A u \in Servers \ {t} : ~Busy(u) /\ ~Busy(u)'

(* A server that moves has the request. *)
LEMMA Moved ==
    ASSUME Before, NEW t \in Servers, NEW to, pc[t] \notin {"loop", "wait"},
           pc' = [pc EXCEPT ![t] = to], sig' = sig
    PROVE  Holds(t, to)
<1>1. pc \in [Threads -> Labels] /\ Servers \subseteq Threads
  BY DEF Before, IInv, SchedOK, Servers, Threads, Workers
<1>2. pc'[t] = to /\ \A u \in Servers \ {t} : pc'[u] = pc[u]
  BY <1>1
<1>3. Busy(t) /\ t \notin sig
  BY DEF Before, RequestInv, Token, Busy
<1>4. /\ core.type \in AllTypes /\ ~irq /\ ~ack_irq
      /\ \A u \in Servers \ {t} : ~Busy(u)
  BY <1>3 DEF Before, RequestInv, Token
<1>5. \A u \in Servers \ {t} : ~Busy(u)'
  BY <1>2, <1>4 DEF Busy
<1>6. Part(t)
  BY <1>3 DEF Before, RequestInv, Part
<1> QED
  BY <1>2, <1>3, <1>4, <1>5, <1>6 DEF Holds

(* The step of the server keeps the invariant if it keeps its part of it. *)
LEMMA Kept ==
    ASSUME Before, NEW t \in Servers, NEW to, Holds(t, to), to \notin {"loop", "wait"},
           core' = core, irq' = irq, ack_irq' = ack_irq, ram'.wbuf = ram.wbuf, Part(t)'
    PROVE  RequestInv'
<1>1. \A u \in Servers : Busy(u)' => u = t
  BY DEF Holds
<1>2. Token'
  <2>1. \A u \in Servers : u \in sig' => u # t /\ Busy(u)'
    BY DEF Holds, Busy
  <2> QED
    BY <1>1, <2>1 DEF Token, Holds
<1>3. Posted'
  BY DEF Before, RequestInv, Posted, Holds
<1>4. ~irq' /\ ~ack_irq'
  BY DEF Holds
<1> QED
  BY <1>1, <1>2, <1>3, <1>4 DEF RequestInv, Part, Servers

(* A step that only moves the server along keeps its part. *)
LEMMA MovedOn ==
    ASSUME Before, NEW t \in Servers, NEW to, Holds(t, to), to \notin {"loop", "wait"},
           UNCHANGED <<job, ethernet_open, ram, core, irq, ack_irq, served, power>>,
           loc'[t] = loc[t], Part(t)'
    PROVE  After
<1>1. RequestInv'
  BY Kept
<1> QED
  BY <1>1, Unseen DEF After

(* New values in the local variables of a thread. *)
LEMMA Locals ==
    ASSUME IInv, NEW t \in Threads, NEW v
    PROVE  /\ loc' = [loc EXCEPT ![t].val = v] =>
                 loc'[t].val = v /\ loc'[t].type = loc[t].type
           /\ \A ty : loc' = [loc EXCEPT ![t] = [type |-> ty, val |-> v]] =>
                 loc'[t].val = v /\ loc'[t].type = ty
           /\ \A x : \A u \in Threads \ {t} : loc' = [loc EXCEPT ![t] = x] => loc'[u] = loc[u]
<1>1. loc \in [Threads -> Local] /\ loc[t] \in [type : AllTypes \cup {"none", "empty", "junk"}, val : Data]
  BY DEF IInv, DataOK, Local
<1>2. ASSUME loc' = [loc EXCEPT ![t].val = v] PROVE loc'[t].val = v /\ loc'[t].type = loc[t].type
  <2>1. loc'[t] = [loc[t] EXCEPT !.val = v]
    BY <1>1, <1>2
  <2> QED
    BY <1>1, <2>1
<1> QED
  BY <1>1, <1>2

-----------------------------------------------------------------------------
(* Steps that all servers have in common.                                     *)

(* Labels in front of and behind the lock calls of the servers. *)
Ahead == {<<"tp_lockw", "tp_lock">>, <<"tp_lock", "tp_copy">>, <<"es_lock", "es_copy">>,
          <<"ts_lockr", "ts_read">>, <<"ts_lock", "ts_copy">>, <<"er_lock", "er_copy">>,
          <<"pw_lock", "pw_read">>, <<"pw_lockj", "pw_copy">>, <<"a_lock", "a_write">>}

(* Only the label changes, over a lock call. *)
LEMMA OverLock ==
    ASSUME Before, NEW t \in Servers, NEW from, NEW to, <<from, to>> \in Ahead,
           pc[t] = from, Holds(t, to),
           UNCHANGED <<loc, job, ethernet_open, ram, core, served>>
    PROVE  Part(t)'
<1>1. pc'[t] = to /\ Part(t)
  BY DEF Holds
<1>2. CASE t = "dispatch"
  BY <1>1, <1>2 DEF Part, Dispatching, Ahead, Panicking
<1>3. CASE t = "send"
  BY <1>1, <1>3 DEF Part, Sending, Ending, Outcome, Wanted, Ahead, Panicking
<1>4. CASE t = "recv"
  BY <1>1, <1>4 DEF Part, Receiving, Ending, Outcome, Ahead, Panicking
<1>5. CASE t = "pow"
  BY <1>1, <1>5 DEF Part, Measuring, Ending, Outcome, Ahead, Panicking
<1> QED
  BY <1>2, <1>3, <1>4, <1>5 DEF Servers

(* Mutex::lock of a server. *)
LEMMA LockOn ==
    ASSUME Before, NEW t \in Servers, NEW m, NEW from, NEW to, Lock(t, m, from, to),
           <<from, to>> \in Ahead
    PROVE  After
<1>1. /\ pc[t] = from /\ pc' = [pc EXCEPT ![t] = to] /\ sig' = sig
      /\ UNCHANGED <<loc, job, ethernet_open, ram, core, irq, ack_irq, served, power>>
  BY DEF Lock, At, local, shared, coreIO, devices, plant
<1>2. from \notin {"loop", "wait"} /\ to \notin {"loop", "wait"}
  BY DEF Ahead
<1>3. Holds(t, to)
  BY <1>1, <1>2, Moved
<1>4. Part(t)'
  BY <1>1, <1>3, OverLock
<1> QED
  BY <1>1, <1>2, <1>3, <1>4, MovedOn

(* A server panics, or goes on panicking: it keeps the request for ever. *)
LEMMA Panics ==
    ASSUME Before, NEW t \in Servers, NEW to \in Panicking,
           pc[t] \in Access \cup Panicking, pc' = [pc EXCEPT ![t] = to], sig' = sig,
           UNCHANGED <<loc, job, ethernet_open, ram, core, irq, ack_irq, served, power>>
    PROVE  After
<1>1. pc[t] \notin {"loop", "wait", "run"} /\ to \notin {"loop", "wait", "run"}
  BY DEF Access, Panicking
<1>2. Holds(t, to)
  BY <1>1, Moved
<1>3. Part(t)'
  <2>1. pc'[t] = to /\ Part(t)
    BY <1>2 DEF Holds
  <2>2. CASE t = "dispatch"
    BY <2>1, <2>2 DEF Part, Dispatching, Panicking
  <2>3. CASE t = "send"
    BY <1>1, <2>1, <2>3 DEF Part, Sending, Ending, Wanted, Panicking
  <2>4. CASE t = "recv"
    BY <1>1, <2>1, <2>4 DEF Part, Receiving, Ending, Panicking
  <2>5. CASE t = "pow"
    BY <1>1, <2>1, <2>5 DEF Part, Measuring, Ending, Panicking
  <2> QED
    BY <2>2, <2>3, <2>4, <2>5 DEF Servers
<1> QED
  BY <1>1, <1>2, <1>3, MovedOn

(* signal_wait of a server: the signal it consumes is the request. *)
LEMMA WaitOn ==
    ASSUME Before, NEW t \in Servers, signal_wait(t)
    PROVE  After
<1>0. pc \in [Threads -> Labels] /\ Servers \subseteq Threads
  BY DEF Before, IInv, SchedOK, Servers, Threads, Workers
<1>1. /\ pc[t] = "loop"
      /\ UNCHANGED <<loc, job, ethernet_open, ram, core, irq, ack_irq, served, power>>
  BY DEF signal_wait, At, local, shared, coreIO, devices, plant
<1>2. CASE t \in sig
  <2>1. sig' = sig \ {t} /\ pc' = [pc EXCEPT ![t] = "run"]
    BY <1>2 DEF signal_wait
  <2>2. Busy(t) /\ pc'[t] = "run" /\ \A u \in Servers \ {t} : pc'[u] = pc[u]
    BY <1>0, <1>2, <2>1 DEF Busy
  <2>3. Holds(t, "run")
    BY <2>1, <2>2 DEF Holds, Before, RequestInv, Token, Busy, Part
  <2>4. Part(t)'
    <3>1. pc'[t] = "run" /\ Part(t)
      BY <2>3 DEF Holds
    <3>2. CASE t = "dispatch"
      BY <1>1, <3>1, <3>2 DEF Part, Dispatching, Unread, Panicking
    <3>3. CASE t = "send"
      BY <1>1, <3>1, <3>3 DEF Part, Sending, Ending, Wanted, Panicking
    <3>4. CASE t = "recv"
      BY <1>1, <3>1, <3>4 DEF Part, Receiving, Ending, Panicking
    <3>5. CASE t = "pow"
      BY <1>1, <3>1, <3>5 DEF Part, Measuring, Ending, Panicking
    <3> QED
      BY <3>2, <3>3, <3>4, <3>5 DEF Servers
  <2> QED
    BY <1>1, <2>3, <2>4, MovedOn
<1>3. CASE t \notin sig
  <2>1. sig' = sig /\ pc' = [pc EXCEPT ![t] = "wait"]
    BY <1>3 DEF signal_wait
  <2>2. pc'[t] = "wait" /\ \A u \in Servers \ {t} : pc'[u] = pc[u]
    BY <1>0, <2>1
  <2>3. \A u \in Servers : Busy(u)' <=> Busy(u)
    BY <1>1, <2>1, <2>2 DEF Busy
  <2>4. ~Busy(t)
    BY <1>1, <1>3 DEF Busy
  <2>5. Token' /\ Posted' /\ (irq' => Unread') /\ (ack_irq' => Answered')
    BY <1>1, <1>3, <2>1, <2>2, <2>3
    DEF Before, RequestInv, Token, Posted, Unread, Answered, Outcome, Wanted
  <2>6. t # "dispatch" => (Dispatching' <=> Dispatching)
    BY <1>1, <2>2 DEF Dispatching, Unread, Servers
  <2>7. t # "send" => (Sending' <=> Sending)
    BY <1>1, <2>2 DEF Sending, Ending, Outcome, Wanted, Servers
  <2>8. t # "recv" => (Receiving' <=> Receiving)
    BY <1>1, <2>2 DEF Receiving, Ending, Outcome, Servers
  <2>9. t # "pow" => (Measuring' <=> Measuring)
    BY <1>1, <2>2 DEF Measuring, Ending, Outcome, Servers
  <2>10. RequestInv'
    BY <2>3, <2>4, <2>5, <2>6, <2>7, <2>8, <2>9 DEF Before, RequestInv, Servers
  <2> QED
    BY <1>1, <2>10, Unseen DEF After
<1> QED
  BY <1>2, <1>3

(* A finished request is answered with what the device did, or with zero. *)
LEMMA Fits ==
    ASSUME core.type \in AllTypes, NEW v, Outcome(v)
    PROVE  /\ served = NoService => v = "zero"
           /\ served # NoService /\ served.dev \in {"terminal", "keyboard", "net_in"}
                => v = served.what
  BY DEF Outcome, AllTypes, NoService

(* The end of a service: the result goes to the RAM, then the line rises. *)
LEMMA AcknowledgeOn ==
    ASSUME Before, NEW t \in Servers \ {"dispatch"}, acknowledge(t)
    PROVE  After
<1>0. pc \in [Threads -> Labels] /\ t \in Threads /\ ram \in RAM
  BY DEF Before, IInv, SchedOK, DataOK, Servers, Threads, Workers
<1>1. CASE Lock(t, "jtag", "a_lock", "a_write")
  BY <1>1, LockOn DEF Ahead
<1>2. CASE /\ At(t, "a_write") /\ WriteAck(t) /\ EndAccess(t) /\ Goto(t, "a_pulse")
           /\ UNCHANGED <<local, shared, buffers, core, irq, ack_irq, devices, plant>>
  <2>1. /\ pc[t] = "a_write" /\ pc' = [pc EXCEPT ![t] = "a_pulse"] /\ sig' = sig
        /\ UNCHANGED <<loc, job, ethernet_open, core, irq, ack_irq, served, power>>
        /\ Runnable(t)
    BY <1>2 DEF At, Goto, local, shared, devices, plant
  <2>2. ram' = [ram EXCEPT !.ack_val = loc[t].val, !.ack_type = loc[t].type]
    <3>1. PICK v \in Lands(t, loc[t].val, ram.ack_val), ty \in Lands(t, loc[t].type, ram.ack_type) :
            ram' = [ram EXCEPT !.ack_val = v, !.ack_type = ty]
      BY <1>2 DEF WriteAck
    <3>2. v = loc[t].val /\ ty = loc[t].type
      <4>1. Lands(t, loc[t].val, ram.ack_val) = {loc[t].val}
        BY Ungarbled DEF Before
      <4>2. Lands(t, loc[t].type, ram.ack_type) = {loc[t].type}
        BY Ungarbled DEF Before
      <4> QED
        BY <3>1, <4>1, <4>2
    <3> QED
      BY <3>1, <3>2
  <2>3. /\ ram'.ack_val = loc[t].val /\ ram'.ack_type = loc[t].type
        /\ ram'.wbuf = ram.wbuf /\ ram'.rbuf = ram.rbuf /\ ram'.io_type = ram.io_type
    BY <1>0, <2>2 DEF RAM
  <2>4. Holds(t, "a_pulse")
    BY <2>1, Moved
  <2>5. Part(t)'
    <3>1. pc'[t] = "a_pulse" /\ Part(t)
      BY <2>4 DEF Holds
    <3>2. CASE t = "send"
      BY <2>1, <2>3, <3>1, <3>2 DEF Part, Sending, Ending, Outcome, Wanted, Panicking
    <3>3. CASE t = "recv"
      BY <2>1, <2>3, <3>1, <3>3 DEF Part, Receiving, Ending, Outcome, Panicking
    <3>4. CASE t = "pow"
      BY <2>1, <2>3, <3>1, <3>4 DEF Part, Measuring, Ending, Outcome, Panicking
    <3> QED
      BY <3>2, <3>3, <3>4 DEF Servers
  <2>6. RequestInv'
    BY <2>1, <2>3, <2>4, <2>5, Kept
  <2>7. power /\ t # "main"
    BY <1>0, <2>1, Powered DEF Before, Servers
  <2>8. Remote!Pending
    BY <2>4, <2>7 DEF Remote!Pending, Holds
  <2>9. CASE ram'.ack_val = ram.ack_val
    BY <2>1, <2>6, <2>9, Unseen DEF After
  <2>10. CASE ram'.ack_val # ram.ack_val
    BY <2>1, <2>6, <2>8, <2>10 DEF After, Remote!Next, Remote!Write
  <2> QED
    BY <2>9, <2>10
<1>3. CASE /\ At(t, "a_pulse") /\ ack_irq' = TRUE /\ loc' = [loc EXCEPT ![t] = NoLocal]
           /\ Unlock(t, "jtag", "loop")
           /\ UNCHANGED <<words, shared, buffers, ram, core, irq, devices, plant, bus>>
  <2>1. /\ pc[t] = "a_pulse" /\ pc' = [pc EXCEPT ![t] = "loop"] /\ sig' = sig
        /\ UNCHANGED <<job, ethernet_open, core, irq, ram, served, power>>
        /\ Runnable(t) /\ ack_irq'
    BY <1>3 DEF At, Unlock, shared, devices, plant
  <2>2. Holds(t, "loop")
    BY <2>1, Moved
  <2>3. /\ ram.io_type = "empty" /\ ram.ack_type = Wanted /\ Outcome(ram.ack_val)
    <3>1. CASE t = "send"
      BY <2>1, <2>2, <3>1 DEF Holds, Part, Sending, Ending, Panicking
    <3>2. CASE t = "recv"
      BY <2>1, <2>2, <3>2 DEF Holds, Part, Receiving, Ending, Panicking, Wanted, Incoming
    <3>3. CASE t = "pow"
      BY <2>1, <2>2, <3>3 DEF Holds, Part, Measuring, Ending, Panicking, Wanted
    <3> QED
      BY <3>1, <3>2, <3>3 DEF Servers
  <2>4. Answered'
    BY <2>1, <2>3 DEF Answered, Wanted, Outcome
  <2>5. \A u \in Servers : ~Busy(u)'
    BY <2>2 DEF Holds, Busy
  <2>6. Token' /\ Posted' /\ ~irq'
    BY <2>1, <2>2, <2>5 DEF Token, Busy, Holds, Before, RequestInv, Posted
  <2>7. RequestInv'
    BY <2>4, <2>5, <2>6 DEF RequestInv, Servers
  <2>8. power
    BY <1>0, <2>1, Powered DEF Before, Servers
  <2>9. Remote!Pending
    BY <2>2, <2>8 DEF Remote!Pending, Holds
  <2>10. Remote!Answer
    <3>1. core.type \in AllTypes
      BY <2>2 DEF Holds
    <3>2. /\ served = NoService => ram.ack_val = "zero"
          /\ served # NoService /\ served.dev \in {"terminal", "keyboard", "net_in"}
                => ram.ack_val = served.what
      BY <2>3, <3>1, Fits
    <3>3. ack_irq' = TRUE
      BY <1>3
    <3> QED
      BY <2>1, <2>9, <3>2, <3>3 DEF Remote!Answer
  <2> QED
    BY <2>7, <2>10 DEF After, Remote!Next
<1> QED
  BY <1>1, <1>2, <1>3 DEF acknowledge

-----------------------------------------------------------------------------
(* The send thread.                                                           *)

(* jtag_writebuffer gives the service the argument of the request. *)
LEMMA WriteBufferOn ==
    ASSUME Before, NEW lock, NEW copy, NEW to, jtag_writebuffer("send", lock, copy, to),
           \/ <<lock, copy, to>> = <<"tp_lock", "tp_copy", "tp_print">>
           \/ <<lock, copy, to>> = <<"es_lock", "es_copy", "es_send">>
    PROVE  After
<1>0. "send" \in Servers /\ "send" \in Threads
  BY DEF Servers, Threads, Workers
<1>1. CASE Lock("send", "jtag", lock, copy)
  BY <1>0, <1>1, LockOn DEF Ahead
<1>2. CASE ~Lock("send", "jtag", lock, copy)
  <2>1. PICK v \in Sees("send", ram.wbuf, {"junk"}) : loc' = [loc EXCEPT !["send"].val = v]
    BY <1>2 DEF jtag_writebuffer
  <2>2. v = ram.wbuf
    BY <2>1, Ungarbled DEF Before
  <2>3. /\ pc["send"] = copy /\ pc' = [pc EXCEPT !["send"] = to] /\ sig' = sig
        /\ UNCHANGED <<job, ethernet_open, ram, core, irq, ack_irq, served, power>>
    BY <1>2 DEF jtag_writebuffer, At, Unlock, shared, coreIO, devices, plant
  <2>4. copy \notin {"loop", "wait"} /\ to \notin {"loop", "wait"}
    OBVIOUS
  <2>5. Holds("send", to)
    BY <1>0, <2>3, <2>4, Moved
  <2>6. loc'["send"].val = ram.wbuf /\ loc'["send"].type = loc["send"].type
    BY <1>0, <2>1, <2>2, Locals DEF Before
  <2>7. ram.wbuf = core.arg
    BY <2>5 DEF Holds, Part, Sending, Before, RequestInv, Posted
  <2>8. Part("send")'
    <3>1. pc'["send"] = to /\ Sending
      BY <2>5 DEF Holds, Part
    <3>2. Sending'
      BY <2>3, <2>6, <2>7, <3>1 DEF Sending, Ending, Wanted, Panicking
    <3> QED
      BY <3>2 DEF Part
  <2>9. RequestInv'
    BY <1>0, <2>3, <2>4, <2>5, <2>8, Kept
  <2> QED
    BY <2>3, <2>9, Unseen DEF After
<1> QED
  BY <1>1, <1>2

(* Whatever serves a request does it once, with the argument of the request. *)
LEMMA Performs ==
    ASSUME Before, NEW t \in Servers, Runnable(t), core.type \in AllTypes, ~ack_irq,
           served = NoService, served'.dev = Device(core.type),
           served'.dev \in {"terminal", "net_out", "sensor"} => served'.what = core.arg,
           core' = core, ack_irq' = ack_irq, power' = power
    PROVE  [Remote!Next]_(Remote!vars)
<1>1. power
  BY Powered DEF Before, Servers, Threads, Workers
<1>2. Remote!Perform
  BY <1>1 DEF Remote!Perform, Remote!Pending, Remote!Outward
<1> QED
  BY <1>2 DEF Remote!Next

(* The send thread serves a request. *)
LEMMA SendOn ==
    ASSUME Before, data_send_loop
    PROVE  After
<1>0. "send" \in Servers /\ "send" \in Threads
  BY DEF Servers, Threads, Workers
<1>1. CASE signal_wait("send")
  BY <1>0, <1>1, WaitOn
<1>2. CASE At("send", "run") /\ data_send_loop /\ ~signal_wait("send")
  <2>1. PICK to : /\ Start("send", job.send, "zero", to)
                  /\ to = CASE job.send = "print" -> "tp_lockw"
                            [] job.send = "enet_send" /\ ethernet_open -> "es_lock"
                            [] job.send = "enet_send" /\ ~ethernet_open -> "a_lock"
                            [] job.send = "wireless_send" -> "a_lock"
                            [] OTHER -> "p_lock"
    <3>1. pc["send"] = "run"
      BY <1>2 DEF At
    <3>2. ~term_printf("send") /\ ~enet_send("send") /\ ~acknowledge("send")
      BY <3>1 DEF term_printf, enet_send, acknowledge, jtag_writebuffer, Lock, At
    <3> QED
      BY <1>2, <3>2 DEF data_send_loop
  <2>2. /\ pc["send"] = "run" /\ pc' = [pc EXCEPT !["send"] = to] /\ sig' = sig
        /\ UNCHANGED <<job, ethernet_open, ram, core, irq, ack_irq, served, power>>
        /\ loc' = [loc EXCEPT !["send"] = [type |-> job.send, val |-> "zero"]]
    BY <1>2, <2>1 DEF At, Start, Goto, shared, coreIO, devices, plant
  <2>3. Holds("send", to)
    BY <1>0, <2>2, Moved
  <2>4. loc'["send"].val = "zero" /\ loc'["send"].type = job.send
    BY <1>0, <2>2, Locals DEF Before
  <2>5. Sending /\ pc'["send"] = to
    BY <2>3 DEF Holds, Part
  <2>6. /\ to \in {"tp_lockw", "es_lock", "a_lock"}
        /\ to = "tp_lockw" => Wanted = "print"
        /\ to = "es_lock" => Wanted = "enet_send"
        /\ to = "a_lock" => (core.type = "enet_send" /\ ~ethernet_open) \/ core.type = "wireless_send"
    BY <2>1, <2>5 DEF Sending, Wanted, Outgoing
  <2>7. Sending'
    BY <2>2, <2>4, <2>5, <2>6 DEF Sending, Ending, Outcome, Wanted, Panicking
  <2>8. RequestInv'
    BY <1>0, <2>2, <2>3, <2>6, <2>7, Kept DEF Part
  <2> QED
    BY <2>2, <2>8, Unseen DEF After
<1>3. CASE term_printf("send")
  <2>1. CASE Lock("send", "tw", "tp_lockw", "tp_lock")
    BY <1>0, <2>1, LockOn DEF Ahead
  <2>2. CASE jtag_writebuffer("send", "tp_lock", "tp_copy", "tp_print")
    BY <2>2, WriteBufferOn
  <2>3. CASE /\ At("send", "tp_print") /\ served' = [dev |-> "terminal", what |-> tx]
             /\ Unlock("send", "tw", "a_lock")
             /\ UNCHANGED <<local, shared, buffers, coreIO, line, plant, bus>>
    <3>1. /\ pc["send"] = "tp_print" /\ pc' = [pc EXCEPT !["send"] = "a_lock"] /\ sig' = sig
          /\ UNCHANGED <<loc, job, ethernet_open, ram, core, irq, ack_irq, power>>
          /\ Runnable("send")
      BY <2>3 DEF At, Unlock, local, shared, coreIO, plant
    <3>2. tx = loc["send"].val
      BY <3>1 DEF Before, IInv, BufInv, Runnable
    <3>3. Holds("send", "a_lock")
      BY <1>0, <3>1, Moved
    <3>4. Sending /\ pc'["send"] = "a_lock" /\ core.type \in AllTypes /\ ~ack_irq
      BY <3>3 DEF Holds, Part
    <3>5. /\ core.type \in {"panic", "print"} /\ served = NoService
          /\ served' = [dev |-> "terminal", what |-> core.arg] /\ loc["send"].val = core.arg
      BY <2>3, <3>1, <3>2, <3>4 DEF Sending, Wanted, Outgoing
    <3>6. Sending'
      BY <3>1, <3>4, <3>5 DEF Sending, Ending, Outcome, Wanted, Panicking
    <3>7. RequestInv'
      BY <1>0, <3>1, <3>3, <3>6, Kept DEF Part
    <3>8. served'.dev = Device(core.type) /\ served'.what = core.arg
      BY <3>5 DEF Device
    <3> QED
      BY <1>0, <3>1, <3>4, <3>5, <3>7, <3>8, Performs DEF After
  <2> QED
    BY <1>3, <2>1, <2>2, <2>3 DEF term_printf
<1>4. CASE enet_send("send")
  <2>1. CASE jtag_writebuffer("send", "es_lock", "es_copy", "es_send")
    BY <2>1, WriteBufferOn
  <2>2. CASE ~jtag_writebuffer("send", "es_lock", "es_copy", "es_send")
    <3>1. /\ pc["send"] = "es_send" /\ pc' = [pc EXCEPT !["send"] = "a_lock"] /\ sig' = sig
          /\ UNCHANGED <<job, ethernet_open, ram, core, irq, ack_irq, power>>
          /\ Runnable("send") /\ served' = [dev |-> "net_out", what |-> loc["send"].val]
      BY <1>4, <2>2 DEF enet_send, At, Goto, shared, coreIO, plant
    <3>2. PICK size : loc' = [loc EXCEPT !["send"].val = size]
      BY <1>4, <2>2 DEF enet_send
    <3>3. Holds("send", "a_lock")
      BY <1>0, <3>1, Moved
    <3>4. Sending /\ pc'["send"] = "a_lock" /\ core.type \in AllTypes /\ ~ack_irq
      BY <3>3 DEF Holds, Part
    <3>5. /\ core.type = "enet_send" /\ served = NoService
          /\ served' = [dev |-> "net_out", what |-> core.arg]
          /\ loc'["send"].type = loc["send"].type
      BY <1>0, <3>1, <3>2, <3>4, Locals DEF Before, Sending, Wanted
    <3>6. Sending'
      BY <3>1, <3>4, <3>5 DEF Sending, Ending, Outcome, Wanted, Panicking
    <3>7. RequestInv'
      BY <1>0, <3>1, <3>3, <3>6, Kept DEF Part
    <3>8. served'.dev = Device(core.type) /\ served'.what = core.arg
      BY <3>5 DEF Device
    <3> QED
      BY <1>0, <3>1, <3>4, <3>5, <3>7, <3>8, Performs DEF After
  <2> QED
    BY <2>1, <2>2
<1>5. CASE acknowledge("send")
  BY <1>0, <1>5, AcknowledgeOn
<1> QED
  BY <1>1, <1>2, <1>3, <1>4, <1>5 DEF data_send_loop

-----------------------------------------------------------------------------
(* The receive thread and the thread of the power sensor.                     *)

(* jtag_readbuffer copies v to READBUF and returns it. *)
LEMMA ReadBufferFacts ==
    ASSUME Before, NEW t \in Servers, NEW v, NEW lock, NEW copy, NEW to,
           jtag_readbuffer(t, v, lock, copy, to), ~Lock(t, "jtag", lock, copy),
           copy \notin {"loop", "wait"}, to \notin {"loop", "wait"}
    PROVE  /\ pc[t] = copy /\ Runnable(t) /\ Holds(t, to)
           /\ UNCHANGED <<job, ethernet_open, core, irq, ack_irq, served, power>>
           /\ ram'.rbuf = v /\ ram'.wbuf = ram.wbuf /\ ram'.io_type = ram.io_type
           /\ ram'.ack_val = ram.ack_val
           /\ loc'[t].val = v /\ loc'[t].type = loc[t].type
<1>0. t \in Threads /\ ram \in RAM
  BY DEF Servers, Threads, Workers, Before, IInv, DataOK
<1>1. PICK w \in Lands(t, v, ram.rbuf) : ram' = [ram EXCEPT !.rbuf = w]
  BY DEF jtag_readbuffer
<1>2. w = v
  <2>1. Lands(t, v, ram.rbuf) = {v}
    BY Ungarbled DEF Before
  <2> QED
    BY <1>1, <2>1
<1>3. /\ pc[t] = copy /\ Runnable(t) /\ pc' = [pc EXCEPT ![t] = to] /\ sig' = sig
      /\ UNCHANGED <<job, ethernet_open, core, irq, ack_irq, served, power>>
      /\ loc' = [loc EXCEPT ![t].val = v]
  BY DEF jtag_readbuffer, At, Unlock, shared, devices, plant
<1>4. Holds(t, to)
  BY <1>3, Moved
<1>5. /\ ram'.rbuf = v /\ ram'.wbuf = ram.wbuf /\ ram'.io_type = ram.io_type
      /\ ram'.ack_val = ram.ack_val
  BY <1>0, <1>1, <1>2 DEF RAM
<1>6. loc'[t].val = v /\ loc'[t].type = loc[t].type
  BY <1>0, <1>3, Locals DEF Before
<1> QED
  BY <1>3, <1>4, <1>5, <1>6

(* The receive thread serves a request. *)
LEMMA ReceiveOn ==
    ASSUME Before, data_recv_loop
    PROVE  After
<1>0. "recv" \in Servers /\ "recv" \in Threads
  BY DEF Servers, Threads, Workers
<1>1. CASE signal_wait("recv")
  BY <1>0, <1>1, WaitOn
<1>2. CASE At("recv", "run") /\ data_recv_loop /\ ~signal_wait("recv")
  <2>1. PICK to : /\ Start("recv", job.recv, "zero", to)
                  /\ to = CASE job.recv = "scan" -> "ts_lockr"
                            [] job.recv = "enet_recv" /\ ethernet_open -> "er_recv"
                            [] job.recv = "enet_recv" /\ ~ethernet_open -> "a_lock"
                            [] job.recv = "wireless_recv" -> "a_lock"
                            [] OTHER -> "p_lock"
    <3>1. pc["recv"] = "run"
      BY <1>2 DEF At
    <3>2. ~term_scanf("recv") /\ ~enet_recv("recv") /\ ~acknowledge("recv")
      BY <3>1 DEF term_scanf, enet_recv, acknowledge, jtag_readbuffer, Lock, At
    <3> QED
      BY <1>2, <3>2 DEF data_recv_loop
  <2>2. /\ pc["recv"] = "run" /\ pc' = [pc EXCEPT !["recv"] = to] /\ sig' = sig
        /\ UNCHANGED <<job, ethernet_open, ram, core, irq, ack_irq, served, power>>
        /\ loc' = [loc EXCEPT !["recv"] = [type |-> job.recv, val |-> "zero"]]
    BY <1>2, <2>1 DEF At, Start, Goto, shared, coreIO, devices, plant
  <2>3. Holds("recv", to)
    BY <1>0, <2>2, Moved
  <2>4. loc'["recv"].val = "zero" /\ loc'["recv"].type = job.recv
    BY <1>0, <2>2, Locals DEF Before
  <2>5. Receiving /\ pc'["recv"] = to
    BY <2>3 DEF Holds, Part
  <2>6. /\ to \in {"ts_lockr", "er_recv", "a_lock"}
        /\ to = "ts_lockr" => core.type = "scan"
        /\ to = "er_recv" => core.type = "enet_recv"
        /\ to = "a_lock" => core.type \in {"enet_recv", "wireless_recv"}
    BY <2>1, <2>5 DEF Receiving, Incoming
  <2>7. Receiving'
    BY <2>2, <2>4, <2>5, <2>6 DEF Receiving, Ending, Outcome, Panicking
  <2>8. RequestInv'
    BY <1>0, <2>2, <2>3, <2>6, <2>7, Kept DEF Part
  <2> QED
    BY <2>2, <2>8, Unseen DEF After
<1>3. CASE term_scanf("recv")
  <2>1. CASE Lock("recv", "tr", "ts_lockr", "ts_read")
    BY <1>0, <2>1, LockOn DEF Ahead
  <2>2. CASE /\ At("recv", "ts_read") /\ term_readbuffer
             /\ loc' = [loc EXCEPT !["recv"].val = line]
             /\ served' = [dev |-> "keyboard", what |-> line] /\ Goto("recv", "ts_lock")
             /\ UNCHANGED <<tx, words, shared, coreIO, plant, bus>>
    <3>1. /\ pc["recv"] = "ts_read" /\ pc' = [pc EXCEPT !["recv"] = "ts_lock"] /\ sig' = sig
          /\ UNCHANGED <<job, ethernet_open, ram, core, irq, ack_irq, power>>
          /\ Runnable("recv")
      BY <2>2 DEF At, Goto, shared, coreIO, plant
    <3>2. loc'["recv"].val = line /\ loc'["recv"].type = loc["recv"].type
      BY <1>0, <2>2, Locals DEF Before
    <3>3. Holds("recv", "ts_lock")
      BY <1>0, <3>1, Moved
    <3>4. Receiving /\ pc'["recv"] = "ts_lock" /\ core.type \in AllTypes /\ ~ack_irq
      BY <3>3 DEF Holds, Part
    <3>5. core.type = "scan" /\ served = NoService
      BY <3>1, <3>4 DEF Receiving
    <3>6. Receiving'
      BY <2>2, <3>1, <3>2, <3>4, <3>5 DEF Receiving, Ending, Panicking
    <3>7. RequestInv'
      BY <1>0, <3>1, <3>3, <3>6, Kept DEF Part
    <3>8. served'.dev = Device(core.type) /\ served'.dev = "keyboard"
      BY <2>2, <3>5 DEF Device
    <3> QED
      BY <1>0, <3>1, <3>4, <3>5, <3>7, <3>8, Performs DEF After
  <2>3. CASE jtag_readbuffer("recv", rx, "ts_lock", "ts_copy", "ts_done")
    <3>1. CASE Lock("recv", "jtag", "ts_lock", "ts_copy")
      BY <1>0, <3>1, LockOn DEF Ahead
    <3>2. CASE ~Lock("recv", "jtag", "ts_lock", "ts_copy")
      <4>1. /\ pc["recv"] = "ts_copy" /\ Runnable("recv") /\ Holds("recv", "ts_done")
            /\ UNCHANGED <<job, ethernet_open, core, irq, ack_irq, served, power>>
            /\ ram'.rbuf = rx /\ ram'.wbuf = ram.wbuf /\ ram'.io_type = ram.io_type
            /\ ram'.ack_val = ram.ack_val
            /\ loc'["recv"].val = rx /\ loc'["recv"].type = loc["recv"].type
        BY <1>0, <2>3, <3>2, ReadBufferFacts
      <4>2. rx = loc["recv"].val
        BY <4>1 DEF Before, IInv, BufInv, Runnable
      <4>3. Receiving /\ pc'["recv"] = "ts_done"
        BY <4>1 DEF Holds, Part
      <4>4. Receiving'
        BY <4>1, <4>2, <4>3 DEF Receiving, Ending, Panicking
      <4>5. RequestInv'
        BY <1>0, <4>1, <4>4, Kept DEF Part
      <4> QED
        BY <4>1, <4>5, Unseen DEF After
    <3> QED
      BY <3>1, <3>2
  <2>4. CASE /\ At("recv", "ts_done") /\ Unlock("recv", "tr", "a_lock")
             /\ UNCHANGED <<local, shared, buffers, coreIO, devices, plant, bus>>
    <3>1. /\ pc["recv"] = "ts_done" /\ pc' = [pc EXCEPT !["recv"] = "a_lock"] /\ sig' = sig
          /\ UNCHANGED <<loc, job, ethernet_open, ram, core, irq, ack_irq, served, power>>
      BY <2>4 DEF At, Unlock, local, shared, coreIO, devices, plant
    <3>2. Holds("recv", "a_lock")
      BY <1>0, <3>1, Moved
    <3>3. Receiving /\ pc'["recv"] = "a_lock"
      BY <3>2 DEF Holds, Part
    <3>4. Receiving'
      BY <3>1, <3>3 DEF Receiving, Ending, Outcome, Panicking
    <3> QED
      BY <1>0, <3>1, <3>2, <3>4, MovedOn DEF Part
  <2> QED
    BY <1>3, <2>1, <2>2, <2>3, <2>4 DEF term_scanf
<1>4. CASE enet_recv("recv")
  <2>1. CASE jtag_readbuffer("recv", loc["recv"].val, "er_lock", "er_copy", "a_lock")
    <3>1. CASE Lock("recv", "jtag", "er_lock", "er_copy")
      BY <1>0, <3>1, LockOn DEF Ahead
    <3>2. CASE ~Lock("recv", "jtag", "er_lock", "er_copy")
      <4>1. /\ pc["recv"] = "er_copy" /\ Runnable("recv") /\ Holds("recv", "a_lock")
            /\ UNCHANGED <<job, ethernet_open, core, irq, ack_irq, served, power>>
            /\ ram'.rbuf = loc["recv"].val /\ ram'.wbuf = ram.wbuf /\ ram'.io_type = ram.io_type
            /\ ram'.ack_val = ram.ack_val
            /\ loc'["recv"].val = loc["recv"].val /\ loc'["recv"].type = loc["recv"].type
        BY <1>0, <2>1, <3>2, ReadBufferFacts
      <4>2. Receiving /\ pc'["recv"] = "a_lock"
        BY <4>1 DEF Holds, Part
      <4>3. Receiving'
        BY <4>1, <4>2 DEF Receiving, Ending, Outcome, Panicking
      <4>4. RequestInv'
        BY <1>0, <4>1, <4>3, Kept DEF Part
      <4> QED
        BY <4>1, <4>4, Unseen DEF After
    <3> QED
      BY <3>1, <3>2
  <2>2. CASE At("recv", "er_recv") /\ Goto("recv", "a_lock") /\ UNCHANGED <<loc, served>>
             /\ UNCHANGED <<words, shared, buffers, coreIO, line, plant, bus>>
    <3>1. /\ pc["recv"] = "er_recv" /\ pc' = [pc EXCEPT !["recv"] = "a_lock"] /\ sig' = sig
          /\ UNCHANGED <<loc, job, ethernet_open, ram, core, irq, ack_irq, served, power>>
      BY <2>2 DEF At, Goto, shared, coreIO, plant
    <3>2. Holds("recv", "a_lock")
      BY <1>0, <3>1, Moved
    <3>3. Receiving /\ pc'["recv"] = "a_lock"
      BY <3>2 DEF Holds, Part
    <3>4. Receiving'
      BY <3>1, <3>3 DEF Receiving, Ending, Outcome, Panicking
    <3> QED
      BY <1>0, <3>1, <3>2, <3>4, MovedOn DEF Part
  <2>3. ASSUME NEW v \in Texts, At("recv", "er_recv"), loc' = [loc EXCEPT !["recv"].val = v],
               served' = [dev |-> "net_in", what |-> v], Goto("recv", "er_lock"),
               UNCHANGED <<words, shared, buffers, coreIO, line, plant, bus>>
        PROVE  After
    <3>1. /\ pc["recv"] = "er_recv" /\ pc' = [pc EXCEPT !["recv"] = "er_lock"] /\ sig' = sig
          /\ UNCHANGED <<job, ethernet_open, ram, core, irq, ack_irq, power>>
          /\ Runnable("recv")
      BY <2>3 DEF At, Goto, shared, coreIO, plant
    <3>2. loc'["recv"].val = v /\ loc'["recv"].type = loc["recv"].type
      BY <1>0, <2>3, Locals DEF Before
    <3>3. Holds("recv", "er_lock")
      BY <1>0, <3>1, Moved
    <3>4. Receiving /\ pc'["recv"] = "er_lock" /\ core.type \in AllTypes /\ ~ack_irq
      BY <3>3 DEF Holds, Part
    <3>5. core.type = "enet_recv" /\ served = NoService
      BY <3>1, <3>4 DEF Receiving
    <3>6. Receiving'
      BY <2>3, <3>1, <3>2, <3>4, <3>5 DEF Receiving, Ending, Panicking
    <3>7. RequestInv'
      BY <1>0, <3>1, <3>3, <3>6, Kept DEF Part
    <3>8. served'.dev = Device(core.type) /\ served'.dev = "net_in"
      BY <2>3, <3>5 DEF Device
    <3> QED
      BY <1>0, <3>1, <3>4, <3>5, <3>7, <3>8, Performs DEF After
  <2> QED
    BY <1>4, <2>1, <2>2, <2>3 DEF enet_recv
<1>5. CASE acknowledge("recv")
  BY <1>0, <1>5, AcknowledgeOn
<1> QED
  BY <1>1, <1>2, <1>3, <1>4, <1>5 DEF data_recv_loop

(* The thread of the power sensor serves a request. *)
LEMMA MeasureOn ==
    ASSUME Before, read_pow_loop
    PROVE  After
<1>0. "pow" \in Servers /\ "pow" \in Threads
  BY DEF Servers, Threads, Workers
<1>1. CASE signal_wait("pow")
  BY <1>0, <1>1, WaitOn
<1>2. CASE At("pow", "run") /\ read_pow_loop /\ ~signal_wait("pow")
  <2>1. PICK v, to : /\ Start("pow", "pow", v, to)
                     /\ IF job.gain \in GoodGains THEN v = job.gain /\ to = "pw_lock"
                                                  ELSE v = "zero" /\ to = "a_lock"
    <3>1. pc["pow"] = "run"
      BY <1>2 DEF At
    <3>2. ~read_pow("pow") /\ ~acknowledge("pow")
      BY <3>1 DEF read_pow, acknowledge, jtag_readbuffer, Lock, At
    <3> QED
      BY <1>2, <3>2 DEF read_pow_loop
  <2>2. /\ pc["pow"] = "run" /\ pc' = [pc EXCEPT !["pow"] = to] /\ sig' = sig
        /\ UNCHANGED <<job, ethernet_open, ram, core, irq, ack_irq, served, power>>
        /\ loc' = [loc EXCEPT !["pow"] = [type |-> "pow", val |-> v]]
    BY <1>2, <2>1 DEF At, Start, Goto, shared, coreIO, devices, plant
  <2>3. Holds("pow", to)
    BY <1>0, <2>2, Moved
  <2>4. loc'["pow"].val = v /\ loc'["pow"].type = "pow"
    BY <1>0, <2>2, Locals DEF Before
  <2>5. Measuring /\ pc'["pow"] = to /\ core.arg \in Gains
    BY <2>3 DEF Holds, Part, Measuring, Before, RequestInv, Posted
  <2>6. /\ to \in {"pw_lock", "a_lock"}
        /\ to = "pw_lock" => v = core.arg /\ core.arg \in GoodGains
        /\ to = "a_lock" => v = "zero" /\ core.arg = "bad"
    BY <2>1, <2>2, <2>5 DEF Measuring, GoodGains, Gains
  <2>7. Measuring'
    BY <2>2, <2>4, <2>5, <2>6 DEF Measuring, Ending, Outcome, Panicking
  <2>8. RequestInv'
    BY <1>0, <2>2, <2>3, <2>6, <2>7, Kept DEF Part
  <2> QED
    BY <2>2, <2>8, Unseen DEF After
<1>3. CASE read_pow("pow")
  <2>1. CASE Lock("pow", "pow", "pw_lock", "pw_read")
    BY <1>0, <2>1, LockOn DEF Ahead
  <2>2. CASE /\ At("pow", "pw_read") /\ served' = [dev |-> "sensor", what |-> loc["pow"].val]
             /\ loc' = [loc EXCEPT !["pow"].val = Report(loc["pow"].val)]
             /\ Unlock("pow", "pow", "pw_lockj")
             /\ UNCHANGED <<words, shared, buffers, coreIO, line, plant, bus>>
    <3>1. /\ pc["pow"] = "pw_read" /\ pc' = [pc EXCEPT !["pow"] = "pw_lockj"] /\ sig' = sig
          /\ UNCHANGED <<job, ethernet_open, ram, core, irq, ack_irq, power>>
          /\ Runnable("pow")
      BY <2>2 DEF At, Unlock, shared, coreIO, plant
    <3>2. loc'["pow"].val = Report(loc["pow"].val) /\ loc'["pow"].type = loc["pow"].type
      BY <1>0, <2>2, Locals DEF Before
    <3>3. Holds("pow", "pw_lockj")
      BY <1>0, <3>1, Moved
    <3>4. Measuring /\ pc'["pow"] = "pw_lockj" /\ core.type \in AllTypes /\ ~ack_irq
      BY <3>3 DEF Holds, Part
    <3>5. core.type = "pow" /\ served = NoService /\ loc["pow"].val = core.arg
      BY <3>1, <3>4 DEF Measuring
    <3>6. Measuring'
      BY <2>2, <3>1, <3>2, <3>4, <3>5 DEF Measuring, Ending, Panicking
    <3>7. RequestInv'
      BY <1>0, <3>1, <3>3, <3>6, Kept DEF Part
    <3>8. served'.dev = Device(core.type) /\ served'.what = core.arg
      BY <2>2, <3>5 DEF Device
    <3> QED
      BY <1>0, <3>1, <3>4, <3>5, <3>7, <3>8, Performs DEF After
  <2>3. CASE jtag_readbuffer("pow", loc["pow"].val, "pw_lockj", "pw_copy", "a_lock")
    <3>1. CASE Lock("pow", "jtag", "pw_lockj", "pw_copy")
      BY <1>0, <3>1, LockOn DEF Ahead
    <3>2. CASE ~Lock("pow", "jtag", "pw_lockj", "pw_copy")
      <4>1. /\ pc["pow"] = "pw_copy" /\ Runnable("pow") /\ Holds("pow", "a_lock")
            /\ UNCHANGED <<job, ethernet_open, core, irq, ack_irq, served, power>>
            /\ ram'.rbuf = loc["pow"].val /\ ram'.wbuf = ram.wbuf /\ ram'.io_type = ram.io_type
            /\ ram'.ack_val = ram.ack_val
            /\ loc'["pow"].val = loc["pow"].val /\ loc'["pow"].type = loc["pow"].type
        BY <1>0, <2>3, <3>2, ReadBufferFacts
      <4>2. Measuring /\ pc'["pow"] = "a_lock"
        BY <4>1 DEF Holds, Part
      <4>3. Measuring'
        BY <4>1, <4>2 DEF Measuring, Ending, Outcome, Panicking, GoodGains
      <4>4. RequestInv'
        BY <1>0, <4>1, <4>3, Kept DEF Part
      <4> QED
        BY <4>1, <4>4, Unseen DEF After
    <3> QED
      BY <3>1, <3>2
  <2> QED
    BY <1>3, <2>1, <2>2, <2>3 DEF read_pow
<1>4. CASE acknowledge("pow")
  BY <1>0, <1>4, AcknowledgeOn
<1> QED
  BY <1>1, <1>2, <1>3, <1>4 DEF read_pow_loop

-----------------------------------------------------------------------------
(* The dispatcher.                                                            *)

(* The dispatcher had the request and w, if anybody, has it now. *)
HandedTo(w) ==
    /\ core.type \in AllTypes /\ ~irq /\ ~ack_irq /\ Dispatching
    /\ \A u \in Servers \ {"dispatch"} : ~Busy(u)
    /\ \A u \in Servers \ {w} : ~Busy(u)'
    /\ Busy(w)' => pc'[w] \in {"loop", "run"}
    /\ \A u \in Servers : u \in sig' => pc'[u] = "loop"

(* signal_set hands the request to a worker, which is not busy; a terminated  *)
(* worker never gets it.                                                      *)
LEMMA PassedOn ==
    ASSUME Before, NEW w \in Servers \ {"dispatch"}, NEW p, pc["dispatch"] = "d_switch",
           p = [pc EXCEPT !["dispatch"] = "loop"], signal_set(p, w)
    PROVE  HandedTo(w)
<1>0. pc \in [Threads -> Labels] /\ Servers \subseteq Threads /\ "dispatch" \in Servers
  BY DEF Before, IInv, SchedOK, Servers, Threads, Workers
<1>1. Busy("dispatch")
  BY DEF Busy
<1>2. /\ core.type \in AllTypes /\ ~irq /\ ~ack_irq
      /\ \A u \in Servers \ {"dispatch"} : ~Busy(u)
      /\ Dispatching
  BY <1>0, <1>1 DEF Before, RequestInv, Token
<1>3. \A u \in Servers : u \notin sig
  BY <1>0, <1>2 DEF Busy, Before, RequestInv, Token
<1>4. \A u \in Servers \ {"dispatch"} : pc[u] \in {"loop", "wait"}
  BY <1>2 DEF Busy
<1>5. CASE w \in alive /\ pc[w] = "wait"
  <2>1. pc' = [pc EXCEPT !["dispatch"] = "loop", ![w] = "run"] /\ sig' = sig
    BY <1>5, Zenon DEF signal_set
  <2>2. /\ pc'["dispatch"] = "loop" /\ pc'[w] = "run"
        /\ \A u \in Servers \ {"dispatch", w} : pc'[u] = pc[u]
    BY <1>0, <2>1
  <2> QED
    BY <1>2, <1>3, <1>4, <2>1, <2>2 DEF Busy, HandedTo
<1>6. CASE ~(w \in alive /\ pc[w] = "wait")
  <2>1. pc' = [pc EXCEPT !["dispatch"] = "loop"] /\ sig' = IF w \in alive THEN sig \cup {w} ELSE sig
    BY <1>6 DEF signal_set
  <2>2. pc'["dispatch"] = "loop" /\ \A u \in Servers \ {"dispatch"} : pc'[u] = pc[u]
    BY <1>0, <2>1
  <2> QED
    BY <1>2, <1>3, <1>4, <1>6, <2>1, <2>2 DEF Busy, HandedTo
<1> QED
  BY <1>5, <1>6

(* The dispatcher takes the request from the RAM and hands it over. *)
LEMMA DispatchOn ==
    ASSUME Before, dispatch_loop
    PROVE  After
<1>0. "dispatch" \in Servers /\ "dispatch" \in Threads /\ ram \in RAM
  BY DEF Servers, Threads, Workers, Before, IInv, DataOK
<1>1. CASE signal_wait("dispatch")
  BY <1>0, <1>1, WaitOn
<1>2. CASE Lock("dispatch", "jtag", "run", "d_read")
  <2>1. /\ pc["dispatch"] = "run" /\ pc' = [pc EXCEPT !["dispatch"] = "d_read"] /\ sig' = sig
        /\ UNCHANGED <<loc, job, ethernet_open, ram, core, irq, ack_irq, served, power>>
    BY <1>2 DEF Lock, At, local, shared, coreIO, devices, plant
  <2>2. Holds("dispatch", "d_read")
    BY <1>0, <2>1, Moved
  <2>3. Dispatching'
    BY <2>1, <2>2 DEF Holds, Part, Dispatching, Unread, Panicking
  <2> QED
    BY <1>0, <2>1, <2>2, <2>3, MovedOn DEF Part
<1>3. CASE /\ At("dispatch", "d_read")
           /\ \E ty \in Sees("dispatch", ram.io_type, AnyType),
                 v \in Sees("dispatch", ram.rbuf, {"junk"}) :
                loc' = [loc EXCEPT !["dispatch"] = [type |-> ty, val |-> v]]
           /\ EndAccess("dispatch") /\ Goto("dispatch", "d_clear")
           /\ UNCHANGED <<words, shared, buffers, coreIO, devices, plant>>
  <2>1. /\ pc["dispatch"] = "d_read" /\ pc' = [pc EXCEPT !["dispatch"] = "d_clear"] /\ sig' = sig
        /\ UNCHANGED <<job, ethernet_open, ram, core, irq, ack_irq, served, power>>
    BY <1>3 DEF At, Goto, shared, coreIO, devices, plant
  <2>2. PICK ty \in Sees("dispatch", ram.io_type, AnyType),
             v \in Sees("dispatch", ram.rbuf, {"junk"}) :
                loc' = [loc EXCEPT !["dispatch"] = [type |-> ty, val |-> v]]
    BY <1>3
  <2>3. ty = ram.io_type /\ v = ram.rbuf
    <3>1. Sees("dispatch", ram.io_type, AnyType) = {ram.io_type}
      BY Ungarbled DEF Before
    <3>2. Sees("dispatch", ram.rbuf, {"junk"}) = {ram.rbuf}
      BY Ungarbled DEF Before
    <3> QED
      BY <2>2, <3>1, <3>2
  <2>4. loc'["dispatch"].type = ram.io_type /\ loc'["dispatch"].val = ram.rbuf
    BY <1>0, <2>2, <2>3, Locals DEF Before
  <2>5. Holds("dispatch", "d_clear")
    BY <1>0, <2>1, Moved
  <2>6. Dispatching'
    BY <2>1, <2>4, <2>5 DEF Holds, Part, Dispatching, Unread, Panicking
  <2>7. RequestInv'
    BY <1>0, <2>1, <2>5, <2>6, Kept DEF Part
  <2> QED
    BY <2>1, <2>7, Unseen DEF After
<1>4. CASE /\ At("dispatch", "d_clear")
           /\ \E ty \in Lands("dispatch", "empty", ram.io_type) : ram' = [ram EXCEPT !.io_type = ty]
           /\ EndAccess("dispatch") /\ Unlock("dispatch", "jtag", "d_switch")
           /\ UNCHANGED <<local, shared, buffers, core, irq, ack_irq, devices, plant>>
  <2>1. /\ pc["dispatch"] = "d_clear" /\ pc' = [pc EXCEPT !["dispatch"] = "d_switch"] /\ sig' = sig
        /\ UNCHANGED <<loc, job, ethernet_open, core, irq, ack_irq, served, power>>
    BY <1>4 DEF At, Unlock, local, shared, devices, plant
  <2>2. ram' = [ram EXCEPT !.io_type = "empty"]
    <3>1. Lands("dispatch", "empty", ram.io_type) = {"empty"}
      BY Ungarbled DEF Before
    <3> QED
      BY <1>4, <3>1
  <2>3. /\ ram'.io_type = "empty" /\ ram'.wbuf = ram.wbuf /\ ram'.rbuf = ram.rbuf
        /\ ram'.ack_val = ram.ack_val
    BY <1>0, <2>2 DEF RAM
  <2>4. Holds("dispatch", "d_switch")
    BY <1>0, <2>1, Moved
  <2>5. Dispatching'
    BY <2>1, <2>3, <2>4 DEF Holds, Part, Dispatching, Panicking
  <2>6. RequestInv'
    BY <1>0, <2>1, <2>3, <2>4, <2>5, Kept DEF Part
  <2> QED
    BY <2>1, <2>3, <2>6, Unseen DEF After
<1>5. CASE /\ At("dispatch", "d_switch") /\ loc["dispatch"].type \in AllTypes
           /\ Dispatch(loc["dispatch"].type, loc["dispatch"].val, [pc EXCEPT !["dispatch"] = "loop"])
           /\ loc' = [loc EXCEPT !["dispatch"] = NoLocal]
           /\ UNCHANGED <<words, fresh, ethernet_open, buffers, coreIO, devices, plant, bus>>
  <2>1. /\ pc["dispatch"] = "d_switch"
        /\ UNCHANGED <<ethernet_open, ram, core, irq, ack_irq, served, power>>
    BY <1>5 DEF At, coreIO, devices, plant
  <2>2. PICK w \in Servers \ {"dispatch"} :
          /\ signal_set([pc EXCEPT !["dispatch"] = "loop"], w)
          /\ w = "send" => /\ loc["dispatch"].type \in Outgoing
                           /\ job' = [job EXCEPT !.send = IF loc["dispatch"].type = "panic"
                                                          THEN "print" ELSE loc["dispatch"].type]
          /\ w = "recv" => loc["dispatch"].type \in Incoming
                           /\ job' = [job EXCEPT !.recv = loc["dispatch"].type]
          /\ w = "pow"  => loc["dispatch"].type = "pow"
                           /\ job' = [job EXCEPT !.gain = loc["dispatch"].val]
    BY <1>5 DEF Dispatch, Servers, Outgoing, Incoming
  <2>3. HandedTo(w)
    BY <2>1, <2>2, PassedOn
  <2>4. /\ loc["dispatch"].type = core.type /\ served = NoService /\ ram.io_type = "empty"
        /\ core.type = "pow" => loc["dispatch"].val = core.arg
    BY <2>1, <2>3 DEF HandedTo, Dispatching
  <2>5. Token' /\ Posted' /\ ~irq' /\ ~ack_irq'
    BY <2>1, <2>3 DEF HandedTo, Token, Posted, Before, RequestInv
  <2>6. job \in [send : {"none", "print", "enet_send", "wireless_send"},
                recv : {"none", "scan", "enet_recv", "wireless_recv"}, gain : Data]
    BY DEF Before, IInv, DataOK
  <2>7. ASSUME w = "send", Busy(w)' PROVE Sending'
    <3>1. job'.send = Wanted
      BY <2>2, <2>4, <2>6, <2>7 DEF Wanted
    <3> QED
      BY <2>1, <2>2, <2>3, <2>4, <2>7, <3>1 DEF HandedTo, Sending, Ending, Wanted, Panicking
  <2>8. ASSUME w = "recv", Busy(w)' PROVE Receiving'
    <3>1. job'.recv = core.type
      BY <2>2, <2>4, <2>6, <2>8
    <3> QED
      BY <2>1, <2>2, <2>3, <2>4, <2>8, <3>1 DEF HandedTo, Receiving, Ending, Panicking
  <2>9. ASSUME w = "pow", Busy(w)' PROVE Measuring'
    <3>1. job'.gain = core.arg
      BY <2>2, <2>4, <2>6, <2>9
    <3> QED
      BY <2>1, <2>2, <2>3, <2>4, <2>9, <3>1 DEF HandedTo, Measuring, Ending, Panicking
  <2>10. RequestInv'
    BY <2>3, <2>5, <2>7, <2>8, <2>9 DEF HandedTo, RequestInv, Servers
  <2> QED
    BY <2>1, <2>10, Unseen DEF After
<1>6. CASE At("dispatch", "d_switch") /\ loc["dispatch"].type \notin AllTypes
  <2>1. Busy("dispatch") /\ pc["dispatch"] = "d_switch"
    BY <1>6 DEF At, Busy
  <2>2. loc["dispatch"].type = core.type /\ core.type \in AllTypes
    BY <1>0, <2>1 DEF Before, RequestInv, Token, Dispatching
  <2> QED
    BY <1>6, <2>2
<1>7. CASE mbed_printf("dispatch", "d_lockw", "d_print", "loop")
  <2>1. Busy("dispatch") /\ pc["dispatch"] \in {"d_lockw", "d_print"}
    BY <1>7 DEF mbed_printf, Lock, At, Busy
  <2> QED
    BY <2>1 DEF Before, RequestInv, Dispatching, Panicking
<1> QED
  BY <1>1, <1>2, <1>3, <1>4, <1>5, <1>6, <1>7 DEF dispatch_loop

-----------------------------------------------------------------------------
(* Panics, and the threads that have no request.                              *)

(* The core loses its power, by a step that changes nothing else it sees. *)
LEMMA PowerLost ==
    ASSUME core' = core, served' = served, ack_irq' = ack_irq, ram'.ack_val = ram.ack_val,
           power \in BOOLEAN, power' = FALSE
    PROVE  [Remote!Next]_(Remote!vars)
<1>1. CASE power
  BY <1>1 DEF Remote!Next, Remote!PowerOff
<1>2. CASE ~power
  BY <1>2, Unseen
<1> QED
  BY <1>1, <1>2

(* The last step of panic. *)
LEMMA ExitOn ==
    ASSUME Before, NEW t \in Threads, At(t, "p_down"), power_down, halted' = TRUE,
           UNCHANGED <<sched, local, shared, buffers, coreIO, devices, bus>>
    PROVE  After
<1>1. UNCHANGED <<pc, sig, loc, job, ethernet_open, ram, core, irq, ack_irq, served>>
  BY DEF sched, local, shared, coreIO, devices
<1>2. RequestInv'
  BY <1>1, Elsewhere DEF Before
<1>3. power \in BOOLEAN /\ power' = FALSE
  BY DEF power_down, Before, IInv, DataOK
<1> QED
  BY <1>1, <1>2, <1>3, PowerLost DEF After

(* panic, called by a server. *)
LEMMA PanicOn ==
    ASSUME Before, NEW t \in Servers, panic(t) \/ JtagPanic(t)
    PROVE  After
<1>1. CASE Lock(t, "tw", "p_lock", "p_print")
  <2>1. /\ pc[t] = "p_lock" /\ pc' = [pc EXCEPT ![t] = "p_print"] /\ sig' = sig
        /\ UNCHANGED <<loc, job, ethernet_open, ram, core, irq, ack_irq, served, power>>
    BY <1>1 DEF Lock, At, local, shared, coreIO, devices, plant
  <2> QED
    BY <2>1, Panics DEF Panicking
<1>2. CASE /\ At(t, "p_print") /\ tx' = "msg" /\ Unlock(t, "tw", "p_down")
           /\ UNCHANGED <<rx, local, shared, coreIO, devices, plant, bus>>
  <2>1. /\ pc[t] = "p_print" /\ pc' = [pc EXCEPT ![t] = "p_down"] /\ sig' = sig
        /\ UNCHANGED <<loc, job, ethernet_open, ram, core, irq, ack_irq, served, power>>
    BY <1>2 DEF Unlock, At, local, shared, coreIO, devices, plant
  <2> QED
    BY <2>1, Panics DEF Panicking
<1>3. CASE /\ At(t, "p_down") /\ power_down /\ halted' = TRUE
           /\ UNCHANGED <<sched, local, shared, buffers, coreIO, devices, bus>>
  BY <1>3, ExitOn DEF Servers, Threads, Workers
<1>4. CASE JtagPanic(t)
  <2>1. /\ pc[t] \in Access /\ pc' = [pc EXCEPT ![t] = "p_lock"] /\ sig' = sig
        /\ UNCHANGED <<loc, job, ethernet_open, ram, core, irq, ack_irq, served, power>>
    BY <1>4 DEF JtagPanic, InJtag, Goto, local, shared, coreIO, devices, plant
  <2> QED
    BY <2>1, Panics DEF Panicking
<1> QED
  BY <1>1, <1>2, <1>3, <1>4 DEF panic, mbed_printf

(* A step of main or of the debug thread that only concerns itself. *)
LEMMA Aside ==
    ASSUME Before, NEW t \in Threads \ Servers, NEW to, pc' = [pc EXCEPT ![t] = to], sig' = sig,
           \A u \in Servers : loc'[u] = loc[u],
           UNCHANGED <<job, ethernet_open, ram, core, irq, ack_irq, served, power>>
    PROVE  After
<1>1. pc \in [Threads -> Labels] /\ Servers \subseteq Threads
  BY DEF Before, IInv, SchedOK, Servers, Threads, Workers
<1>2. \A u \in Servers : pc'[u] = pc[u] /\ loc'[u] = loc[u] /\ (u \in sig' <=> u \in sig)
  BY <1>1
<1>3. RequestInv'
  BY <1>2, Elsewhere DEF Before
<1> QED
  BY <1>3, Unseen DEF After

(* Mutex::lock, mbed_printf and panic of main or of the debug thread. *)
LEMMA AsideCalls ==
    ASSUME Before, NEW t \in Threads \ Servers
    PROVE  /\ \A m, from, to : Lock(t, m, from, to) => After
           /\ \A from, at, to : mbed_printf(t, from, at, to) => After
           /\ panic(t) \/ JtagPanic(t) => After
<1>1. ASSUME NEW m, NEW from, NEW to, Lock(t, m, from, to) PROVE After
  BY <1>1, Aside DEF Lock, local, shared, coreIO, devices, plant
<1>2. ASSUME NEW from, NEW at, NEW to, mbed_printf(t, from, at, to) PROVE After
  <2>1. CASE Lock(t, "tw", from, at)
    BY <1>1, <2>1
  <2>2. CASE ~Lock(t, "tw", from, at)
    <3>1. /\ pc' = [pc EXCEPT ![t] = to] /\ sig' = sig /\ loc' = loc
          /\ UNCHANGED <<job, ethernet_open, ram, core, irq, ack_irq, served, power>>
      BY <1>2, <2>2 DEF mbed_printf, Unlock, local, shared, coreIO, devices, plant
    <3> QED
      BY <3>1, Aside
  <2> QED
    BY <2>1, <2>2
<1>3. CASE JtagPanic(t)
  <2>1. /\ pc' = [pc EXCEPT ![t] = "p_lock"] /\ sig' = sig /\ loc' = loc
        /\ UNCHANGED <<job, ethernet_open, ram, core, irq, ack_irq, served, power>>
    BY <1>3 DEF JtagPanic, Goto, local, shared, coreIO, devices, plant
  <2> QED
    BY <2>1, Aside
<1>4. CASE panic(t)
  <2>1. CASE mbed_printf(t, "p_lock", "p_print", "p_down")
    BY <1>2, <2>1
  <2>2. CASE ~mbed_printf(t, "p_lock", "p_print", "p_down")
    BY <1>4, <2>2, ExitOn DEF panic
  <2> QED
    BY <2>1, <2>2
<1> QED
  BY <1>1, <1>2, <1>3, <1>4

(* The debug thread: its dump does not touch the request it looks at. *)
LEMMA DebugOn ==
    ASSUME Before, debug_loop
    PROVE  After
<1>0. "debug" \in Threads \ Servers
  BY DEF Servers, Threads, Workers
<1>1. ASSUME NEW to, Goto("debug", to), loc' = loc, UNCHANGED <<shared, coreIO, devices, plant>>
      PROVE  After
  BY <1>0, <1>1, Aside DEF Goto, shared, coreIO, devices, plant
<1>2. CASE signal_wait("debug")
  <2>1. PICK to : pc' = [pc EXCEPT !["debug"] = to] /\ sig' = IF "debug" \in sig THEN sig \ {"debug"} ELSE sig
    BY <1>2 DEF signal_wait
  <2>2. \A u \in Servers : pc'[u] = pc[u] /\ (u \in sig' <=> u \in sig)
    BY <1>0, <2>1 DEF Before, IInv, SchedOK, Servers, Threads, Workers
  <2>3. UNCHANGED <<loc, job, ethernet_open, ram, core, irq, ack_irq, served, power>>
    BY <1>2 DEF signal_wait, local, shared, coreIO, devices, plant
  <2>4. RequestInv'
    BY <2>2, <2>3, Elsewhere DEF Before
  <2> QED
    BY <2>3, <2>4, Unseen DEF After
<1>3. CASE /\ At("debug", "run") /\ words' = 2 * DebugWords
           /\ Goto("debug", IF fresh.debug THEN "g_lock" ELSE "g_read")
           /\ UNCHANGED <<loc, shared, buffers, coreIO, devices, plant, bus>>
  BY <1>1, <1>3
<1>4. CASE Lock("debug", "jtag", "g_lock", "g_init")
  BY <1>0, <1>4, AsideCalls
<1>5. CASE debug_init
  <2>1. /\ pc' = [pc EXCEPT !["debug"] = "g_read"] /\ sig' = sig /\ loc' = loc
        /\ UNCHANGED <<job, ethernet_open, ram, core, irq, ack_irq, served, power>>
    BY <1>5 DEF debug_init, Unlock, local, coreIO, devices, plant
  <2> QED
    BY <1>0, <2>1, Aside
<1>6. CASE debug_print
  BY <1>0, <1>1, <1>6, AsideCalls DEF debug_print
<1> QED
  BY <1>2, <1>3, <1>4, <1>5, <1>6 DEF debug_loop

(* main: it starts the core, and when the user quits it powers it down. *)
LEMMA MainOn ==
    ASSUME Before, main
    PROVE  After
<1>0. /\ "main" \in Threads \ Servers /\ "debug" \in Threads \ Servers /\ Servers \subseteq Threads
      /\ pc \in [Threads -> Labels] /\ loc \in [Threads -> Local]
  BY DEF Servers, Threads, Workers, Before, IInv, SchedOK, DataOK
<1>1. ASSUME NEW to, Goto("main", to), UNCHANGED <<local, shared, coreIO, devices, plant>>
      PROVE  After
  BY <1>0, <1>1, Aside DEF Goto, local, shared, coreIO, devices, plant
<1>2. ASSUME NEW from, NEW at, NEW to, mbed_printf("main", from, at, to) PROVE After
  BY <1>0, <1>2, AsideCalls
<1>3. CASE \/ At("main", "m_boot") /\ EndAccess("main") /\ Goto("main", "m_lockh")
              /\ UNCHANGED <<local, shared, buffers, coreIO, devices, plant>>
           \/ loadProgram
           \/ At("main", "m_cmd") /\ loc["main"].val = "quit" /\ Goto("main", "m_kill")
              /\ UNCHANGED <<local, shared, buffers, coreIO, devices, plant, bus>>
           \/ At("main", "m_reset") /\ EndAccess("main") /\ Goto("main", "m_lockw")
              /\ UNCHANGED <<local, shared, buffers, coreIO, devices, plant>>
  BY <1>1, <1>3 DEF loadProgram
<1>4. CASE /\ At("main", "m_start") /\ core' = [core EXCEPT !.type = "none"]
           /\ Goto("main", "m_lockr")
           /\ UNCHANGED <<local, shared, buffers, ram, irq, ack_irq, devices, plant, bus>>
  <2>1. /\ pc["main"] = "m_start" /\ ~halted /\ pc' = [pc EXCEPT !["main"] = "m_lockr"] /\ sig' = sig
        /\ UNCHANGED <<loc, job, ethernet_open, ram, irq, ack_irq, served, power>>
    BY <1>4 DEF At, Runnable, Goto, local, shared, devices, plant
  <2>2. core.type = "off" /\ core'.type = "none" /\ power
    BY <1>4, <2>1 DEF Before, QuitInv, StartInv, IInv, DataOK
  <2>3. "off" \notin AllTypes /\ "none" \notin AllTypes
    BY DEF AllTypes
  <2>4. ~irq /\ ~ack_irq /\ \A u \in Servers : ~Busy(u)
    BY <2>2, <2>3 DEF Before, RequestInv, Token
  <2>5. \A u \in Servers : ~Busy(u)' /\ u \notin sig'
    BY <1>0, <2>1, <2>4 DEF Busy
  <2>6. Posted'
    BY <2>1, <2>2, <2>3 DEF Posted, Outgoing, Before, RequestInv
  <2>7. RequestInv'
    BY <2>1, <2>4, <2>5, <2>6 DEF RequestInv, Token, Servers
  <2> QED
    BY <2>1, <2>2, <2>3, <2>7 DEF After, Remote!Next, Remote!Ask
<1>5. CASE mbed_scanf("main", "m_lockr", "m_read", "m_cmd")
  <2>1. CASE Lock("main", "tr", "m_lockr", "m_read")
    BY <1>0, <2>1, AsideCalls
  <2>2. CASE ~Lock("main", "tr", "m_lockr", "m_read")
    <3>1. /\ pc' = [pc EXCEPT !["main"] = "m_cmd"] /\ sig' = sig
          /\ loc' = [loc EXCEPT !["main"].val = line]
          /\ UNCHANGED <<job, ethernet_open, ram, core, irq, ack_irq, served, power>>
      BY <1>5, <2>2 DEF mbed_scanf, Unlock, shared, coreIO, plant
    <3>2. \A u \in Servers : loc'[u] = loc[u]
      BY <1>0, <3>1
    <3> QED
      BY <1>0, <3>1, <3>2, Aside
  <2> QED
    BY <2>1, <2>2
<1>6. CASE /\ At("main", "m_cmd") /\ loc["main"].val # "quit"
           /\ signal_set([pc EXCEPT !["main"] = "m_lockr"], "debug")
           /\ loc' = [loc EXCEPT !["main"] = NoLocal]
           /\ UNCHANGED <<words, shared, buffers, coreIO, devices, plant, bus>>
  <2>1. UNCHANGED <<job, ethernet_open, ram, core, irq, ack_irq, served, power>>
    BY <1>6 DEF shared, coreIO, devices, plant
  <2>2. /\ pc' = [pc EXCEPT !["main"] = "m_lockr", !["debug"] = "run"]
           \/ pc' = [pc EXCEPT !["main"] = "m_lockr"]
        /\ sig' = sig \/ sig' = sig \cup {"debug"}
    BY <1>6, Zenon DEF signal_set
  <2>3. \A u \in Servers : pc'[u] = pc[u] /\ loc'[u] = loc[u] /\ (u \in sig' <=> u \in sig)
    BY <1>0, <1>6, <2>2
  <2>4. RequestInv'
    BY <2>1, <2>3, Elsewhere DEF Before
  <2> QED
    BY <2>1, <2>4, Unseen DEF After
<1>7. ASSUME NEW u, terminate(u) PROVE After
  <2>1. PICK to : pc' = [pc EXCEPT !["main"] = to]
    BY <1>7 DEF terminate
  <2>2. sig' = sig /\ UNCHANGED <<loc, job, ethernet_open, ram, core, irq, ack_irq, served, power>>
    BY <1>7 DEF terminate, local, shared, coreIO, devices, plant
  <2> QED
    BY <1>0, <2>1, <2>2, Aside
<1>8. CASE /\ At("main", "m_down") /\ power_down /\ Goto("main", "m_lockw2")
           /\ UNCHANGED <<halted, local, shared, buffers, coreIO, devices, bus>>
  <2>1. /\ pc' = [pc EXCEPT !["main"] = "m_lockw2"] /\ sig' = sig /\ power' = FALSE
        /\ UNCHANGED <<loc, job, ethernet_open, ram, core, irq, ack_irq, served>>
    BY <1>8 DEF Goto, power_down, local, shared, coreIO, devices
  <2>2. \A u \in Servers : pc'[u] = pc[u] /\ loc'[u] = loc[u] /\ (u \in sig' <=> u \in sig)
    BY <1>0, <2>1
  <2>3. RequestInv'
    BY <2>1, <2>2, Elsewhere DEF Before
  <2>4. power \in BOOLEAN
    BY DEF Before, IInv, DataOK
  <2> QED
    BY <2>1, <2>3, <2>4, PowerLost DEF After
<1> QED
  BY <1>2, <1>3, <1>4, <1>5, <1>6, <1>7, <1>8 DEF main

-----------------------------------------------------------------------------
(* The interrupt and the environment.                                         *)

(* The interrupt handler passes the request to the dispatcher, or panics. *)
LEMMA InterruptOn ==
    ASSUME Before, req_intr_handler
    PROVE  After
<1>0. /\ pc \in [Threads -> Labels] /\ Servers \subseteq Threads /\ "dispatch" \in Servers
      /\ power \in BOOLEAN
  BY DEF Before, IInv, SchedOK, DataOK, Servers, Threads, Workers
<1>1. /\ irq /\ irq' = FALSE
      /\ UNCHANGED <<loc, job, ethernet_open, ram, core, ack_irq, served>>
  BY DEF req_intr_handler, local, devices
<1>2. /\ core.type \in AllTypes /\ ~ack_irq /\ Unread
      /\ \A u \in Servers : ~Busy(u)
  BY <1>1 DEF Before, RequestInv, Token
<1>3. Posted'
  BY <1>1 DEF Before, RequestInv, Posted
<1>4. CASE signal_set(pc, "dispatch") /\ UNCHANGED plant
  <2>1. /\ \A u \in Servers \ {"dispatch"} : ~Busy(u)' /\ u \notin sig'
        /\ Busy("dispatch")' => pc'["dispatch"] \in {"loop", "run"}
        /\ "dispatch" \in sig' => pc'["dispatch"] = "loop"
    <3>1. CASE "dispatch" \in alive /\ pc["dispatch"] = "wait"
      <4>1. pc' = [pc EXCEPT !["dispatch"] = "run"] /\ sig' = sig
        BY <1>4, <3>1, Zenon DEF signal_set
      <4> QED
        BY <1>0, <1>2, <4>1 DEF Busy
    <3>2. CASE ~("dispatch" \in alive /\ pc["dispatch"] = "wait")
      <4>1. pc' = pc /\ sig' = IF "dispatch" \in alive THEN sig \cup {"dispatch"} ELSE sig
        BY <1>4, <3>2 DEF signal_set
      <4> QED
        BY <1>0, <1>2, <3>2, <4>1 DEF Busy
    <3> QED
      BY <3>1, <3>2
  <2>2. Token'
    BY <1>0, <1>1, <1>2, <2>1 DEF Token
  <2>3. Busy("dispatch")' => Dispatching'
    BY <1>1, <1>2, <2>1 DEF Dispatching, Unread
  <2>4. RequestInv'
    BY <1>1, <1>2, <1>3, <2>1, <2>2, <2>3 DEF RequestInv, Servers
  <2> QED
    BY <1>1, <1>4, <2>4, Unseen DEF After, plant
<1>5. CASE power_down /\ UNCHANGED sched
  <2>1. pc' = pc /\ sig' = sig
    BY <1>5 DEF sched
  <2>2. \A u \in Servers : ~Busy(u)' /\ u \notin sig'
    BY <1>2, <2>1 DEF Busy
  <2>3. RequestInv'
    BY <1>1, <1>2, <1>3, <2>2 DEF RequestInv, Token, Servers
  <2> QED
    BY <1>0, <1>1, <1>5, <2>3, PowerLost DEF After, power_down
<1> QED
  BY <1>4, <1>5 DEF req_intr_handler

(* The core asks, takes its answer; the user types. *)
LEMMA EnvironmentOn ==
    ASSUME Before, CoreRequest \/ CoreAck \/ UserLine
    PROVE  After
<1>0. /\ ram \in RAM /\ core \in [type : AllTypes \cup {"off", "none"}, arg : Data]
      /\ "none" \notin AllTypes /\ "off" \notin AllTypes
  BY DEF Before, IInv, DataOK, AllTypes
<1>1. CASE CoreRequest
  <2>1. PICK ty \in ReqTypes :
          \E arg \in CASE ty \in {"panic", "print", "enet_send", "wireless_send"} -> Texts
                        [] ty = "pow" -> Gains
                        [] OTHER -> {"none"} :
            /\ core' = [type |-> ty, arg |-> arg]
            /\ ram' = [ram EXCEPT !.io_type = ty,
                                  !.wbuf = IF arg \in Texts THEN arg ELSE @,
                                  !.rbuf = IF arg \in Gains THEN arg ELSE @]
    BY <1>1 DEF CoreRequest
  <2>2. PICK arg \in CASE ty \in {"panic", "print", "enet_send", "wireless_send"} -> Texts
                        [] ty = "pow" -> Gains
                        [] OTHER -> {"none"} :
            /\ core' = [type |-> ty, arg |-> arg]
            /\ ram' = [ram EXCEPT !.io_type = ty,
                                  !.wbuf = IF arg \in Texts THEN arg ELSE @,
                                  !.rbuf = IF arg \in Gains THEN arg ELSE @]
    BY <2>1
  <2>3. /\ ty \in Outgoing => arg \in Texts
        /\ ty = "pow" => arg \in Gains
    BY <2>2 DEF Outgoing
  <2>4. /\ core'.type = ty /\ core'.arg = arg /\ ram'.io_type = ty
        /\ arg \in Texts => ram'.wbuf = arg
        /\ arg \in Gains => ram'.rbuf = arg
        /\ ram'.ack_val = ram.ack_val
    BY <1>0, <2>2 DEF RAM
  <2>5. ty \in AllTypes
    BY ConstantsAssumption
  <2>6. /\ power /\ core.type = "none" /\ irq' = TRUE
        /\ UNCHANGED <<pc, sig, ack_irq, served, power>>
    BY <1>1 DEF CoreRequest, sched, devices, plant
  <2>7. ~ack_irq /\ \A u \in Servers : ~Busy(u) /\ u \notin sig
    BY <1>0, <2>6 DEF Before, RequestInv, Token, Busy
  <2>8. served = NoService
    BY <1>0, <2>6 DEF Before, RequestInv, Posted
  <2>9. \A u \in Servers : ~Busy(u)' /\ u \notin sig'
    BY <2>6, <2>7 DEF Busy
  <2>10. Token' /\ Posted' /\ Unread'
    BY <2>3, <2>4, <2>5, <2>6, <2>7, <2>8, <2>9 DEF Token, Posted, Unread
  <2>11. RequestInv'
    BY <2>6, <2>7, <2>9, <2>10 DEF RequestInv, Servers
  <2> QED
    BY <1>0, <2>4, <2>5, <2>6, <2>11 DEF After, Remote!Next, Remote!Ask
<1>2. CASE CoreAck
  <2>1. /\ power /\ ack_irq /\ ack_irq' = FALSE /\ core' = [type |-> "none", arg |-> "none"]
        /\ served' = NoService
        /\ UNCHANGED <<pc, sig, irq, power>>
    BY <1>2 DEF CoreAck, sched, plant
  <2>2. ~irq /\ \A u \in Servers : ~Busy(u)
    BY <2>1 DEF Before, RequestInv, Token
  <2>3. \A u \in Servers : ~Busy(u)' /\ u \notin sig'
    BY <2>1, <2>2 DEF Busy
  <2>4. Token' /\ Posted'
    BY <1>0, <2>1, <2>2, <2>3 DEF Token, Posted, Outgoing
  <2>5. RequestInv'
    BY <2>1, <2>2, <2>3, <2>4 DEF RequestInv, Servers
  <2> QED
    BY <2>1, <2>5 DEF After, Remote!Next, Remote!Take
<1>3. CASE UserLine
  <2>1. UNCHANGED <<pc, sig, loc, job, ethernet_open, ram, core, irq, ack_irq, served, power>>
    BY <1>3 DEF UserLine, sched, local, shared, coreIO, plant
  <2>2. RequestInv'
    BY <2>1, Elsewhere DEF Before
  <2> QED
    BY <2>1, <2>2, Unseen DEF After
<1> QED
  BY <1>1, <1>2, <1>3

-----------------------------------------------------------------------------
(* Power.                                                                     *)

(* No worker moves main, ends a thread, changes what the core asks or powers  *)
(* down, other than by exit.                                                  *)
LEMMA WorkerAside ==
    ASSUME IInv, NEW t \in Workers, Code(t) \/ JtagPanic(t)
    PROVE  pc'["main"] = pc["main"] /\ alive' = alive /\ core' = core /\ (UNCHANGED plant \/ halted')
<1>0. pc \in [Threads -> Labels] /\ t \in Threads /\ t # "main"
  BY DEF IInv, SchedOK, Threads, Workers
<1> DEFINE Alone(x) == /\ \E to : pc' = [pc EXCEPT ![x] = to]
                       /\ alive' = alive /\ core' = core /\ UNCHANGED plant
<1>1. Alone(t) => pc'["main"] = pc["main"] /\ alive' = alive /\ core' = core /\ UNCHANGED plant
  BY <1>0
<1>2. /\ \A m, from, to : Lock(t, m, from, to) => Alone(t)
      /\ \A from, at, to : mbed_printf(t, from, at, to) => Alone(t)
      /\ \A from, at, to : jtag_writebuffer(t, from, at, to) => Alone(t)
      /\ \A v, from, at, to : jtag_readbuffer(t, v, from, at, to) => Alone(t)
      /\ signal_wait(t) => Alone(t)
      /\ \A ty, v, to : Start(t, ty, v, to) => Alone(t)
      /\ acknowledge(t) => Alone(t)
  BY DEF Lock, mbed_printf, jtag_writebuffer, jtag_readbuffer, signal_wait, Start, acknowledge, Goto, Unlock, coreIO
<1>3. CASE panic(t) \/ JtagPanic(t)
  <2>1. CASE mbed_printf(t, "p_lock", "p_print", "p_down")
    BY <1>1, <1>2, <2>1
  <2>2. CASE JtagPanic(t)
    BY <1>1, <2>2 DEF JtagPanic, Goto, coreIO
  <2> QED
    BY <1>3, <2>1, <2>2 DEF panic, sched, coreIO
<1>4. CASE t = "send" /\ data_send_loop
  BY <1>1, <1>2, <1>4 DEF data_send_loop, term_printf, enet_send, Goto, Unlock, coreIO
<1>5. CASE t = "recv" /\ data_recv_loop
  BY <1>1, <1>2, <1>5 DEF data_recv_loop, term_scanf, enet_recv, Goto, Unlock, coreIO
<1>6. CASE t = "pow" /\ read_pow_loop
  BY <1>1, <1>2, <1>6 DEF read_pow_loop, read_pow, Goto, Unlock, coreIO
<1>7. CASE t = "debug" /\ debug_loop
  BY <1>1, <1>2, <1>7 DEF debug_loop, debug_init, debug_print, Goto, Unlock, coreIO
<1>8. CASE t = "dispatch" /\ dispatch_loop
  <2>1. ASSUME NEW u \in {"send", "recv", "pow"}, UNCHANGED plant,
               signal_set([pc EXCEPT !["dispatch"] = "loop"], u)
        PROVE  pc'["main"] = pc["main"] /\ alive' = alive /\ UNCHANGED plant
    <3>1. /\ \/ pc' = [pc EXCEPT !["dispatch"] = "loop", ![u] = "run"]
             \/ pc' = [pc EXCEPT !["dispatch"] = "loop"]
          /\ alive' = alive
      BY <2>1, Zenon DEF signal_set
    <3> QED
      BY <1>0, <2>1, <3>1 DEF Threads, Workers
  <2>2. CASE /\ At("dispatch", "d_switch") /\ loc["dispatch"].type \in AllTypes
             /\ Dispatch(loc["dispatch"].type, loc["dispatch"].val, [pc EXCEPT !["dispatch"] = "loop"])
             /\ UNCHANGED <<coreIO, plant>>
    BY <2>1, <2>2 DEF Dispatch, coreIO
  <2> QED
    BY <1>1, <1>2, <1>8, <2>2 DEF dispatch_loop, Goto, Unlock, coreIO
<1> QED
  BY <1>0, <1>3, <1>4, <1>5, <1>6, <1>7, <1>8 DEF Code

(* Where main is when every worker is dead, and before the core runs. *)
Closing == {"m_reset", "m_lockw", "m_print", "m_down", "m_lockw2", "m_print2", "m_done"}
Booting == {"m_boot", "m_lockh", "m_hello", "m_load", "m_lockl", "m_loaded", "m_start"}

(* main powers down after it has terminated the last worker. *)
LEMMA MainQuits ==
    ASSUME IInv, QuitInv, Code("main") \/ JtagPanic("main")
    PROVE  QuitInv'
<1>0. pc \in [Threads -> Labels] /\ "main" \in Threads /\ alive \subseteq Threads
  BY DEF IInv, SchedOK, Threads
<1>1. ASSUME ~halted, alive' = alive, power' = power,
             pc'["main"] \in Closing => pc["main"] \in Closing,
             pc["main"] \in {"m_lockw2", "m_print2", "m_done"} =>
                pc'["main"] \in {"m_lockw2", "m_print2", "m_done"}
      PROVE  QuitInv'
  BY <1>1 DEF QuitInv, Closing
<1>2. ASSUME NEW from, NEW at, NEW to, mbed_printf("main", from, at, to),
             <<from, at, to>> \in {<<"m_lockh", "m_hello", "m_load">>, <<"m_lockl", "m_loaded", "m_start">>,
                                   <<"m_lockw", "m_print", "m_down">>, <<"m_lockw2", "m_print2", "m_done">>,
                                   <<"p_lock", "p_print", "p_down">>}
      PROVE  QuitInv'
  <2>1. CASE Lock("main", "tw", from, at)
    <3>1. /\ pc["main"] = from /\ ~halted /\ pc'["main"] = at
          /\ alive' = alive /\ power' = power
      BY <1>0, <2>1 DEF Lock, At, Runnable, plant
    <3>2. /\ at \in Closing => from \in Closing
          /\ from \in {"m_lockw2", "m_print2", "m_done"} => at \in {"m_lockw2", "m_print2", "m_done"}
      BY <1>2 DEF Closing
    <3> QED
      BY <1>1, <3>1, <3>2
  <2>2. CASE ~Lock("main", "tw", from, at)
    <3>1. /\ pc["main"] = at /\ ~halted /\ pc'["main"] = to
          /\ alive' = alive /\ power' = power
      BY <1>0, <1>2, <2>2 DEF mbed_printf, Unlock, At, Runnable, plant
    <3>2. /\ to \in Closing => at \in Closing
          /\ at \in {"m_lockw2", "m_print2", "m_done"} => to \in {"m_lockw2", "m_print2", "m_done"}
      BY <1>2 DEF Closing
    <3> QED
      BY <1>1, <3>1, <3>2
  <2> QED
    BY <2>1, <2>2
<1>3. CASE JtagPanic("main")
  BY <1>0, <1>1, <1>3 DEF JtagPanic, InJtag, Access, Runnable, Goto, plant, Closing
<1>4. CASE At("main", "p_down") /\ power_down /\ halted' = TRUE
           /\ UNCHANGED <<sched, local, shared, buffers, coreIO, devices, bus>>
  BY <1>4 DEF QuitInv, sched
<1>5. ASSUME NEW from, NEW to, At("main", from), Goto("main", to), UNCHANGED plant,
             <<from, to>> \in {<<"m_boot", "m_lockh">>, <<"m_load", "m_lockl">>, <<"m_start", "m_lockr">>,
                               <<"m_cmd", "m_kill">>, <<"m_reset", "m_lockw">>}
      PROVE  QuitInv'
  <2>1. /\ to \in Closing => from \in Closing
        /\ from \notin {"m_lockw2", "m_print2", "m_done"}
    BY <1>5 DEF Closing
  <2>2. /\ pc["main"] = from /\ ~halted /\ pc'["main"] = to
        /\ alive' = alive /\ power' = power
    BY <1>0, <1>5 DEF At, Runnable, Goto, plant
  <2> QED
    BY <1>1, <2>1, <2>2
<1>6. CASE mbed_scanf("main", "m_lockr", "m_read", "m_cmd")
  BY <1>0, <1>1, <1>6 DEF mbed_scanf, Lock, Unlock, At, Runnable, plant, Closing
<1>7. CASE /\ At("main", "m_cmd") /\ signal_set([pc EXCEPT !["main"] = "m_lockr"], "debug")
           /\ UNCHANGED plant
  <2>1. /\ \/ pc' = [pc EXCEPT !["main"] = "m_lockr", !["debug"] = "run"]
           \/ pc' = [pc EXCEPT !["main"] = "m_lockr"]
        /\ alive' = alive
    BY <1>7, Zenon DEF signal_set
  <2>2. pc["main"] = "m_cmd" /\ ~halted /\ pc'["main"] = "m_lockr" /\ power' = power
    BY <1>0, <1>7, <2>1 DEF At, Runnable, plant
  <2> QED
    BY <2>1, <2>2 DEF QuitInv
<1>8. ASSUME At("main", "m_kill"), NEW k \in 1..Len(KillOrder), KillOrder[k] \in alive,
             \A j \in 1..(k - 1) : KillOrder[j] \notin alive, terminate(KillOrder[k])
      PROVE  QuitInv'
  <2>1. /\ pc["main"] = "m_kill" /\ ~halted /\ power' = power /\ alive' = alive \ {KillOrder[k]}
        /\ pc' = [pc EXCEPT !["main"] = IF KillOrder[k] = "debug" THEN "m_reset" ELSE "m_kill"]
    BY <1>8 DEF At, Runnable, terminate, plant
  <2>2. KillOrder[k] = "debug" => alive' \subseteq {"main"}
    <3>1. /\ Len(KillOrder) = 5 /\ KillOrder[1] = "dispatch" /\ KillOrder[2] = "send"
          /\ KillOrder[3] = "recv" /\ KillOrder[4] = "pow" /\ KillOrder[5] = "debug"
      BY DEF KillOrder
    <3>2. KillOrder[k] = "debug" => k = 5
      BY <1>8, <3>1
    <3>3. k = 5 => {"dispatch", "send", "recv", "pow"} \cap alive = {}
      BY <1>8, <3>1
    <3> QED
      BY <1>0, <2>1, <3>2, <3>3 DEF Threads, Workers
  <2>3. pc'["main"] = IF KillOrder[k] = "debug" THEN "m_reset" ELSE "m_kill"
    BY <1>0, <2>1
  <2> QED
    BY <2>1, <2>2, <2>3 DEF QuitInv
<1>9. CASE At("main", "m_down") /\ power_down /\ Goto("main", "m_lockw2") /\ UNCHANGED halted
  <2>1. pc["main"] = "m_down" /\ pc'["main"] = "m_lockw2" /\ alive' = alive
    BY <1>0, <1>9 DEF At, Goto
  <2> QED
    BY <2>1 DEF QuitInv
<1>10. CASE panic("main")
  BY <1>2, <1>4, <1>10 DEF panic
<1>11. CASE main
  <2>1. CASE loadProgram
    BY <1>5, <2>1 DEF loadProgram
  <2>2. CASE \E k \in 1..Len(KillOrder) :
               /\ At("main", "m_kill") /\ KillOrder[k] \in alive
               /\ \A j \in 1..(k - 1) : KillOrder[j] \notin alive
               /\ terminate(KillOrder[k])
    BY <1>8, <2>2
  <2> QED
    BY <1>2, <1>5, <1>6, <1>7, <1>9, <1>11, <2>1, <2>2 DEF main
<1> QED
  BY <1>3, <1>10, <1>11 DEF Code

(* Nothing is powered down while a worker can act, whatever the constants. *)
LEMMA QuitStep == IInv /\ QuitInv /\ [Next]_vars => QuitInv'
<1> SUFFICES ASSUME IInv, QuitInv, [Next]_vars PROVE QuitInv'
  OBVIOUS
<1>1. ASSUME pc'["main"] = pc["main"], alive' = alive, UNCHANGED plant \/ halted' PROVE QuitInv'
  BY <1>1 DEF QuitInv, plant
<1>2. ASSUME NEW t \in Threads, Code(t) \/ JtagPanic(t) PROVE QuitInv'
  <2>1. CASE t = "main"
    BY <1>2, <2>1, MainQuits
  <2>2. CASE t # "main"
    BY <1>1, <1>2, <2>2, WorkerAside DEF Threads
  <2> QED
    BY <2>1, <2>2
<1>3. CASE req_intr_handler
  <2>1. CASE signal_set(pc, "dispatch") /\ UNCHANGED plant
    <3>1. /\ pc' = [pc EXCEPT !["dispatch"] = "run"] \/ pc' = pc
          /\ alive' = alive
      BY <2>1, Zenon DEF signal_set
    <3>2. pc'["main"] = pc["main"]
      BY <3>1 DEF IInv, SchedOK, Threads, Workers
    <3> QED
      BY <1>1, <2>1, <3>1, <3>2
  <2>2. CASE UNCHANGED sched /\ halted'
    BY <1>1, <2>2 DEF sched
  <2> QED
    BY <1>3, <2>1, <2>2 DEF req_intr_handler
<1>4. CASE CoreRequest \/ CoreAck \/ UserLine \/ UNCHANGED vars
  BY <1>1, <1>4 DEF CoreRequest, CoreAck, UserLine, vars, sched
<1> QED
  BY <1>2, <1>3, <1>4 DEF Next

(* Only main starts the core. *)
LEMMA StartStep ==
    ASSUME Before, [Next]_vars
    PROVE  StartInv'
<1>0. pc \in [Threads -> Labels] /\ "main" \in Threads
  BY DEF Before, IInv, SchedOK, Threads
<1>1. ASSUME pc'["main"] \in Booting => pc["main"] \in Booting, core' = core PROVE StartInv'
  BY <1>1 DEF Before, StartInv, Booting
<1>2. ASSUME NEW t \in Workers, Code(t) \/ JtagPanic(t) PROVE StartInv'
  BY <1>1, <1>2, WorkerAside DEF Before
<1>3. CASE panic("main") \/ JtagPanic("main")
  <2>1. core' = core /\ (pc' = pc \/ \E to \in Panicking : pc' = [pc EXCEPT !["main"] = to])
    BY <1>3 DEF panic, JtagPanic, mbed_printf, Lock, Unlock, Goto, Panicking, sched, coreIO
  <2> QED
    BY <1>0, <1>1, <2>1 DEF Panicking, Booting
<1>4. CASE main
  <2>1. ASSUME pc["main"] \in Booting, pc'["main"] \in Booting PROVE core' = core
    BY <1>0, <1>4, <2>1
    DEF main, At, mbed_printf, mbed_scanf, loadProgram, Lock, Unlock, Goto, terminate, Booting, coreIO
  <2>2. pc["main"] \notin Booting => pc'["main"] \notin Booting
    <3>1. ASSUME At("main", "m_cmd"), signal_set([pc EXCEPT !["main"] = "m_lockr"], "debug")
          PROVE  pc'["main"] = "m_lockr"
      <4>1. \/ pc' = [pc EXCEPT !["main"] = "m_lockr", !["debug"] = "run"]
            \/ pc' = [pc EXCEPT !["main"] = "m_lockr"]
        BY <3>1, Zenon DEF signal_set
      <4> QED
        BY <1>0, <4>1
    <3> QED
      BY <1>0, <1>4, <3>1
      DEF main, At, mbed_printf, mbed_scanf, loadProgram, Lock, Unlock, Goto, terminate, Booting
  <2> QED
    BY <1>1, <2>1, <2>2 DEF StartInv, Booting
<1>5. CASE req_intr_handler
  <2>1. core' = core /\ (pc' = [pc EXCEPT !["dispatch"] = "run"] \/ pc' = pc)
    BY <1>5, Zenon DEF req_intr_handler, signal_set, sched
  <2>2. pc'["main"] = pc["main"]
    BY <1>0, <2>1
  <2> QED
    BY <1>1, <2>1, <2>2
<1>6. CASE CoreRequest \/ CoreAck
  <2>1. pc' = pc /\ core.type # "off"
    BY <1>6 DEF CoreRequest, CoreAck, sched, Before, RequestInv, Token, AllTypes
  <2> QED
    BY <2>1 DEF Before, StartInv
<1>7. CASE UserLine \/ UNCHANGED vars
  BY <1>1, <1>7 DEF UserLine, vars, sched, coreIO
<1> QED
  BY <1>2, <1>3, <1>4, <1>5, <1>6, <1>7 DEF Next, Code, Threads

-----------------------------------------------------------------------------
(* The theorems.                                                              *)

(* Every step keeps the invariant and is a step of Service. *)
LEMMA EveryStep ==
    ASSUME Before, [Next]_vars
    PROVE  After
<1>1. ASSUME NEW t \in Servers, panic(t) \/ JtagPanic(t) PROVE After
  BY <1>1, PanicOn
<1>2. ASSUME NEW t \in {"main", "debug"}, panic(t) \/ JtagPanic(t) PROVE After
  <2>1. t \in Threads \ Servers
    BY DEF Servers, Threads, Workers
  <2> QED
    BY <1>2, <2>1, AsideCalls
<1>3. ASSUME NEW t \in Threads, Code(t) \/ JtagPanic(t) PROVE After
  BY <1>1, <1>2, <1>3, MainOn, DispatchOn, SendOn, ReceiveOn, MeasureOn, DebugOn
  DEF Code, Threads, Workers, Servers
<1>4. CASE UNCHANGED vars
  <2>1. UNCHANGED <<pc, sig, loc, job, ethernet_open, ram, core, irq, ack_irq, served, power>>
    BY <1>4 DEF vars, sched, local, shared, coreIO, devices, plant
  <2>2. RequestInv'
    BY <2>1, Elsewhere DEF Before
  <2> QED
    BY <2>1, <2>2, Unseen DEF After
<1> QED
  BY <1>3, <1>4, InterruptOn, EnvironmentOn DEF Next

(* The firmware starts without a request, and so does Service. *)
LEMMA FirstState == Init => RequestInv /\ QuitInv /\ StartInv /\ Remote!Init
<1> SUFFICES ASSUME Init PROVE RequestInv /\ QuitInv /\ StartInv /\ Remote!Init
  OBVIOUS
<1>1. /\ \A u \in Servers : pc[u] = "loop" /\ u \notin sig
      /\ pc["main"] = "m_boot"
  BY DEF Init, Servers, Threads, Workers
<1>2. core.type = "off" /\ ~irq /\ ~ack_irq /\ served = NoService /\ power
  BY DEF Init
<1>3. core.type \notin AllTypes
  BY <1>2 DEF AllTypes
<1>4. \A u \in Servers : ~Busy(u)
  BY <1>1 DEF Busy
<1>5. RequestInv
  BY <1>1, <1>2, <1>4 DEF RequestInv, Token, Posted, Outgoing, Servers
<1>6. QuitInv /\ StartInv
  BY <1>1, <1>2 DEF QuitInv, StartInv
<1>7. Remote!Init
  BY <1>2, <1>3 DEF Init, Remote!Init
<1> QED
  BY <1>5, <1>6, <1>7

(* Whatever the constants are, main has the chip for itself when it powers it  *)
(* down after a quit.                                                          *)
THEOREM PowerDownSafe == Spec => []QuitAlone
<1>1. Init => QuitInv
  BY FirstState
<1>2. IInv /\ QuitInv /\ [Next]_vars => QuitInv'
  BY QuitStep
<1>3. QuitInv => QuitAlone
  BY DEF QuitInv, QuitAlone, At, Others, InJtag, Runnable
<1> QED
  BY <1>1, <1>2, <1>3, Invariance, PTL DEF Spec

(* Without garbling the request is in one place, known to whoever has it.      *)
THEOREM RequestKnown ==
    ASSUME ~Garbles
    PROVE  Spec => []Before
<1>1. Init => Before
  BY FirstState, InitInv DEF Before
<1>2. Before /\ [Next]_vars => Before'
  BY EveryStep, StartStep, QuitStep, NextInv DEF Before, After
<1> QED
  BY <1>1, <1>2, PTL DEF Spec

(* Without garbling every acknowledgement answers the request of the core.     *)
THEOREM AnswersRequest ==
    ASSUME ~Garbles
    PROVE  Spec => []AckMatches
<1>1. Before => AckMatches
  <2> SUFFICES ASSUME Before, ack_irq PROVE AckMatches
    BY DEF AckMatches
  <2>1. core.type \in AllTypes /\ Answered
    BY DEF Before, RequestInv, Token
  <2> QED
    BY <2>1 DEF AckMatches, Answered, Outcome, Wanted, AllTypes
<1> QED
  BY <1>1, RequestKnown, PTL

(* The job words change only while the worker that reads them has no work.     *)
LEMMA JobWritten ==
    ASSUME [Next]_vars
    PROVE  job' = job \/ pc["dispatch"] = "d_switch"
<1>1. ASSUME NEW t
      PROVE  /\ panic(t) \/ JtagPanic(t) \/ acknowledge(t) \/ signal_wait(t) => job' = job
             /\ \A m, from, to : Lock(t, m, from, to) => job' = job
             /\ \A from, at, to : mbed_printf(t, from, at, to) => job' = job
             /\ \A from, at, to : jtag_writebuffer(t, from, at, to) => job' = job
             /\ \A v, from, at, to : jtag_readbuffer(t, v, from, at, to) => job' = job
             /\ \A from, at, to : mbed_scanf(t, from, at, to) => job' = job
             /\ \A ty, v, to : Start(t, ty, v, to) => job' = job
  BY DEF panic, JtagPanic, acknowledge, signal_wait, Lock, mbed_printf, jtag_writebuffer, jtag_readbuffer,
         mbed_scanf, Start, shared
<1>2. CASE dispatch_loop
  BY <1>1, <1>2 DEF dispatch_loop, At, shared
<1>3. CASE data_send_loop \/ data_recv_loop \/ read_pow_loop
  BY <1>1, <1>3 DEF data_send_loop, data_recv_loop, read_pow_loop, term_printf, term_scanf, enet_send,
                    enet_recv, read_pow, shared
<1>4. CASE debug_loop \/ main
  BY <1>1, <1>4 DEF debug_loop, debug_init, debug_print, main, loadProgram, terminate, shared
<1>5. CASE req_intr_handler \/ CoreRequest \/ CoreAck \/ UserLine \/ UNCHANGED vars
  BY <1>5 DEF req_intr_handler, CoreRequest, CoreAck, UserLine, vars, shared
<1> QED
  BY <1>1, <1>2, <1>3, <1>4, <1>5 DEF Next, Code

(* Without garbling a worker never finds its job changed under its hands.      *)
THEOREM JobsSafe ==
    ASSUME ~Garbles
    PROVE  Spec => JobStable
<1> DEFINE Step == /\ job'.send # job.send => pc["send"] \in {"loop", "wait"} /\ "send" \notin sig
                   /\ job'.recv # job.recv => pc["recv"] \in {"loop", "wait"} /\ "recv" \notin sig
                   /\ job'.gain # job.gain => pc["pow"] \in {"loop", "wait"} /\ "pow" \notin sig
<1>1. Before /\ [Next]_vars => Step
  <2> SUFFICES ASSUME Before, [Next]_vars, job' # job PROVE Step
    OBVIOUS
  <2>1. Busy("dispatch")
    BY JobWritten DEF Busy
  <2>2. ~Busy("send") /\ ~Busy("recv") /\ ~Busy("pow")
    BY <2>1 DEF Before, RequestInv, Token, Servers
  <2> QED
    BY <2>2 DEF Busy
<1>2. Before /\ [Next]_vars => [Step]_vars
  BY <1>1
<1> QED
  BY <1>2, RequestKnown, PTL DEF Spec, JobStable

(* Without garbling the firmware implements Service: it serves each request    *)
(* at most once, by the device it is for, with the argument of the core, and   *)
(* answers it with what the device did.                                        *)
THEOREM Refinement ==
    ASSUME ~Garbles
    PROVE  Spec => ImplementsService
<1>1. Init => Remote!Init
  BY FirstState
<1>2. Before /\ [Next]_vars => [Remote!Next]_(Remote!vars)
  BY EveryStep DEF After
<1> QED
  BY <1>1, <1>2, RequestKnown, PTL DEF Spec, ImplementsService, Remote!Spec

=============================================================================
