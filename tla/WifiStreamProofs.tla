------------------------- MODULE WifiStreamProofs --------------------------
(***************************************************************************)
(* The ring buffer between the interrupt handler and the receive thread     *)
(* loses nothing while it is not asked to hold more than its capacity,      *)
(* although it has no lock and read is outside the ring for a moment, and   *)
(* it keeps the order of what it does not lose.                             *)
(***************************************************************************)
EXTENDS WifiStream, TLAPS

(* The slot k places behind slot r. *)
Slot(r, k) == IF r + k >= size THEN r + k - size ELSE r + k

(* Characters taken out of the ring, where the oldest one is, and how many    *)
(* there are.  Between Increment and Modulo the first is taken out although   *)
(* read may be one past the end.                                              *)
Gone == IF pc = "inc" THEN Len(data) - 1 ELSE Len(data)
Oldest == IF pc = "mod" THEN Slot(reg, 1) ELSE read
Count == arrived - Gone

(* Types, and what the thread knows between its accesses. *)
Local ==
    /\ pc \in {"idle", "look", "round", "inc", "mod"}
    /\ write \in 0 .. Length /\ reg \in Nat /\ arrived \in Nat /\ data \in Seq(Nat)
    /\ buf \in [0 .. size -> Nat]
    /\ pc # "mod" => read \in 0 .. Length
    /\ pc \in {"inc", "mod"} => reg \in 0 .. Length
    /\ pc = "inc" => read = reg
    /\ pc = "mod" => read = reg + 1
    /\ pc = "inc" => Len(data) > 0 /\ Count > 0

(* The ring holds the characters that have arrived and not been taken out. *)
Holds ==
    /\ Count \in 0 .. Length
    /\ write = Slot(Oldest, Count)
    /\ \A k \in 0 .. Length : k < Count => buf[Slot(Oldest, k)] = Gone + 1 + k

(* The inductive invariant. *)
RingInv == Local /\ Holds /\ NothingLost

-----------------------------------------------------------------------------
(* The ring has one slot more than it holds characters. *)
LEMMA Size == size = Length + 1 /\ size \in Nat \ {0} /\ Length \in Nat \ {0}
BY StreamAssumption DEF size

(* The remainder of an index that is at most one past the end. *)
LEMMA Remainder ==
    ASSUME NEW r \in 0 .. size
    PROVE  r % size = IF r = size THEN 0 ELSE r
<1>1. size \in Nat \ {0}
  BY Size
<1>2. CASE r = size
  BY <1>1, <1>2
<1>3. CASE r # size
  BY <1>1, <1>3
<1> QED
  BY <1>2, <1>3

(* available is the number of characters in the ring, also while read is one  *)
(* past the end.                                                              *)
LEMMA AvailableCounts == ASSUME RingInv PROVE available = Count /\ Oldest \in 0 .. Length
<1>1. Oldest \in 0 .. Length
  BY Size DEF RingInv, Local, Oldest, Slot
<1>2. CASE pc = "mod"
  BY <1>1, <1>2, Size DEF RingInv, Local, Holds, Oldest, Slot, available
<1>3. CASE pc # "mod"
  BY <1>1, <1>3, Size DEF RingInv, Local, Holds, Oldest, Slot, available
<1> QED
  BY <1>1, <1>2, <1>3

(* The handler puts a character behind the last one while the thread is       *)
(* between any two of its accesses.                                           *)
LEMMA HandlerStep ==
    ASSUME ~Overruns, RingInv, handler_rx
    PROVE  RingInv'
<1> USE Size
<1>1. Count < Length /\ Oldest \in 0 .. Length /\ Count \in Nat
  BY AvailableCounts DEF handler_rx, RingInv, Holds
<1>2. /\ pc' = pc /\ reg' = reg /\ data' = data /\ arrived' = arrived + 1
      /\ buf' = [buf EXCEPT ![write] = arrived + 1] /\ write' = (write + 1) % size
  BY DEF handler_rx, queue
<1> DEFINE after == IF write + 1 = size THEN 0 ELSE write + 1
<1>3. write \in 0 .. Length /\ after \in 0 .. Length /\ write' = after /\ (isFull <=> after = read)
  <2>1. write \in 0 .. Length
    BY DEF RingInv, Local
  <2>2. write + 1 \in 0 .. size
    BY <2>1
  <2>3. (write + 1) % size = after
    BY <2>2, Remainder, Zenon
  <2> QED
    BY <1>2, <2>1, <2>3 DEF isFull
<1>4. ~isFull
  <2>1. after # Oldest /\ (pc = "mod" => after # read)
    BY <1>1, <1>3, SMTT(30) DEF RingInv, Local, Holds, Oldest, Slot
  <2> QED
    BY <1>3, <2>1 DEF Oldest
<1>5. read' = read
  BY <1>4 DEF handler_rx, queue
<1>6. Oldest' = Oldest /\ Gone' = Gone /\ Count' = Count + 1 /\ Gone \in Int
  BY <1>2, <1>5 DEF Oldest, Gone, Count, Slot, RingInv, Local
<1>7. Local'
  BY <1>1, <1>2, <1>3, <1>5, <1>6 DEF RingInv, Local
<1>8. write' = Slot(Oldest, Count + 1)
  BY <1>1, <1>2, <1>3 DEF RingInv, Holds, Slot
<1>9. ASSUME NEW k \in 0 .. Length, k < Count + 1
      PROVE  buf'[Slot(Oldest, k)] = Gone + 1 + k
  <2>1. CASE k = Count
    BY <1>1, <1>2, <1>6, <2>1 DEF RingInv, Local, Holds, Count
  <2>2. CASE k # Count
    <3>1. Slot(Oldest, k) # write /\ k < Count
      BY <1>1, <1>9, <2>2 DEF RingInv, Holds, Slot
    <3> QED
      BY <1>1, <1>2, <3>1 DEF RingInv, Local, Holds, Slot
  <2> QED
    BY <2>1, <2>2
<1>10. Holds'
  BY <1>1, <1>6, <1>8, <1>9 DEF Holds, Slot
<1>11. NothingLost'
  BY <1>2 DEF RingInv, NothingLost
<1> QED
  BY <1>7, <1>10, <1>11 DEF RingInv

(* The thread loads the oldest character. *)
LEMMA LoadStep ==
    ASSUME RingInv, Load
    PROVE  RingInv'
<1> USE Size
<1>1. pc = "round" /\ pc' = "inc" /\ reg' = read /\ data' = Append(data, buf[read])
      /\ write' = write /\ read' = read /\ buf' = buf /\ arrived' = arrived /\ read # write
  BY DEF Load, isEmpty
<1>2. Oldest = read /\ Oldest' = read /\ Gone = Len(data) /\ Gone' = Len(data)
      /\ Len(data') = Len(data) + 1 /\ read \in 0 .. Length /\ Len(data) \in Nat
  BY <1>1 DEF RingInv, Local, Oldest, Gone
<1>3. Count' = Count /\ Count > 0 /\ Count \in Nat
  <2>1. Count' = Count
    BY <1>1, <1>2 DEF Count
  <2>2. Count \in 0 .. Length /\ write = Slot(read, Count)
    BY <1>2 DEF RingInv, Holds
  <2>3. Slot(read, 0) = read
    BY <1>2 DEF Slot
  <2> QED
    BY <1>1, <2>1, <2>2, <2>3
<1>4. buf[read] = Len(data) + 1
  BY <1>2, <1>3 DEF RingInv, Holds, Slot
<1>5. Local'
  BY <1>1, <1>2, <1>3, <1>4 DEF RingInv, Local
<1>6. Holds'
  BY <1>1, <1>2, <1>3 DEF RingInv, Holds, Slot
<1>7. NothingLost'
  BY <1>1, <1>2, <1>4 DEF RingInv, Local, NothingLost
<1> QED
  BY <1>5, <1>6, <1>7 DEF RingInv

(* read + 1 takes the character out, before it is taken modulo size. *)
LEMMA IncrementStep ==
    ASSUME RingInv, Increment
    PROVE  RingInv'
<1> USE Size
<1>1. pc = "inc" /\ pc' = "mod" /\ read' = reg + 1 /\ reg' = reg /\ data' = data
      /\ write' = write /\ buf' = buf /\ arrived' = arrived
  BY DEF Increment
<1>2. Oldest = reg /\ Oldest' = Slot(reg, 1) /\ Gone = Len(data) - 1 /\ Gone' = Len(data)
      /\ reg \in 0 .. Length /\ Len(data) \in Nat /\ Count \in 1 .. Length /\ Count' = Count - 1
  <2>1. Oldest = reg /\ Oldest' = Slot(reg, 1)
    BY <1>1 DEF RingInv, Local, Oldest, Slot
  <2>2. Gone = Len(data) - 1 /\ Gone' = Len(data) /\ Len(data) \in Nat /\ reg \in 0 .. Length
    BY <1>1 DEF RingInv, Local, Gone
  <2>3. Count \in 1 .. Length
    BY <1>1 DEF RingInv, Local, Holds
  <2>4. Count' = Count - 1
    BY <1>1, <2>2 DEF RingInv, Local, Count
  <2> QED
    BY <2>1, <2>2, <2>3, <2>4
<1>3. \A k \in 0 .. Length : k < Count - 1 => /\ k + 1 \in 0 .. Length /\ k + 1 < Count
                                              /\ Slot(Slot(reg, 1), k) = Slot(reg, k + 1)
  BY <1>2 DEF Slot
<1>4. write = Slot(Slot(reg, 1), Count - 1)
  BY <1>2 DEF RingInv, Holds, Slot
<1>5. \A k \in 0 .. Length : k < Count' => buf'[Slot(Oldest, k)'] = Gone' + 1 + k
  <2>1. SUFFICES ASSUME NEW k \in 0 .. Length, k < Count - 1
                 PROVE  buf[Slot(Slot(reg, 1), k)] = Len(data) + 1 + k
    BY <1>1, <1>2 DEF Slot
  <2>2. buf[Slot(reg, k + 1)] = Gone + 1 + (k + 1)
    BY <1>2, <1>3, <2>1 DEF RingInv, Holds
  <2> QED
    BY <1>2, <1>3, <2>1, <2>2
<1>6. Holds'
  BY <1>1, <1>2, <1>4, <1>5 DEF Holds, Slot
<1>7. Local'
  BY <1>1, <1>2 DEF RingInv, Local
<1> QED
  BY <1>1, <1>6, <1>7 DEF RingInv, NothingLost

(* The modulo puts read back into the ring. *)
LEMMA ModuloStep ==
    ASSUME RingInv, Modulo
    PROVE  RingInv'
<1> USE Size
<1>1. pc = "mod" /\ pc' = "round" /\ read' = read % size /\ reg' = reg /\ data' = data
      /\ write' = write /\ buf' = buf /\ arrived' = arrived
  BY DEF Modulo, Wrap
<1>2. read = reg + 1 /\ reg \in 0 .. Length /\ read \in 0 .. size
  BY <1>1 DEF RingInv, Local
<1>3. read' = Slot(reg, 1) /\ read' \in 0 .. Length
  BY <1>1, <1>2, Remainder DEF Slot
<1>4. Oldest' = Oldest /\ Gone' = Gone /\ Count' = Count
  BY <1>1, <1>3 DEF Oldest, Gone, Count
<1>5. Local'
  BY <1>1, <1>3 DEF RingInv, Local
<1>6. Holds'
  BY <1>1, <1>4 DEF RingInv, Holds, Slot
<1> QED
  BY <1>1, <1>5, <1>6 DEF RingInv, NothingLost

(* Without overruns every step keeps the contents of the ring. *)
LEMMA RingStep ==
    ASSUME ~Overruns
    PROVE  RingInv /\ [Next]_vars => RingInv'
<1> SUFFICES ASSUME RingInv, [Next]_vars PROVE RingInv'
  OBVIOUS
<1>1. CASE handler_rx
  BY <1>1, HandlerStep
<1>2. CASE Load
  BY <1>2, LoadStep
<1>3. CASE Increment
  BY <1>3, IncrementStep
<1>4. CASE Modulo
  BY <1>4, ModuloStep
<1>5. CASE Begin \/ Look \/ RoundDone \/ Expired \/ UNCHANGED vars
  <2>1. /\ read' = read /\ write' = write /\ buf' = buf /\ reg' = reg
        /\ data' = data /\ arrived' = arrived
        /\ \/ pc' = pc
           \/ pc \in {"idle", "look", "round"} /\ pc' \in {"idle", "look", "round"}
    BY <1>5 DEF Begin, Look, RoundDone, Expired, vars
  <2>2. Oldest' = Oldest /\ Gone' = Gone /\ Count' = Count
    BY <2>1 DEF Oldest, Gone, Count, Slot
  <2>3. Local' /\ Holds'
    BY <2>1, <2>2 DEF RingInv, Local, Holds, Slot
  <2> QED
    BY <2>1, <2>3 DEF RingInv, NothingLost
<1> QED
  BY <1>1, <1>2, <1>3, <1>4, <1>5 DEF Next

(* What the thread takes out of the ring is the beginning of what arrived,    *)
(* without a gap, for every capacity and every interleaving of handler and    *)
(* thread, as long as the ring is not asked to hold more than it can.         *)
THEOREM RingKeepsAll ==
    ASSUME ~Overruns
    PROVE  Spec => []NothingLost
<1>1. Init => RingInv
  <2> SUFFICES ASSUME Init PROVE RingInv
    OBVIOUS
  <2>0. Len(data) = 0
    BY DEF Init
  <2>1. Gone = 0 /\ Oldest = 0 /\ Count = 0
    <3>1. pc = "idle" /\ read = 0 /\ arrived = 0
      BY DEF Init
    <3>2. Gone = 0 /\ Oldest = 0
      BY <2>0, <3>1 DEF Gone, Oldest
    <3> QED
      BY <3>1, <3>2 DEF Count
  <2>2. Local
    BY <2>1, Size DEF Init, Local
  <2>3. Holds
    BY <2>1, Size DEF Init, Holds, Slot
  <2> QED
    BY <2>2, <2>3 DEF Init, RingInv, NothingLost
<1>2. RingInv /\ [Next]_vars => RingInv'
  BY RingStep
<1>3. RingInv => NothingLost
  BY DEF RingInv
<1> QED
  BY <1>1, <1>2, <1>3, PTL DEF Spec

-----------------------------------------------------------------------------
(* When the handler does overrun the thread, characters are lost, and the     *)
(* thread may set read back behind what the handler has discarded.  The ring  *)
(* still holds the last characters that arrived, in order up to write, so the *)
(* order of what comes out depends on two distances only: how far the place   *)
(* the thread goes on from is behind write, and how long ago the character    *)
(* it took last arrived.                                                      *)

Last == IF Len(data) = 0 THEN 0 ELSE data[Len(data)]
Dist(r) == IF write >= r THEN write - r ELSE write - r + size
Back(k) == IF write >= k THEN write - k ELSE write - k + size
From == IF pc = "inc" THEN Slot(reg, 1) ELSE IF read = size THEN 0 ELSE read

(* Types; read is one past the end between Increment and Modulo only. *)
Places ==
    /\ pc \in {"idle", "look", "round", "inc", "mod"}
    /\ write \in 0 .. Length /\ arrived \in Nat /\ data \in Seq(Nat)
    /\ buf \in [0 .. size -> Nat]
    /\ read \in 0 .. size /\ (pc # "mod" => read \in 0 .. Length)
    /\ pc = "inc" => reg \in 0 .. Length

(* The slots behind write hold what arrived last. *)
Written == \A k \in 1 .. size : k <= arrived => buf[Back(k)] = arrived - k + 1

(* What the thread takes next is newer than what it took last. *)
Newer == arrived - Dist(From) >= Last

OverInv == Places /\ Written /\ Newer /\ InOrder

(* The place the thread goes on from is in the ring. *)
LEMMA FromPlace ==
    ASSUME OverInv
    PROVE  From \in 0 .. Length /\ Dist(From) \in 0 .. Length /\ Last \in Nat
<1>1. From \in 0 .. Length
  BY Size DEF OverInv, Places, From, Slot
<1>2. Dist(From) \in 0 .. Length
  BY <1>1, Size DEF OverInv, Places, Dist
<1>3. Last \in Nat
  BY DEF OverInv, Places, Last
<1> QED
  BY <1>1, <1>2, <1>3

(* The handler writes the next slot; a full ring gives up its oldest one, a   *)
(* ring whose read is one past the end does not look full.                    *)
LEMMA HandlerOver == ASSUME OverInv, handler_rx PROVE OverInv'
<1> USE Size
<1>1. /\ pc' = pc /\ reg' = reg /\ data' = data /\ arrived' = arrived + 1
      /\ buf' = [buf EXCEPT ![write] = arrived + 1] /\ write' = (write + 1) % size
      /\ read' = IF isFull THEN (read + 1) % size ELSE read
  BY DEF handler_rx, queue
<1>2. /\ write \in 0 .. Length /\ arrived \in Nat /\ read \in 0 .. size
      /\ buf \in [0 .. size -> Nat]
  BY DEF OverInv, Places
<1> DEFINE after == IF write + 1 = size THEN 0 ELSE write + 1
<1>3. after \in 0 .. Length /\ write' = after /\ (isFull <=> after = read)
  <2>1. write + 1 \in 0 .. size
    BY <1>2
  <2>2. (write + 1) % size = after
    BY <2>1, Remainder, Zenon
  <2>3. after \in 0 .. Length
    BY <1>2
  <2> QED
    BY <1>1, <2>2, <2>3 DEF isFull
<1>4. read' = IF after = read THEN (IF read = Length THEN 0 ELSE read + 1) ELSE read
  <2>1. CASE after = read
    <3>1. read + 1 \in 0 .. size
      BY <1>3, <2>1
    <3>2. (read + 1) % size = IF read + 1 = size THEN 0 ELSE read + 1
      BY <3>1, Remainder, Zenon
    <3> QED
      BY <1>1, <1>2, <1>3, <2>1, <3>2
  <2>2. CASE after # read
    BY <1>1, <1>3, <2>2
  <2> QED
    BY <2>1, <2>2
<1> HIDE DEF after
<1>5. Places'
  <2>1. buf' \in [0 .. size -> Nat] /\ arrived' \in Nat
    BY <1>1, <1>2
  <2>2. read' \in 0 .. size /\ (read \in 0 .. Length => read' \in 0 .. Length)
    BY <1>2, <1>3, <1>4
  <2> QED
    BY <1>1, <1>3, <2>1, <2>2 DEF OverInv, Places
<1>6. Written'
  <2> SUFFICES ASSUME NEW k \in 1 .. size, k <= arrived'
               PROVE  buf'[Back(k)'] = arrived' - k + 1
    BY DEF Written, Back, size
  <2>1. CASE k = 1
    <3>1. Back(k)' = write
      BY <1>2, <1>3, <2>1 DEF Back, after
    <3> QED
      BY <1>1, <1>2, <2>1, <3>1
  <2>2. CASE k > 1
    <3>1. Back(k)' = Back(k - 1) /\ Back(k - 1) # write /\ Back(k - 1) \in 0 .. Length
      BY <1>2, <1>3, <2>2 DEF Back, after
    <3>2. buf'[Back(k - 1)] = buf[Back(k - 1)]
      BY <1>1, <1>2, <3>1
    <3>3. k - 1 \in 1 .. size /\ k - 1 <= arrived
      BY <1>1, <1>2, <2>2
    <3>4. buf[Back(k - 1)] = arrived - (k - 1) + 1
      BY <3>3 DEF OverInv, Written
    <3> QED
      BY <1>1, <1>2, <3>1, <3>2, <3>4
  <2> QED
    BY <2>1, <2>2
<1>7. Newer'
  <2>1. arrived - Dist(From) >= Last /\ From \in 0 .. Length /\ Last \in Nat /\ Last' = Last
    BY <1>1, FromPlace DEF OverInv, Newer, Last
  <2>2. Dist(From)' <= Dist(From) + 1 /\ Dist(From)' \in 0 .. Length /\ Dist(From) \in 0 .. Length
    <3>1. CASE From' = From
      BY <1>2, <1>3, <2>1, <3>1 DEF Dist, after
    <3>2. CASE From' # From
      <4>1. pc # "inc" /\ after = read
        BY <1>1, <1>4, <3>2 DEF From, Slot
      <4>2. From = read /\ From' = IF read = Length THEN 0 ELSE read + 1
        BY <1>1, <1>3, <1>4, <4>1 DEF From
      <4> QED
        BY <1>2, <1>3, <2>1, <4>1, <4>2 DEF Dist, after
    <3> QED
      BY <3>1, <3>2
  <2> QED
    BY <1>1, <1>2, <2>1, <2>2 DEF Newer
<1>8. InOrder'
  BY <1>1 DEF OverInv, InOrder
<1> QED
  BY <1>5, <1>6, <1>7, <1>8 DEF OverInv

(* The thread loads a character that is newer than the one before. *)
LEMMA LoadOver == ASSUME OverInv, Load PROVE OverInv'
<1> USE Size
<1>1. pc = "round" /\ pc' = "inc" /\ reg' = read /\ data' = Append(data, buf[read])
      /\ write' = write /\ read' = read /\ buf' = buf /\ arrived' = arrived /\ read # write
  BY DEF Load, isEmpty
<1>2. /\ write \in 0 .. Length /\ arrived \in Nat /\ read \in 0 .. Length /\ data \in Seq(Nat)
      /\ From = read /\ Dist(read) \in 1 .. Length /\ Last \in Nat /\ Len(data) \in Nat
  <2>1. /\ write \in 0 .. Length /\ arrived \in Nat /\ read \in 0 .. Length /\ data \in Seq(Nat)
    BY <1>1 DEF OverInv, Places
  <2>2. From = read
    BY <1>1, <2>1 DEF From
  <2>3. Dist(read) \in 1 .. Length
    BY <1>1, <2>1 DEF Dist
  <2> QED
    BY <2>1, <2>2, <2>3, FromPlace
<1>3. Dist(read) <= arrived /\ Dist(read) \in 1 .. size /\ arrived - Dist(read) >= Last
  BY <1>2 DEF OverInv, Newer
<1>4. Back(Dist(read)) = read
  BY <1>2 DEF Back, Dist
<1>5. buf[read] = arrived - Dist(read) + 1 /\ buf[read] \in Nat
  <2>1. buf[Back(Dist(read))] = arrived - Dist(read) + 1
    BY <1>3 DEF OverInv, Written
  <2> QED
    BY <1>2, <1>3, <1>4, <2>1
<1>6. /\ data' \in Seq(Nat) /\ Len(data') = Len(data) + 1 /\ data'[Len(data) + 1] = buf[read]
      /\ \A i \in 1 .. Len(data) : data'[i] = data[i]
  BY <1>1, <1>2, <1>5
<1>7. Places'
  BY <1>1, <1>2, <1>6 DEF OverInv, Places
<1>8. Written'
  BY <1>1 DEF OverInv, Written, Back
<1>9. Newer'
  <2>1. Last' = buf[read]
    BY <1>2, <1>6 DEF Last
  <2>2. From' = Slot(read, 1) /\ Dist(From)' = Dist(Slot(read, 1))
    BY <1>1 DEF From, Dist, Slot
  <2>3. Dist(Slot(read, 1)) = Dist(read) - 1
    BY <1>1, <1>2 DEF Dist, Slot
  <2> QED
    BY <1>1, <1>2, <1>5, <2>1, <2>2, <2>3 DEF Newer
<1>10. InOrder'
  <2> SUFFICES ASSUME NEW i \in 1 .. Len(data) PROVE data'[i] < data'[i + 1]
    BY <1>2, <1>6 DEF InOrder
  <2>1. CASE i < Len(data)
    <3>1. data'[i] = data[i] /\ data'[i + 1] = data[i + 1] /\ i \in 1 .. Len(data) - 1
      BY <1>2, <1>6, <2>1
    <3> QED
      BY <3>1 DEF OverInv, InOrder
  <2>2. CASE i = Len(data)
    <3>1. data'[i] = Last
      BY <1>2, <1>6, <2>2 DEF Last
    <3>2. data'[i + 1] = buf[read]
      BY <1>6, <2>2
    <3> QED
      BY <1>2, <1>3, <1>5, <3>1, <3>2
  <2> QED
    BY <1>2, <2>1, <2>2
<1> QED
  BY <1>7, <1>8, <1>9, <1>10 DEF OverInv

(* Increment and Modulo: the place to go on from is behind the slot that was  *)
(* loaded, whatever the handler has done to read in between.                  *)
LEMMA IndexOver == ASSUME OverInv, Increment \/ Modulo PROVE OverInv'
<1> USE Size
<1>1. /\ data' = data /\ write' = write /\ buf' = buf /\ arrived' = arrived /\ reg' = reg
  BY DEF Increment, Modulo
<1>2. /\ From' = From /\ read' \in 0 .. size
      /\ pc' \in {"mod", "round"} /\ (pc' # "mod" => read' \in 0 .. Length)
  <2>1. CASE Increment
    <3>1. pc = "inc" /\ pc' = "mod" /\ read' = reg + 1 /\ reg \in 0 .. Length
      BY <2>1 DEF Increment, OverInv, Places
    <3> QED
      BY <3>1 DEF From, Slot
  <2>2. CASE Modulo
    <3>1. pc = "mod" /\ pc' = "round" /\ read' = read % size /\ read \in 0 .. size
      BY <2>2 DEF Modulo, Wrap, OverInv, Places
    <3>2. read' = IF read = size THEN 0 ELSE read
      BY <3>1, Remainder
    <3> QED
      BY <3>1, <3>2 DEF From
  <2> QED
    BY <2>1, <2>2
<1>3. Places'
  BY <1>1, <1>2 DEF OverInv, Places
<1>4. Written' /\ InOrder'
  BY <1>1 DEF OverInv, Written, Back, InOrder
<1>5. Newer'
  BY <1>1, <1>2 DEF OverInv, Newer, Dist, Last
<1> QED
  BY <1>3, <1>4, <1>5 DEF OverInv

(* The characters come out of the ring in the order they arrived and none     *)
(* twice, for every capacity, although neither side locks the ring, the       *)
(* handler discards the oldest ones and the thread undoes that when it stores *)
(* read (handler_rx, queue, dequeue).                                         *)
THEOREM RingInOrder == Spec => []InOrder
<1>1. Init => OverInv
  <2> SUFFICES ASSUME Init PROVE OverInv
    OBVIOUS
  <2>1. /\ pc = "idle" /\ write = 0 /\ read = 0 /\ arrived = 0 /\ data = <<>> /\ Len(data) = 0
        /\ buf \in [0 .. size -> Nat]
    BY DEF Init
  <2>2. Places
    BY <2>1, Size DEF Places
  <2>3. Written
    BY <2>1, Size DEF Written
  <2>4. Newer
    BY <2>1, Size DEF Newer, From, Dist, Last
  <2>5. InOrder
    BY <2>1 DEF InOrder
  <2> QED
    BY <2>2, <2>3, <2>4, <2>5 DEF OverInv
<1>2. OverInv /\ [Next]_vars => OverInv'
  <2> SUFFICES ASSUME OverInv, [Next]_vars PROVE OverInv'
    OBVIOUS
  <2>1. CASE handler_rx \/ Load \/ Increment \/ Modulo
    BY <2>1, HandlerOver, LoadOver, IndexOver
  <2>2. CASE Begin \/ Look \/ RoundDone \/ Expired \/ UNCHANGED vars
    <3>1. /\ read' = read /\ write' = write /\ buf' = buf /\ reg' = reg
          /\ data' = data /\ arrived' = arrived
          /\ \/ pc' = pc
             \/ pc \in {"idle", "look", "round"} /\ pc' \in {"idle", "look", "round"}
      BY <2>2 DEF Begin, Look, RoundDone, Expired, vars
    <3>2. Places' /\ Written' /\ InOrder'
      BY <3>1 DEF OverInv, Places, Written, Back, InOrder
    <3>3. Newer'
      BY <3>1 DEF OverInv, Newer, From, Dist, Last, Slot
    <3> QED
      BY <3>2, <3>3 DEF OverInv
  <2> QED
    BY <2>1, <2>2 DEF Next
<1>3. OverInv => InOrder
  BY DEF OverInv
<1> QED
  BY <1>1, <1>2, <1>3, PTL DEF Spec
=============================================================================
