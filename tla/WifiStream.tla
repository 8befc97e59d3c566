---------------------------- MODULE WifiStream ----------------------------
(***************************************************************************)
(* Receiving over the wireless module: the interrupt handler handler_rx     *)
(* puts the characters of the UART into a ring buffer (CBuffer.h), and the  *)
(* receive thread takes them out in receive_all (TCPSocketConnection.cpp).  *)
(* The buffer has no lock.  The steps of the thread are the accesses to the *)
(* volatile indices; the handler runs between any two of them.  Characters  *)
(* are numbered as the handler takes them: while Wifly::send is at work the *)
(* handler is detached, and what comes then is discarded and has no number. *)
(***************************************************************************)
EXTENDS Integers, Sequences

CONSTANTS
    Length,      \* capacity of the ring (512 in the code)
    MaxChars,    \* characters the peer sends
    Request,     \* characters the core asks for in one call
    MaxCalls,    \* calls of receive_all
    Overruns     \* may characters arrive while the ring is full?

ASSUME StreamAssumption ==
    /\ Length \in Nat \ {0} /\ MaxChars \in Nat /\ Request \in Nat \ {0}
    /\ MaxCalls \in Nat /\ Overruns \in BOOLEAN

size == Length + 1

VARIABLES
    pc,       \* of the receive thread
    write, read, buf,     \* the ring
    nb,       \* characters of this round still to take: nb_available
    reg,      \* the index the thread has loaded
    idx,      \* characters stored by this call
    data,     \* the characters the thread has taken so far
    arrived,  \* characters that have arrived
    calls

vars == <<pc, write, read, buf, nb, reg, idx, data, arrived, calls>>

Init ==
    /\ pc = "idle" /\ write = 0 /\ read = 0
    /\ buf = [i \in 0 .. size |-> 0]
    /\ nb = 0 /\ reg = 0 /\ idx = 0 /\ data = <<>> /\ arrived = 0 /\ calls = 0

isFull == (write + 1) % size = read
isEmpty == read = write
available == IF write >= read THEN write - read ELSE size - read + write

(* A full ring gives up its oldest character. *)
queue ==
    /\ read' = IF isFull THEN (read + 1) % size ELSE read
    /\ buf' = [buf EXCEPT ![write] = arrived + 1]
    /\ write' = (write + 1) % size

(* The handler runs to its end for each character in the UART. *)
handler_rx ==
    /\ arrived < MaxChars
    /\ Overruns \/ available < Length
    /\ queue
    /\ arrived' = arrived + 1
    /\ UNCHANGED <<pc, nb, reg, idx, data, calls>>

-----------------------------------------------------------------------------
(* receive_all                                                                *)

Begin ==
    /\ pc = "idle" /\ calls < MaxCalls
    /\ calls' = calls + 1 /\ idx' = 0 /\ pc' = "look"
    /\ UNCHANGED <<write, read, buf, nb, reg, data, arrived>>

(* nb_available = readable(); the round takes min(nb_available, length) characters. *)
Look ==
    /\ pc = "look"
    /\ nb' = IF available < Request THEN available ELSE Request
    /\ pc' = "round"
    /\ UNCHANGED <<write, read, buf, reg, idx, data, arrived, calls>>

(* getc waits for a character, dequeue loads read and the character ... *)
Load ==
    /\ pc = "round" /\ nb > 0 /\ ~isEmpty
    /\ reg' = read
    /\ data' = Append(data, buf[read])
    /\ idx' = idx + 1
    /\ pc' = "inc"
    /\ UNCHANGED <<write, read, buf, nb, arrived, calls>>

(* ... stores read + 1 ... *)
Increment ==
    /\ pc = "inc"
    /\ read' = reg + 1
    /\ pc' = "mod"
    /\ UNCHANGED <<write, buf, nb, reg, idx, data, arrived, calls>>

(* Mutant of Wrap: one slot too many. *)
Wrap_OffByOne(r) == r % (size + 1)
Wrap(r) == r % size

(* ... and takes it modulo size. *)
Modulo ==
    /\ pc = "mod"
    /\ read' = Wrap(read)
    /\ nb' = nb - 1
    /\ pc' = "round"
    /\ UNCHANGED <<write, buf, reg, idx, data, arrived, calls>>

(* The round is done: the call ends with exactly the length asked for, or     *)
(* when the time is over.                                                     *)
RoundDone ==
    /\ pc = "round" /\ nb = 0
    /\ pc' = IF idx = Request THEN "idle" ELSE "look"
    /\ UNCHANGED <<write, read, buf, nb, reg, idx, data, arrived, calls>>

Expired ==
    /\ pc = "round" /\ nb = 0 /\ idx # Request
    /\ pc' = "idle"
    /\ UNCHANGED <<write, read, buf, nb, reg, idx, data, arrived, calls>>

Next ==
    \/ handler_rx
    \/ Begin \/ Look \/ Load \/ Increment \/ Modulo \/ RoundDone \/ Expired

Spec == Init /\ [][Next]_vars

-----------------------------------------------------------------------------
(* Characters come out in the order they arrived, none twice, even when the   *)
(* handler overwrites the oldest ones between two accesses of the thread.     *)
InOrder == \A i \in 1 .. Len(data) - 1 : data[i] < data[i + 1]

(* Nothing that reached the ring is lost as long as it is never asked to hold *)
(* more than its capacity: what has been taken is exactly the beginning of it.*)
NothingLost == \A i \in 1 .. Len(data) : data[i] = i

(* A call never stores more characters than the length of the buffer it was   *)
(* given.                                                                     *)
(* Not what the code does: README.md, "Known disagreements". *)
WithinLength == idx <= Request
=============================================================================
