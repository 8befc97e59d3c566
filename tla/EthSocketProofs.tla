-------------------------- MODULE EthSocketProofs --------------------------
(***************************************************************************)
(* The wired network loses no descriptor over any number of attempts, and   *)
(* the streams of the send and the receive thread are exact, for every      *)
(* length of the buffer and of the stream.                                  *)
(***************************************************************************)
EXTENDS EthSocket, SequenceTheorems, TLAPS

(* The numbers from b + 1 on, n of them: a piece of a stream. *)
Piece(b, n) == [k \in 1 .. n |-> b + k]

MainAt == {"init", "wait_inited", "connect", "wait_link", "try", "connecting", "done"}
CallerAt == {"none", "idle", "loop", "return"}

(* Types of what the properties speak of. *)
Typed ==
    /\ pc \in [{"main", "tcpip", "send", "recv"} -> MainAt \cup CallerAt \cup {"starting", "run"}]
    /\ pc["main"] \in MainAt /\ pc["send"] \in CallerAt /\ pc["recv"] \in CallerAt
    /\ sock \in [fd : Fds \cup {NoFd}, connected : BOOLEAN, blocking : BOOLEAN]
    /\ lwip \in [used : SUBSET Fds, peer : BOOLEAN, closed : BOOLEAN, taken : Nat]
    /\ ethernet_open \in BOOLEAN /\ lost \in BOOLEAN
    /\ call \in [Callers -> [n : Nat, moved : Seq(Nat), result : Int]]
    /\ toCore \in Seq(Nat)

(* Where main is and what it holds. *)
Connecting ==
    /\ pc["main"] # "done" => ~ethernet_open
    /\ pc["main"] = "connecting" => sock.fd # NoFd
    /\ pc["main"] \notin {"connecting", "done"} => sock.fd = NoFd
    /\ pc["main"] # "done" => \A t \in Callers : pc[t] = "none"
    /\ \A t \in Callers : pc[t] \in {"loop", "return"} => ethernet_open

(* A call has moved n bytes, from the first one on when it sends and after    *)
(* those the core has got when it receives.                                   *)
Moving ==
    /\ pc["send"] \in {"loop", "return"} => call["send"].moved = Piece(0, call["send"].n)
    /\ \A t \in Callers : pc[t] = "return" => call[t].result \in {call[t].n, -1}
    /\ \A t \in Callers : pc[t] \in {"none", "idle"} => call[t].moved = <<>>
    /\ pc["recv"] \in {"loop", "return"} => Len(call["recv"].moved) = call["recv"].n
    /\ pc["recv"] = "return" /\ call["recv"].result = -1 /\ ~lost => call["recv"].n = 0
    /\ ~lost => toCore \o call["recv"].moved = Piece(0, lwip.taken)

(* The inductive invariant. *)
SockInv == Typed /\ Connecting /\ NoFdLeak /\ Moving

-----------------------------------------------------------------------------
(* A piece is a sequence, and pieces that follow each other make one. *)
LEMMA Pieces ==
    ASSUME NEW b \in Nat, NEW n \in Nat, NEW m \in Nat
    PROVE  /\ Piece(b, n) \in Seq(Nat) /\ Len(Piece(b, n)) = n
           /\ Piece(b, n) \o Piece(b + n, m) = Piece(b, n + m)
<1>1. Piece(b, n) \in Seq(Nat) /\ Len(Piece(b, n)) = n
  BY DEF Piece
<1>2. Piece(b + n, m) \in Seq(Nat) /\ Len(Piece(b + n, m)) = m
  BY DEF Piece
<1>3. Piece(b, n + m) \in Seq(Nat) /\ Len(Piece(b, n + m)) = n + m
  BY DEF Piece
<1> DEFINE both == Piece(b, n) \o Piece(b + n, m)
<1>4. /\ both \in Seq(Nat) /\ Len(both) = n + m
      /\ \A k \in 1 .. n : both[k] = Piece(b, n)[k]
      /\ \A k \in n + 1 .. n + m : both[k] = Piece(b + n, m)[k - n]
  BY <1>1, <1>2
<1> HIDE DEF both
<1>5. ASSUME NEW k \in 1 .. n + m PROVE both[k] = Piece(b, n + m)[k]
  <2>1. k \in 1 .. n => both[k] = b + k
    BY <1>4 DEF Piece
  <2>2. ASSUME k \in n + 1 .. n + m PROVE both[k] = b + k
    <3>1. k - n \in 1 .. m /\ both[k] = Piece(b + n, m)[k - n]
      BY <1>4, <2>2
    <3> QED
      BY <3>1 DEF Piece
  <2>3. Piece(b, n + m)[k] = b + k
    BY DEF Piece
  <2>4. k \in 1 .. n \/ k \in n + 1 .. n + m
    OBVIOUS
  <2> QED
    BY <2>1, <2>2, <2>3, <2>4
<1>6. both = Piece(b, n + m)
  BY <1>3, <1>4, <1>5, SeqEqual
<1> QED
  BY <1>1, <1>6 DEF both

(* Appending twice appends the two pieces together. *)
LEMMA Appended ==
    \A s, t, u \in Seq(Nat) : (s \o t) \o u = s \o (t \o u)
  BY ConcatAssociative

-----------------------------------------------------------------------------
(* Nothing is open and nothing has moved at the start. *)
LEMMA SockInit == Init => SockInv
<1> SUFFICES ASSUME Init PROVE SockInv
  OBVIOUS
<1>1. Typed
  <2>1. /\ pc \in [{"main", "tcpip", "send", "recv"} -> MainAt \cup CallerAt \cup {"starting", "run"}]
        /\ pc["main"] \in MainAt /\ pc["send"] \in CallerAt /\ pc["recv"] \in CallerAt
    BY DEF Init, MainAt, CallerAt
  <2>2. /\ sock \in [fd : Fds \cup {NoFd}, connected : BOOLEAN, blocking : BOOLEAN]
        /\ lwip \in [used : SUBSET Fds, peer : BOOLEAN, closed : BOOLEAN, taken : Nat]
        /\ ethernet_open \in BOOLEAN /\ lost \in BOOLEAN
    BY DEF Init, Fds, NoFd
  <2>3. call \in [Callers -> [n : Nat, moved : Seq(Nat), result : Int]] /\ toCore \in Seq(Nat)
    BY DEF Init
  <2> QED
    BY <2>1, <2>2, <2>3 DEF Typed
<1>2. Connecting /\ NoFdLeak
  BY DEF Init, Connecting, NoFdLeak, NoFd, Callers
<1>3. Piece(0, 0) = <<>>
  <2>1. Piece(0, 0) \in Seq(Nat) /\ Len(Piece(0, 0)) = 0
    BY Pieces
  <2> QED
    BY <2>1, EmptySeq
<1>4. Moving
  BY <1>3 DEF Init, Moving, Callers
<1> QED
  BY <1>1, <1>2, <1>4 DEF SockInv

(* Steps of main and of the tcpip thread before the calls: they open and      *)
(* close descriptors and move no byte.                                        *)
LEMMA MainStep ==
    ASSUME SockInv,
           \/ EthernetInterface_init \/ tcpip_init_done \/ init_netif
           \/ EthernetInterface_connect \/ netif_link_callback \/ LinkUp \/ LinkTimeout
           \/ init_socket \/ lwip_connect \/ GiveUp
    PROVE  SockInv'
<1> USE DEF SockInv
<1>1. call' = call /\ toCore' = toCore /\ lost' = lost
  BY DEF EthernetInterface_init, tcpip_init_done, init_netif, EthernetInterface_connect,
         netif_link_callback, LinkUp, LinkTimeout, init_socket, lwip_connect, GiveUp, io
<1>2. CASE init_socket
  <2>1. /\ pc["main"] = "try" /\ sock.fd = NoFd /\ lwip.used = {} /\ ethernet_open' = ethernet_open
    BY <1>2 DEF init_socket, Connecting, NoFdLeak
  <2>2. CASE UNCHANGED <<pc, sock, lwip>>
    BY <1>1, <2>1, <2>2 DEF Typed, Connecting, NoFdLeak, Moving
  <2>3. CASE ~UNCHANGED <<pc, sock, lwip>>
    <3>1. PICK fd \in Fds : /\ lwip' = [lwip EXCEPT !.used = @ \cup {fd}]
                            /\ sock' = [sock EXCEPT !.fd = fd]
                            /\ pc' = [pc EXCEPT !["main"] = "connecting"]
      BY <1>2, <2>3 DEF init_socket, To
    <3>2. /\ sock'.fd = fd /\ sock'.connected = sock.connected /\ lwip'.used = {fd}
          /\ lwip'.taken = lwip.taken /\ fd # NoFd
      BY <2>1, <3>1 DEF Typed, Fds, NoFd
    <3>3. Typed'
      BY <1>1, <2>1, <3>1 DEF Typed, MainAt
    <3>4. Connecting' /\ NoFdLeak'
      BY <2>1, <3>1, <3>2 DEF Typed, Connecting, NoFdLeak, Callers
    <3>5. Moving'
      BY <1>1, <3>1, <3>2 DEF Typed, Moving, Callers
    <3> QED
      BY <3>3, <3>4, <3>5
  <2> QED
    BY <2>2, <2>3
<1>3. CASE lwip_connect
  <2>1. pc["main"] = "connecting" /\ sock.fd # NoFd /\ ~ethernet_open /\ lwip.used = {sock.fd}
        /\ \A t \in Callers : pc[t] = "none"
    BY <1>3 DEF lwip_connect, Connecting, NoFdLeak
  <2>2. CASE Started
    <3>1. /\ lwip' = [lwip EXCEPT !.peer = TRUE] /\ ethernet_open' = TRUE
          /\ sock' = [sock EXCEPT !.connected = TRUE, !.blocking = FALSE]
      BY <1>3, <2>1, <2>2 DEF lwip_connect, Started, To, SetBlocking, Typed
    <3>2. Typed'
      BY <1>1, <2>2, <3>1 DEF Typed, Started, MainAt, CallerAt
    <3>3. Connecting' /\ NoFdLeak'
      BY <2>1, <2>2, <3>1 DEF Typed, Started, Connecting, NoFdLeak, Callers
    <3>4. Moving'
      BY <1>1, <2>1, <2>2, <3>1 DEF Typed, Started, Moving, Callers
    <3> QED
      BY <3>2, <3>3, <3>4
  <2>3. CASE CloseSocket /\ To("main", "try") /\ UNCHANGED ethernet_open
    <3>1. /\ lwip' = [lwip EXCEPT !.used = @ \ {sock.fd}] /\ sock' = [sock EXCEPT !.fd = NoFd]
          /\ pc' = [pc EXCEPT !["main"] = "try"]
      BY <2>3 DEF CloseSocket, To
    <3>2. Typed'
      BY <1>1, <2>3, <3>1 DEF Typed, MainAt
    <3>3. Connecting' /\ NoFdLeak'
      BY <2>1, <2>3, <3>1 DEF Typed, Connecting, NoFdLeak, Callers
    <3>4. Moving'
      BY <1>1, <3>1 DEF Typed, Moving, Callers
    <3> QED
      BY <3>2, <3>3, <3>4
  <2> QED
    BY <1>3, <2>2, <2>3 DEF lwip_connect
<1>4. CASE ~init_socket /\ ~lwip_connect
  <2>1. sock' = sock /\ lwip' = lwip /\ ethernet_open' = ethernet_open
    BY <1>4 DEF EthernetInterface_init, tcpip_init_done, init_netif, EthernetInterface_connect,
         netif_link_callback, LinkUp, LinkTimeout, GiveUp, net
  <2>6. \/ pc' = pc
        \/ pc' = [pc EXCEPT !["tcpip"] = "run"]
        \/ pc["main"] = "init" /\ pc' = [pc EXCEPT !["main"] = "wait_inited", !["tcpip"] = "starting"]
        \/ pc["main"] = "wait_inited" /\ pc' = [pc EXCEPT !["main"] = "connect"]
        \/ pc["main"] = "connect" /\ pc' = [pc EXCEPT !["main"] = "wait_link"]
        \/ pc["main"] = "wait_link" /\ pc' = [pc EXCEPT !["main"] = "try"]
        \/ pc["main"] \in {"wait_link", "try"} /\ Started
    BY <1>4 DEF EthernetInterface_init, tcpip_init_done, init_netif, EthernetInterface_connect,
         netif_link_callback, LinkUp, LinkTimeout, GiveUp, To
  <2>2. /\ pc' \in [{"main", "tcpip", "send", "recv"} -> MainAt \cup CallerAt \cup {"starting", "run"}]
        /\ \A t \in Callers : pc'[t] = pc[t] \/ (pc'["main"] = "done" /\ pc'[t] = "idle")
        /\ \/ pc'["main"] = pc["main"]
           \/ pc["main"] \in MainAt \ {"connecting", "done"} /\ pc'["main"] \in MainAt \ {"connecting"}
    BY <2>6 DEF Started, MainAt, CallerAt, Typed, Callers
  <2>3. \A t \in Callers : pc'[t] = pc[t] \/ (pc[t] = "none" /\ pc'[t] = "idle")
    BY <2>6 DEF Started, Connecting, Typed, Callers
  <2>4. Typed' /\ Connecting' /\ NoFdLeak'
    BY <1>1, <2>1, <2>2, <2>3 DEF Typed, Connecting, NoFdLeak, Callers, MainAt, CallerAt
  <2>5. Moving'
    BY <1>1, <2>1, <2>3 DEF Moving, Callers
  <2> QED
    BY <2>3, <2>4, <2>5
<1> QED
  BY <1>2, <1>3, <1>4
-----------------------------------------------------------------------------
(* What a call that ends or begins leaves alone, and where the caller may go. *)
Ends(t) == Timeout(t) \/ Full(t) \/ Fails(t) \/ Closed(t)

(* A caller changes its own place only, and no descriptor. *)
LEMMA CallerPlaces ==
    ASSUME SockInv, NEW t \in Callers, Begin(t) \/ Ends(t) \/ Return(t)
    PROVE  /\ pc' \in [{"main", "tcpip", "send", "recv"} -> MainAt \cup CallerAt \cup {"starting", "run"}]
           /\ pc'["main"] = pc["main"] /\ pc["main"] = "done"
           /\ \A u \in Callers : pc'[u] \in CallerAt /\ (u # t => pc'[u] = pc[u])
           /\ pc'[t] \in {"loop", "return"} => ethernet_open
           /\ ethernet_open' = ethernet_open /\ lwip' = lwip
           /\ sock'.fd = sock.fd /\ (sock' = sock \/ (lwip.closed /\ ~sock'.connected))
           /\ sock' \in [fd : Fds \cup {NoFd}, connected : BOOLEAN, blocking : BOOLEAN]
<1> USE DEF SockInv
<1>1. /\ ethernet_open' = ethernet_open /\ lwip' = lwip
      /\ sock' = sock \/ (lwip.closed /\ sock' = [sock EXCEPT !.connected = FALSE])
  BY DEF Begin, Ends, Timeout, Full, Fails, Closed, Return, net
<1>2. pc[t] \in {"idle", "loop", "return"} /\ (pc[t] # "idle" => ethernet_open)
  BY DEF Begin, Ends, Timeout, Full, Fails, Closed, Return, Connecting
<1>3. \/ pc' = pc
      \/ pc' = [pc EXCEPT ![t] = "loop"] /\ ethernet_open
      \/ pc' = [pc EXCEPT ![t] = "return"] /\ ethernet_open
      \/ pc' = [pc EXCEPT ![t] = "idle"]
  BY <1>2 DEF Begin, Ends, Timeout, Full, Fails, Closed, Return, To
<1>4. pc["main"] = "done"
  BY <1>2 DEF Connecting
<1>5. /\ pc' \in [{"main", "tcpip", "send", "recv"} -> MainAt \cup CallerAt \cup {"starting", "run"}]
      /\ pc'["main"] = pc["main"]
      /\ \A u \in Callers : pc'[u] \in CallerAt /\ (u # t => pc'[u] = pc[u])
      /\ pc'[t] \in {"loop", "return"} => ethernet_open
  BY <1>2, <1>3 DEF Typed, Callers, CallerAt
<1>6. /\ sock'.fd = sock.fd /\ (sock' = sock \/ (lwip.closed /\ ~sock'.connected))
      /\ sock' \in [fd : Fds \cup {NoFd}, connected : BOOLEAN, blocking : BOOLEAN]
  BY <1>1 DEF Typed
<1> QED
  BY <1>1, <1>4, <1>5, <1>6

(* So it keeps what main knows of the descriptor. *)
LEMMA CallerConnecting ==
    ASSUME SockInv, NEW t \in Callers, Begin(t) \/ Ends(t) \/ Return(t)
    PROVE  Connecting' /\ NoFdLeak'
<1> USE DEF SockInv
<1>1. Connecting'
  BY CallerPlaces DEF Connecting
<1>2. NoFdLeak'
  BY CallerPlaces DEF NoFdLeak
<1> QED
  BY <1>1, <1>2

(* And the rest of the types once its call, and what the core got, have them. *)
LEMMA CallerTyped ==
    ASSUME SockInv, NEW t \in Callers, Begin(t) \/ Ends(t) \/ Return(t),
           call' \in [Callers -> [n : Nat, moved : Seq(Nat), result : Int]],
           toCore' \in Seq(Nat), lost' \in BOOLEAN
    PROVE  Typed'
<1>1. pc["main"] \in MainAt /\ "send" \in Callers /\ "recv" \in Callers
  BY DEF SockInv, Typed, Callers
<1>2. lwip \in [used : SUBSET Fds, peer : BOOLEAN, closed : BOOLEAN, taken : Nat]
      /\ ethernet_open \in BOOLEAN
  BY DEF SockInv, Typed
<1> QED
  BY <1>1, <1>2, CallerPlaces DEF Typed

(* A call begins, or is refused, with nothing moved. *)
LEMMA BeginStep ==
    ASSUME SockInv, NEW t \in Callers, Begin(t)
    PROVE  SockInv'
<1>1. PICK r \in Int : call' = [call EXCEPT ![t] = [n |-> 0, moved |-> <<>>, result |-> r]]
  BY DEF Begin
<1>2. toCore' = toCore /\ lost' = lost /\ lwip' = lwip /\ pc[t] = "idle" /\ pc'[t] # "return"
  BY DEF Begin, To, SockInv, Typed, Callers
<1>3. call' \in [Callers -> [n : Nat, moved : Seq(Nat), result : Int]]
  <2>1. [n |-> 0, moved |-> <<>>, result |-> r] \in [n : Nat, moved : Seq(Nat), result : Int]
    OBVIOUS
  <2> QED
    BY <1>1, <2>1 DEF SockInv, Typed
<1>4. Typed'
  BY <1>2, <1>3, CallerTyped DEF SockInv, Typed
<1>5. Connecting' /\ NoFdLeak'
  BY CallerConnecting
<1>6. /\ call'[t].moved = <<>> /\ call'[t].n = 0
      /\ \A u \in Callers : u # t => call'[u] = call[u]
      /\ call[t].moved = <<>>
  BY <1>1, <1>2 DEF SockInv, Typed, Moving
<1>7. Piece(0, 0) = <<>> /\ Len(<<>>) = 0
  <2>1. Piece(0, 0) \in Seq(Nat) /\ Len(Piece(0, 0)) = 0
    BY Pieces
  <2> QED
    BY <2>1, EmptySeq
<1>8. \A u \in Callers : u # t => pc'[u] = pc[u]
  BY CallerPlaces
<1>9. Moving'
  BY <1>2, <1>6, <1>7, <1>8 DEF SockInv, Moving, Callers
<1> QED
  BY <1>4, <1>5, <1>9 DEF SockInv

(* A call ends with what it has moved, or with an error. *)
LEMMA EndStep ==
    ASSUME SockInv, NEW t \in Callers, Ends(t)
    PROVE  SockInv'
<1>1. call[t].n \in Nat
  BY DEF SockInv, Typed
<1>2. PICK r \in {call[t].n, -1} :
           /\ call' = [call EXCEPT ![t].result = r]
           /\ lost' = (lost \/ (r = -1 /\ t = "recv" /\ call[t].n > 0))
  <2>1. CASE Fails(t)
    BY <2>1 DEF Fails, Result
  <2>2. CASE Timeout(t) \/ Full(t) \/ Closed(t)
    <3>1. call' = [call EXCEPT ![t].result = call[t].n] /\ lost' = lost
      BY <2>2 DEF Timeout, Full, Closed, Result
    <3>2. lost \in BOOLEAN /\ call[t].n # -1
      BY <1>1 DEF SockInv, Typed
    <3> QED
      BY <3>1, <3>2
  <2> QED
    BY <2>1, <2>2 DEF Ends
<1>3. toCore' = toCore /\ lwip' = lwip /\ pc[t] = "loop" /\ pc'[t] = "return"
  BY DEF Ends, Timeout, Full, Fails, Closed, To, SockInv, Typed, Callers
<1>4. /\ call' \in [Callers -> [n : Nat, moved : Seq(Nat), result : Int]]
      /\ call'[t].result = r
      /\ \A u \in Callers : call'[u].n = call[u].n /\ call'[u].moved = call[u].moved
      /\ \A u \in Callers : u # t => call'[u] = call[u]
  <2>1. call \in [Callers -> [n : Nat, moved : Seq(Nat), result : Int]] /\ r \in Int
    BY <1>1, <1>2 DEF SockInv, Typed
  <2>2. \A u \in Callers : u # t => call'[u] = call[u]
    BY <1>2, <2>1
  <2>3. call'[t] = [call[t] EXCEPT !.result = r]
    BY <1>2, <2>1
  <2>4. /\ call'[t] \in [n : Nat, moved : Seq(Nat), result : Int] /\ call'[t].result = r
        /\ call'[t].n = call[t].n /\ call'[t].moved = call[t].moved
    BY <2>1, <2>3
  <2>5. call' \in [Callers -> [n : Nat, moved : Seq(Nat), result : Int]]
    BY <1>2, <2>1, <2>2, <2>4
  <2> QED
    BY <2>2, <2>4, <2>5
<1>5. lost' \in BOOLEAN
  BY <1>2
<1>6. Typed'
  BY <1>3, <1>4, <1>5, CallerTyped DEF SockInv, Typed
<1>7. Connecting' /\ NoFdLeak'
  BY CallerConnecting
<1>8. \A u \in Callers : u # t => pc'[u] = pc[u]
  BY CallerPlaces
<1>9. /\ pc'["send"] \in {"loop", "return"} => call'["send"].moved = Piece(0, call'["send"].n)
      /\ \A u \in Callers : pc'[u] = "return" => call'[u].result \in {call'[u].n, -1}
      /\ \A u \in Callers : pc'[u] \in {"none", "idle"} => call'[u].moved = <<>>
      /\ pc'["recv"] \in {"loop", "return"} => Len(call'["recv"].moved) = call'["recv"].n
  BY <1>2, <1>3, <1>4, <1>8 DEF SockInv, Moving, Callers
<1>10. ~lost' => ~lost
  BY <1>2
<1>11. pc'["recv"] = "return" /\ call'["recv"].result = -1 /\ ~lost' => call'["recv"].n = 0
  <2>1. CASE t = "recv"
    <3>1. call'["recv"].result = r /\ call'["recv"].n = call[t].n
      BY <1>4, <2>1
    <3>2. r = -1 /\ ~lost' => ~(call[t].n > 0)
      BY <1>2, <2>1
    <3> QED
      BY <1>1, <3>1, <3>2
  <2>2. CASE t # "recv"
    BY <1>4, <1>8, <1>10, <2>2 DEF SockInv, Moving, Callers
  <2> QED
    BY <2>1, <2>2
<1>12. ~lost' => toCore' \o call'["recv"].moved = Piece(0, lwip'.taken)
  BY <1>3, <1>4, <1>10 DEF SockInv, Moving, Callers
<1> QED
  BY <1>6, <1>7, <1>9, <1>11, <1>12 DEF SockInv, Moving

(* enet_recv hands what it has moved to the core, when there is any. *)
LEMMA ReturnStep ==
    ASSUME SockInv, NEW t \in Callers, Return(t)
    PROVE  SockInv'
<1>1. /\ call \in [Callers -> [n : Nat, moved : Seq(Nat), result : Int]] /\ toCore \in Seq(Nat)
      /\ lost \in BOOLEAN
  BY DEF SockInv, Typed
<1>2. /\ call' = [call EXCEPT ![t].n = 0, ![t].moved = <<>>] /\ lost' = lost /\ lwip' = lwip
      /\ pc[t] = "return" /\ pc'[t] = "idle"
      /\ toCore' = IF t = "recv" /\ call[t].result > 0 THEN toCore \o call[t].moved ELSE toCore
  BY DEF Return, To, SockInv, Typed, Callers
<1>3. \A u \in Callers : u # t => call'[u] = call[u]
  BY <1>1, <1>2
<1>4. call'[t].n = 0 /\ call'[t].moved = <<>> /\ call'[t].result = call[t].result
  BY <1>1, <1>2
<1>5. call' \in [Callers -> [n : Nat, moved : Seq(Nat), result : Int]]
  <2>1. call'[t] \in [n : Nat, moved : Seq(Nat), result : Int]
    <3>1. call'[t] = [[call[t] EXCEPT !.n = 0] EXCEPT !.moved = <<>>]
      BY <1>1, <1>2
    <3>2. <<>> \in Seq(Nat)
      OBVIOUS
    <3>3. PICK c \in [n : Nat, moved : Seq(Nat), result : Int] : c = call[t]
      BY <1>1
    <3>4. [c EXCEPT !.n = 0] \in [n : Nat, moved : Seq(Nat), result : Int]
      OBVIOUS
    <3>5. [[c EXCEPT !.n = 0] EXCEPT !.moved = <<>>] \in [n : Nat, moved : Seq(Nat), result : Int]
      BY <3>2, <3>4
    <3> QED
      BY <3>1, <3>3, <3>5
  <2> QED
    BY <1>1, <1>2, <1>3, <2>1
<1>6. toCore' \in Seq(Nat)
  BY <1>1, <1>2
<1>7. Typed'
  BY <1>1, <1>2, <1>5, <1>6, CallerTyped
<1>8. Connecting' /\ NoFdLeak'
  BY CallerConnecting
<1>9. \A u \in Callers : u # t => pc'[u] = pc[u]
  BY CallerPlaces
<1>10. /\ pc'["send"] \in {"loop", "return"} => call'["send"].moved = Piece(0, call'["send"].n)
       /\ \A u \in Callers : pc'[u] = "return" => call'[u].result \in {call'[u].n, -1}
       /\ \A u \in Callers : pc'[u] \in {"none", "idle"} => call'[u].moved = <<>>
       /\ pc'["recv"] \in {"loop", "return"} => Len(call'["recv"].moved) = call'["recv"].n
       /\ pc'["recv"] = "return" /\ call'["recv"].result = -1 /\ ~lost' => call'["recv"].n = 0
  BY <1>2, <1>3, <1>4, <1>9 DEF SockInv, Moving, Callers
<1>11. ASSUME ~lost PROVE toCore' \o call'["recv"].moved = Piece(0, lwip'.taken)
  <2>1. toCore \o call["recv"].moved = Piece(0, lwip.taken)
    BY <1>11 DEF SockInv, Moving
  <2>2. CASE t # "recv"
    BY <1>2, <1>3, <2>1, <2>2 DEF Callers
  <2>3. CASE t = "recv" /\ call[t].result > 0
    <3>1. toCore' = Piece(0, lwip.taken) /\ call'["recv"].moved = <<>>
      BY <1>2, <1>4, <2>1, <2>3
    <3>2. toCore' \o <<>> = toCore'
      BY <1>6, ConcatEmptySeq
    <3> QED
      BY <1>2, <3>1, <3>2
  <2>4. CASE t = "recv" /\ ~(call[t].result > 0)
    <3>1. call[t].n = 0
      <4>1. call[t].result \in {call[t].n, -1} /\ call[t].n \in Nat
        BY <1>1, <1>2 DEF SockInv, Moving
      <4>2. call[t].result = -1 => call[t].n = 0
        BY <1>2, <1>11, <2>4 DEF SockInv, Moving
      <4> QED
        BY <2>4, <4>1, <4>2
    <3>2. call[t].moved \in Seq(Nat) /\ Len(call[t].moved) = 0
      BY <1>1, <1>2, <2>4, <3>1 DEF SockInv, Moving
    <3>3. call[t].moved = <<>>
      BY <3>2, EmptySeq
    <3> QED
      BY <1>2, <1>4, <2>1, <2>4, <3>3
  <2> QED
    BY <2>2, <2>3, <2>4
<1> QED
  BY <1>2, <1>7, <1>8, <1>10, <1>11 DEF SockInv, Moving

(* Rounds of send_all and receive_all: the bytes that follow those moved. *)
LEMMA RoundStep ==
    ASSUME SockInv, send_all \/ receive_all
    PROVE  SockInv'
<1>1. /\ call \in [Callers -> [n : Nat, moved : Seq(Nat), result : Int]] /\ toCore \in Seq(Nat)
      /\ lwip \in [used : SUBSET Fds, peer : BOOLEAN, closed : BOOLEAN, taken : Nat]
      /\ BUF_SIZE \in Nat
  BY EthAssumption DEF SockInv, Typed
<1>2. PICK t \in Callers, b \in Nat, ret \in Nat :
         /\ call' = [call EXCEPT ![t].n = @ + ret, ![t].moved = @ \o Piece(b, ret)]
         /\ pc[t] = "loop" /\ UNCHANGED <<pc, net, sock, toCore, lost, calls>>
         /\ t = "send" => b = call[t].n /\ lwip' = lwip
         /\ t = "recv" => b = lwip.taken /\ lwip' = [lwip EXCEPT !.taken = @ + ret]
  <2>1. CASE send_all
    <3>1. PICK ret \in 1 .. BUF_SIZE - call["send"].n :
            call' = [call EXCEPT !["send"].n = @ + ret,
                                 !["send"].moved = @ \o [k \in 1 .. ret |-> call["send"].n + k]]
      BY <2>1 DEF send_all
    <3>2. "send" \in Callers /\ call["send"].n \in Nat
      BY <1>1 DEF Callers
    <3>3. ret \in Nat
      BY <1>1, <3>2
    <3>4. pc["send"] = "loop" /\ UNCHANGED <<pc, net, sock, toCore, lost, calls>> /\ lwip' = lwip
      BY <2>1 DEF send_all
    <3> QED
      BY <3>1, <3>2, <3>3, <3>4 DEF Piece
  <2>2. CASE receive_all
    <3>1. PICK ret \in 1 .. BUF_SIZE - call["recv"].n :
            /\ lwip' = [lwip EXCEPT !.taken = @ + ret]
            /\ call' = [call EXCEPT !["recv"].n = @ + ret,
                                    !["recv"].moved = @ \o [k \in 1 .. ret |-> lwip.taken + k]]
      BY <2>2 DEF receive_all
    <3>2. "recv" \in Callers /\ call["recv"].n \in Nat /\ lwip.taken \in Nat
      BY <1>1 DEF Callers
    <3>3. ret \in Nat
      BY <1>1, <3>2
    <3>4. pc["recv"] = "loop" /\ UNCHANGED <<pc, net, sock, toCore, lost, calls>>
      BY <2>2 DEF receive_all
    <3> QED
      BY <3>1, <3>2, <3>3, <3>4 DEF Piece
  <2> QED
    BY <2>1, <2>2
<1>3. /\ \A u \in Callers : u # t => call'[u] = call[u]
      /\ call'[t].n = call[t].n + ret /\ call'[t].moved = call[t].moved \o Piece(b, ret)
      /\ call'[t].result = call[t].result
  BY <1>1, <1>2
<1>4. Piece(b, ret) \in Seq(Nat) /\ Len(Piece(b, ret)) = ret
  BY Pieces
<1>5. call[t].n \in Nat /\ call[t].moved \in Seq(Nat) /\ call'[t].moved \in Seq(Nat)
      /\ Len(call'[t].moved) = Len(call[t].moved) + ret
  <2>1. call[t].n \in Nat /\ call[t].moved \in Seq(Nat)
    BY <1>1
  <2>2. /\ call[t].moved \o Piece(b, ret) \in Seq(Nat)
        /\ Len(call[t].moved \o Piece(b, ret)) = Len(call[t].moved) + Len(Piece(b, ret))
    BY <1>4, <2>1, ConcatProperties
  <2> QED
    BY <1>3, <1>4, <2>1, <2>2
<1>6. call' \in [Callers -> [n : Nat, moved : Seq(Nat), result : Int]]
  <2>1. call'[t] \in [n : Nat, moved : Seq(Nat), result : Int]
    <3>1. call'[t] = [[call[t] EXCEPT !.n = @ + ret] EXCEPT !.moved = @ \o Piece(b, ret)]
      BY <1>1, <1>2
    <3>2. call[t].n + ret \in Nat /\ call[t].moved \o Piece(b, ret) \in Seq(Nat)
      BY <1>3, <1>5
    <3> QED
      BY <1>1, <3>1, <3>2
  <2> QED
    BY <1>1, <1>2, <1>3, <2>1
<1>7. /\ lwip' \in [used : SUBSET Fds, peer : BOOLEAN, closed : BOOLEAN, taken : Nat]
      /\ lwip'.used = lwip.used /\ lwip'.peer = lwip.peer /\ lwip'.closed = lwip.closed
      /\ lwip'.taken = IF t = "recv" THEN lwip.taken + ret ELSE lwip.taken
  <2>1. CASE t = "send"
    BY <1>1, <1>2, <2>1
  <2>2. CASE t = "recv"
    <3>1. lwip.taken + ret \in Nat
      BY <1>1
    <3> QED
      BY <1>1, <1>2, <2>2, <3>1
  <2> QED
    BY <2>1, <2>2 DEF Callers
<1>8. Typed'
  BY <1>2, <1>6, <1>7 DEF SockInv, Typed, net
<1>9. Connecting' /\ NoFdLeak'
  BY <1>2, <1>7 DEF SockInv, Connecting, NoFdLeak, net
<1>10. /\ \A u \in Callers : pc'[u] = "return" => call'[u].result \in {call'[u].n, -1}
       /\ \A u \in Callers : pc'[u] \in {"none", "idle"} => call'[u].moved = <<>>
       /\ pc'["recv"] = "return" /\ call'["recv"].result = -1 /\ ~lost' => call'["recv"].n = 0
  BY <1>2, <1>3 DEF SockInv, Moving, Callers
<1>11. pc'["recv"] \in {"loop", "return"} => Len(call'["recv"].moved) = call'["recv"].n
  BY <1>2, <1>3, <1>5 DEF SockInv, Moving, Callers
<1>12. ASSUME pc'["send"] \in {"loop", "return"}
       PROVE  call'["send"].moved = Piece(0, call'["send"].n)
  <2>1. call["send"].moved = Piece(0, call["send"].n)
    BY <1>2, <1>12 DEF SockInv, Moving
  <2>2. CASE t = "send"
    <3>1. Piece(0, call[t].n) \o Piece(0 + call[t].n, ret) = Piece(0, call[t].n + ret)
      BY <1>5, Pieces
    <3>2. 0 + call[t].n = b
      BY <1>2, <1>5, <2>2
    <3> QED
      BY <1>3, <2>1, <2>2, <3>1, <3>2
  <2>3. CASE t # "send"
    BY <1>3, <2>1, <2>3 DEF Callers
  <2> QED
    BY <2>2, <2>3
<1>13. ASSUME ~lost PROVE toCore' \o call'["recv"].moved = Piece(0, lwip'.taken)
  <2>1. toCore \o call["recv"].moved = Piece(0, lwip.taken) /\ toCore' = toCore
    BY <1>2, <1>13 DEF SockInv, Moving
  <2>2. CASE t = "recv"
    <3>1. (toCore \o call[t].moved) \o Piece(b, ret) = toCore \o (call[t].moved \o Piece(b, ret))
      <4>1. toCore \in Seq(Nat) /\ call[t].moved \in Seq(Nat) /\ Piece(b, ret) \in Seq(Nat)
        BY <1>1, <1>4, <1>5
      <4> QED
        BY <4>1, Appended
    <3>2. Piece(0, lwip.taken) \o Piece(0 + lwip.taken, ret) = Piece(0, lwip.taken + ret)
      BY <1>1, Pieces
    <3>3. 0 + lwip.taken = b
      BY <1>1, <1>2, <2>2
    <3> QED
      BY <1>3, <1>7, <2>1, <2>2, <3>1, <3>2, <3>3
  <2>3. CASE t # "recv"
    BY <1>3, <1>7, <2>1, <2>3 DEF Callers
  <2> QED
    BY <2>2, <2>3
<1> QED
  BY <1>2, <1>8, <1>9, <1>10, <1>11, <1>12, <1>13 DEF SockInv, Moving

(* Every step keeps the invariant. *)
LEMMA SockStep == SockInv /\ [Next]_vars => SockInv'
<1> SUFFICES ASSUME SockInv, [Next]_vars PROVE SockInv'
  OBVIOUS
<1>1. CASE \/ EthernetInterface_init \/ tcpip_init_done \/ init_netif
           \/ EthernetInterface_connect \/ netif_link_callback \/ LinkUp \/ LinkTimeout
           \/ init_socket \/ lwip_connect \/ GiveUp
  BY <1>1, MainStep
<1>2. ASSUME NEW t \in Callers, Begin(t) PROVE SockInv'
  BY <1>2, BeginStep
<1>3. ASSUME NEW t \in Callers, Timeout(t) \/ Full(t) \/ Fails(t) \/ Closed(t) PROVE SockInv'
  BY <1>3, EndStep DEF Ends
<1>4. ASSUME NEW t \in Callers, Return(t) PROVE SockInv'
  BY <1>4, ReturnStep
<1>5. CASE send_all \/ receive_all
  BY <1>5, RoundStep
<1>6. CASE PeerCloses
  <2>1. lwip' = [lwip EXCEPT !.closed = TRUE] /\ UNCHANGED <<pc, net, sock, io>>
    BY <1>6 DEF PeerCloses
  <2>2. Typed'
    BY <2>1 DEF SockInv, Typed, net, io
  <2>3. lwip'.used = lwip.used /\ lwip'.peer = lwip.peer /\ lwip'.closed /\ lwip'.taken = lwip.taken
    BY <2>1 DEF SockInv, Typed
  <2>4. Connecting' /\ NoFdLeak'
    BY <2>1, <2>3 DEF SockInv, Connecting, NoFdLeak, net, io
  <2>5. Moving'
    BY <2>1, <2>3 DEF SockInv, Moving, net, io
  <2> QED
    BY <2>2, <2>4, <2>5 DEF SockInv
<1>7. CASE UNCHANGED vars
  BY <1>7 DEF vars, SockInv, Typed, Connecting, NoFdLeak, Moving
<1> QED
  BY <1>1, <1>2, <1>3, <1>4, <1>5, <1>6, <1>7 DEF Next

(* However many attempts to connect fail, lwIP has no descriptor in use that  *)
(* the socket object has forgotten, and the network counts as open only with  *)
(* one (CloseSocket in init_ethernet's loop), for any number of attempts.     *)
THEOREM NoDescriptorLost == Spec => []NoFdLeak
<1>1. SockInv => NoFdLeak
  BY DEF SockInv
<1> QED
  BY SockInit, SockStep, <1>1, PTL DEF Spec

(* send_all has sent the first bytes of the text and the core gets the stream *)
(* of the peer without gaps, for every size of the buffer and of the stream.  *)
THEOREM BytesInOrder == Spec => []StreamsExact
<1>1. SockInv => StreamsExact
  <2> SUFFICES ASSUME SockInv PROVE SentExact /\ ReceivedInOrder
    BY DEF StreamsExact
  <2>1. SentExact
    <3> SUFFICES ASSUME pc["send"] = "return", call["send"].result >= 0
                 PROVE  call["send"].moved = [k \in 1 .. call["send"].result |-> k]
      BY DEF SentExact
    <3>1. call["send"].result = call["send"].n /\ call["send"].n \in Nat
      BY DEF SockInv, Moving, Typed, Callers
    <3>2. call["send"].moved = [k \in 1 .. call["send"].n |-> 0 + k]
      BY DEF SockInv, Moving, Piece
    <3>3. [k \in 1 .. call["send"].n |-> 0 + k] = [k \in 1 .. call["send"].n |-> k]
      BY <3>1
    <3> QED
      BY <3>1, <3>2, <3>3
  <2>2. ReceivedInOrder
    <3> SUFFICES ASSUME ~lost, NEW k \in 1 .. Len(toCore) PROVE toCore[k] = k
      BY DEF ReceivedInOrder
    <3> DEFINE moved == call["recv"].moved
    <3>1. toCore \in Seq(Nat) /\ moved \in Seq(Nat) /\ lwip.taken \in Nat
      BY DEF SockInv, Typed, Callers
    <3>2. toCore \o moved = Piece(0, lwip.taken)
      BY DEF SockInv, Moving
    <3> HIDE DEF moved
    <3>3. (toCore \o moved)[k] = toCore[k] /\ k \in 1 .. Len(toCore \o moved)
      BY <3>1
    <3>4. Len(Piece(0, lwip.taken)) = lwip.taken
      BY <3>1, Pieces
    <3>5. Piece(0, lwip.taken)[k] = k
      <4>1. k \in 1 .. lwip.taken
        BY <3>2, <3>3, <3>4
      <4> QED
        BY <3>1, <4>1 DEF Piece
    <3> QED
      BY <3>2, <3>3, <3>5
  <2> QED
    BY <2>1, <2>2
<1> QED
  BY SockInit, SockStep, <1>1, PTL DEF Spec
=============================================================================
