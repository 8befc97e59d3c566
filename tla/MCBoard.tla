------------------------------ MODULE MCBoard -------------------------------
(***************************************************************************)
(* The drivers of the board side by side: the power supplies, whose state  *)
(* is that of Power, which this module extends, the JTAG debug port, the   *)
(* buffers shared with the core and the wireless module. A behaviour is    *)
(* one of the scenarios below; v1, v2, ... are the state of the one it     *)
(* belongs to.                                                             *)
(***************************************************************************)
EXTENDS Power

VARIABLES
    part,   \* which scenario a behaviour belongs to
    v1, v2, v3, v4, v5, v6, v7, v8, v9, v10   \* its state

all == <<part, vars, v1, v2, v3, v4, v5, v6, v7, v8, v9, v10>>

Port == INSTANCE DebugPort WITH
    tap <- v1, op <- v2, todo <- v3, got <- v4, want <- v5, powered <- v6,
    panicked <- v7, faults <- v8, ops <- v9,
    Block <- 2, Sizes <- {1, 2, 3}, Bases <- {0, 9}, MaxFaults <- 0,
    Programs <- {3}, MaxOps <- 3

Buf == INSTANCE SharedBuf WITH
    pc <- v1, svc <- v2, writebuf <- v3, readbuf <- v4, buffer <- v5,
    source <- v6, i <- v7, len <- v8, posted <- v9, ret <- v10,
    WordBytes <- 2, BufWords <- 3, Chars <- {"a", "b"}, MaxText <- 6

\* characters arrive while the ring is full
Overrun == INSTANCE WifiStream WITH
    pc <- v1, write <- v2, read <- v3, buf <- v4, nb <- v5, reg <- v6,
    idx <- v7, data <- v8, arrived <- v9, calls <- v10,
    Overruns <- TRUE, Length <- 3, MaxChars <- 8, Request <- 2, MaxCalls <- 3

Module == INSTANCE Wifly WITH
    op <- v1, script <- v2, phase <- v3, cmd_mode <- v4, module <- v5,
    tries <- v6, joins <- v7, wireless_open <- v8, leaked <- v9, lost <- v10,
    MAX_TRY <- 3, MAX_TRY_JOIN <- 3, MaxLost <- 4

MCInit ==
    /\ Init
    /\ \/ part = "power" /\ v1 = 0 /\ v2 = 0 /\ v3 = 0 /\ v4 = 0 /\ v5 = 0 /\ v6 = 0
            /\ v7 = 0 /\ v8 = 0 /\ v9 = 0 /\ v10 = 0
       \/ part = "port" /\ Port!Init /\ v10 = 0
       \/ part = "buf" /\ Buf!Init
       \/ part = "overrun" /\ Overrun!Init
       \/ part = "wifly" /\ Module!Init

MCNext ==
    \/ part = "power" /\ Next
         /\ UNCHANGED <<part, v1, v2, v3, v4, v5, v6, v7, v8, v9, v10>>
    \/ part = "port" /\ Port!Next /\ UNCHANGED <<part, vars, v10>>
    \/ part = "buf" /\ Buf!Next /\ UNCHANGED <<part, vars>>
    \/ part = "overrun" /\ Overrun!Next /\ UNCHANGED <<part, vars>>
    \/ part = "wifly" /\ Module!Next /\ UNCHANGED <<part, vars>>

MCSpec == MCInit /\ [][MCNext]_all

(* A read over JTAG returns the word that is in the memory and a write      *)
(* changes that word alone, over blocks, address wraps and answers of WAIT  *)
(* (memRead, memWrite, readNext); every scan leaves the TAP idle for the    *)
(* next one, and the driver raises no alarm without a fault.                *)
AccessExact ==
    /\ part = "port" =>
          /\ Port!ReadsExact
          /\ Port!MemoryExact
          /\ Port!IdleBetweenScans
          /\ Port!NoFalseAlarm

(* The copy loops of shared_buf.cpp deliver exactly the text in both        *)
(* directions: also when it fills its last word, the whole of WRITEBUF      *)
(* without a terminator or the buffer of the mbed, or follows a longer one. *)
(* The core finds the end of a text unless it has BUF_SIZE characters.      *)
TextsExact ==
    /\ part = "buf" => Buf!CopyExact /\ Buf!ReadbackIntact

(* When init_wifi says the network is open the module takes data, whichever *)
(* answers got lost, and no command of the driver ever reaches the peer of  *)
(* the connection (cmdMode, open); characters come out of the ring of the   *)
(* serial line in order and none twice, even when the handler overwrites    *)
(* the oldest ones between two accesses of the thread (handler_rx, getc).   *)
WirelessExact ==
    /\ part = "wifly" => Module!OpenTakesData /\ Module!NoCommandToPeer
    /\ part = "overrun" => Overrun!InOrder
=============================================================================
