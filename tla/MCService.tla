----------------------------- MODULE MCService -----------------------------
(***************************************************************************)
(* Firmware in two scenarios, the one of the configuration's constants and *)
(* a second one.                                                           *)
(***************************************************************************)
EXTENDS Firmware

CONSTANTS ReqTypes2, Lines2, EthernetUp2, MaxFaults2, Garbles2

VARIABLE second   \* which of the two scenarios a behaviour belongs to

Second == INSTANCE Firmware WITH
    ReqTypes   <- ReqTypes2,
    Lines      <- Lines2,
    EthernetUp <- EthernetUp2,
    MaxFaults  <- MaxFaults2,
    Garbles    <- Garbles2

MCInit ==
    \/ second = FALSE /\ Init
    \/ second = TRUE  /\ Second!Init

MCNext ==
    \/ second = FALSE /\ Next        /\ UNCHANGED second
    \/ second = TRUE  /\ Second!Next /\ UNCHANGED second

MCSpec == MCInit /\ [][MCNext]_<<second, vars>>

=============================================================================
