------------------------------- MODULE Power -------------------------------
(***************************************************************************)
(* The power supplies of the chip: the channels of the DACs (dac.cpp), the  *)
(* sequences power_up, power_core and power_down (power.cpp), who calls     *)
(* them (init_hw.cpp, main.cpp, panic.cpp), and a restart of the mbed that  *)
(* leaves the DACs as they are.  A step is one write to a DAC over I2C,     *)
(* which the DAC may refuse, or one group of pin assignments.  Voltages are *)
(* in hundredths of a volt.                                                 *)
(***************************************************************************)
EXTENDS Integers, Sequences

CONSTANTS
    Panics,        \* may a worker panic while main is at work?
    MaxRestarts    \* how often the mbed restarts

Rail33 == {"ADVDD", "DVDD"}
Rail18 == {"ADVDD2", "DVDD2"}
CoreRails == {"COREVDD", "MEM1VDD", "MEM2VDD", "CLOCKVDD", "PLLAVDD", "SENSORVDD",
              "SENSORLOWVDD", "SENSORSTRESSVDD"}
Rails == Rail33 \cup Rail18 \cup CoreRails \cup {"PADVDD", "RING_OSC_NBIAS"}
Threads == {"main", "worker"}

VARIABLES
    todo,       \* of each thread, the writes left of the sequence it is in
    at,         \* of each thread, where it is
    dac,        \* the code of each channel
    pins,       \* the input pins of the chip that are high
    power_indicator,
    restarts

vars == <<todo, at, dac, pins, power_indicator, restarts>>

-----------------------------------------------------------------------------
(* Code = voltage * 4096 / 3.3, sent in two bytes of data. *)
full_code(volt) == (1241 * volt) \div 100
dac_data(volt) == <<(full_code(volt) \div 16) % 256, full_code(volt) % 16>>
DacLevel(bytes) == bytes[1] * 16 + bytes[2]

Min1(volt) == IF volt > 100 THEN 100 ELSE volt

(* Mutant of power_up: the 3.3 V of the padring first. *)
power_up_PadringFirst(v) ==
    <<<<"ADVDD", 330>>, <<"DVDD", 330>>, <<"ADVDD2", 180>>, <<"DVDD2", 180>>>>

power_up(v) ==
    LET core   == Min1(v)
        periph == IF core < 95 THEN 95 ELSE core
    IN  <<<<"ADVDD2", 180>>, <<"DVDD2", 180>>, <<"ADVDD", 330>>, <<"DVDD", 330>>,
          <<"PADVDD", 100>>, <<"COREVDD", core>>, <<"MEM1VDD", periph>>, <<"MEM2VDD", periph>>,
          <<"CLOCKVDD", periph>>, <<"PLLAVDD", 100>>, <<"RING_OSC_NBIAS", 75>>,
          <<"SENSORVDD", core>>, <<"SENSORLOWVDD", 35>>, <<"SENSORSTRESSVDD", 100>>>>

power_core(v) ==
    LET core   == Min1(v)
        periph == IF core < 90 THEN 90 ELSE core
        mem    == IF core < 80 THEN core + 5 ELSE core
    IN  <<<<"PADVDD", periph>>, <<"COREVDD", core>>, <<"MEM1VDD", mem>>, <<"MEM2VDD", mem>>,
          <<"CLOCKVDD", periph>>, <<"PLLAVDD", periph>>, <<"SENSORVDD", core>>,
          <<"SENSORLOWVDD", 35>>, <<"SENSORSTRESSVDD", periph>>>>

power_down ==
    <<<<"COREVDD", 0>>, <<"MEM1VDD", 0>>, <<"MEM2VDD", 0>>, <<"CLOCKVDD", 0>>, <<"PLLAVDD", 0>>,
      <<"RING_OSC_NBIAS", 0>>, <<"SENSORVDD", 0>>, <<"SENSORLOWVDD", 0>>,
      <<"SENSORSTRESSVDD", 0>>, <<"ADVDD", 0>>, <<"DVDD", 0>>, <<"PADVDD", 0>>,
      <<"ADVDD2", 0>>, <<"DVDD2", 0>>>>

-----------------------------------------------------------------------------
Init ==
    /\ todo = [t \in Threads |-> <<>>]
    /\ at = [main |-> "new", worker |-> "wait"]
    /\ dac = [r \in Rails |-> 0]
    /\ pins = {} /\ power_indicator = 0 /\ restarts = 0

(* A worker that panics ends with exit, which stops every thread. *)
Running == at["worker"] # "off"

(* A write that the DAC acknowledges; refused writes are repeated and change  *)
(* nothing.                                                                   *)
power_chan(t) ==
    /\ Running /\ todo[t] # <<>>
    /\ LET w == Head(todo[t]) IN dac' = [dac EXCEPT ![w[1]] = DacLevel(dac_data(w[2]))]
    /\ todo' = [todo EXCEPT ![t] = Tail(@)]
    /\ UNCHANGED <<at, pins, power_indicator, restarts>>

(* Thread t has done a sequence and comes from label a to label b. *)
Goto(t, a, b) == Running /\ at[t] = a /\ todo[t] = <<>> /\ at' = [at EXCEPT ![t] = b]

(* Mutant of ZeroInputs: the scan chain is left alone. *)
ZeroInputs_Some == pins' = pins \cap {"scan_data_in", "scan_phi"}

(* The inputs are zeroed so that they are not above DVDD when it is lowered. *)
ZeroInputs == pins' = {}

(* Where a thread is while it runs power_down, by where it came from. *)
DownFrom == [start |-> "start_down", id |-> "id_down", load |-> "load_down",
             serve |-> "serve_down", wait |-> "wait_down"]

BeginDown(t, a) ==
    /\ Goto(t, a, DownFrom[a])
    /\ ZeroInputs
    /\ todo' = [todo EXCEPT ![t] = power_down]
    /\ UNCHANGED <<dac, power_indicator, restarts>>

(* The JTAG object is made before anything has power: the constructor resets  *)
(* the TAP, which toggles TMS and TCK, and leaves the pins low.               *)
NewJtag ==
    /\ at["main"] = "new"
    /\ \E s \in SUBSET {"TCK", "TMS"} : pins' = s
    /\ UNCHANGED <<todo, at, dac, power_indicator, restarts>>
NewJtagDone ==
    /\ Goto("main", "new", "start")
    /\ pins' = {}
    /\ UNCHANGED <<todo, dac, power_indicator, restarts>>

(* init_hw: power down, power up, reset the chip, read its ID, set up the     *)
(* scan pins.                                                                 *)
InitDown == BeginDown("main", "start")

InitUp ==
    /\ Goto("main", "start_down", "up")
    /\ power_indicator' = 0
    /\ todo' = [todo EXCEPT !["main"] = power_up(100)]
    /\ UNCHANGED <<dac, pins, restarts>>

InitReset ==
    /\ Goto("main", "up", "id")
    /\ power_indicator' = 1
    /\ pins' = pins \cup {"PORESETn", "CORERESETn"}
    /\ UNCHANGED <<todo, dac, restarts>>

(* The JTAG driver moves TCK, TMS and TDI while main reads the ID, sets the   *)
(* clocks and loads the program, and later in the workers.                    *)
DriveJtag ==
    /\ Running /\ at["main"] \in {"id", "clocks", "load", "serve"} /\ todo["main"] = <<>>
    /\ \E s \in SUBSET {"TCK", "TMS", "TDI"} : pins' = (pins \ {"TCK", "TMS", "TDI"}) \cup s
    /\ UNCHANGED <<todo, at, dac, power_indicator, restarts>>

(* The ID is right: the scan pins are set, the threads and the interrupt exist. *)
InitDone ==
    /\ Goto("main", "id", "clocks")
    /\ pins' = pins \cup {"scan_data_in", "scan_phi"}
    /\ UNCHANGED <<todo, dac, power_indicator, restarts>>

(* The ID is wrong: panic in main, before there is any other thread. *)
InitPanic == BeginDown("main", "id")

PowerCore ==
    /\ Goto("main", "clocks", "load")
    /\ todo' = [todo EXCEPT !["main"] = power_core(100)]
    /\ UNCHANGED <<dac, pins, power_indicator, restarts>>

(* A JTAG access of a worker fails while main is past init_hw. *)
WorkerPanic ==
    /\ Panics /\ at["main"] \in {"clocks", "load", "serve"}
    /\ BeginDown("worker", "wait")

(* The program is loaded: the core is reset, main reads commands; or main     *)
(* itself panics; or the program could not be loaded or the user quits, and   *)
(* the workers are terminated before main powers down.                        *)
CoreReset ==
    /\ Goto("main", "load", "serve")
    /\ pins' = pins \cup {"CORERESETn"}
    /\ UNCHANGED <<todo, dac, power_indicator, restarts>>
LoadPanic == BeginDown("main", "load")
Quit ==
    /\ Running /\ at["main"] \in {"load", "serve"} /\ todo["main"] = <<>>
    /\ at' = [main |-> DownFrom["serve"], worker |-> "gone"]
    /\ ZeroInputs
    /\ todo' = [main |-> power_down, worker |-> <<>>]
    /\ UNCHANGED <<dac, power_indicator, restarts>>

Off(t) ==
    /\ \E a \in {"id", "load", "serve", "wait"} : Goto(t, DownFrom[a], "off")
    /\ power_indicator' = 0
    /\ UNCHANGED <<todo, dac, pins, restarts>>

(* The mbed restarts: its pins float, the DACs keep their codes. *)
Restart ==
    /\ restarts < MaxRestarts
    /\ restarts' = restarts + 1
    /\ todo' = [t \in Threads |-> <<>>]
    /\ at' = [main |-> "new", worker |-> "wait"]
    /\ pins' = {} /\ power_indicator' = 0
    /\ UNCHANGED dac

Next ==
    \/ \E t \in Threads : power_chan(t) \/ Off(t)
    \/ NewJtag \/ NewJtagDone
    \/ InitDown \/ InitUp \/ InitReset \/ InitDone \/ InitPanic \/ DriveJtag
    \/ PowerCore \/ CoreReset \/ LoadPanic \/ Quit \/ WorkerPanic
    \/ Restart

Spec == Init /\ [][Next]_vars

-----------------------------------------------------------------------------
(* "The 1.8V supplies MUST be up whenever the 3.3V ones are": in every state  *)
(* of every sequence, cut short by a restart or run by two threads at once.   *)
RailOrder ==
    (\E r \in Rail33 : dac[r] > 0) => \A r \in Rail18 : dac[r] = full_code(180)

(* No input pin is above DVDD: from init_hw on, until a worker panics, and    *)
(* again after the restart, DVDD is at 3.3 V whenever a pin is high, after    *)
(* every sequence of power cycles, quits, panics of main and restarts.  Not   *)
(* in the constructor of the JTAG object: see InputsNeverAboveDVDD.           *)
InputsBelowDVDD ==
    at["worker"] \in {"wait", "gone"} /\ at["main"] # "new" /\ pins # {} => dac["DVDD"] = full_code(330)

(* No input pin is ever above DVDD while one thread is at work.               *)
(* Not what the code does: README.md, "Known disagreements". *)
InputsNeverAboveDVDD ==
    at["worker"] \in {"wait", "gone"} /\ pins # {} => dac["DVDD"] = full_code(330)

(* Once a worker has panicked and terminated, the core is without power. *)
(* Not what the code does: README.md, "Known disagreements". *)
PanicLeavesCoreOff == at["worker"] = "off" => \A r \in CoreRails : dac[r] = 0

=============================================================================
