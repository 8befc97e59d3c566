------------------------------ MODULE DebugPort ------------------------------
(***************************************************************************)
(* The JTAG driver of jtag.cpp and the debug port of the Cortex-M3 behind   *)
(* it.  The driver toggles TMS and TDI and ticks the clock; the port is a   *)
(* TAP controller with an instruction register, the data registers DPACC,   *)
(* APACC and IDCODE, and a memory access port.  An operation of the driver  *)
(* is a script of register scans; one step carries out one scan, bit by     *)
(* bit.  A word has WordBits bits, an address is a word, and a transfer is  *)
(* cut into blocks of Block words (32 and 1024 in the code).                *)
(***************************************************************************)
EXTENDS Integers, Sequences, SequencesExt

CONSTANTS
    Block,        \* words up to which the access port increments its address
    Sizes,        \* sizes of block transfers
    Bases,        \* addresses at which block transfers start
    MaxFaults,    \* transfers the access port may refuse
    Programs,     \* how many words the file system.hex may hold
    MaxOps        \* operations in one behaviour

WordBits == 4
Words == 0 .. 2^WordBits - 1

(* Registers: the two address bits of a scan, and words with a meaning.       *)
DP_CTRLSTAT == 1
DP_SELECT   == 2
DP_RDBUFF   == 3
AP_CSW      == 0
AP_TAR      == 1
AP_DRW      == 3
AP_IDR      == 3          \* in bank IdBank
IdBank      == 7          \* 0xf
IdrValue    == 9          \* 0x24770011
IdCode      == 6          \* of the TAP
CSW_INC     == 1          \* 0x23000052, automatic increment
CSW_NOINC   == 0          \* 0x23000042
HALTED      == 3          \* C_HALT and C_DEBUGEN
DHCSR_ADDR  == 14
SET_IMEM    == 15
IMEM        == 0          \* 0x10000000

VARIABLES
    tap,      \* the debug port: controller state, registers, the memory behind it
    op,       \* the operation in progress, or "none"
    todo,     \* the scans it has still to make
    got,      \* the words it has read
    want,     \* what it has to read, and the memory it has to leave
    powered,  \* PowerupDAP has succeeded
    panicked, \* panic has been called
    faults,   \* transfers the access port may still refuse
    ops       \* operations still to be started

vars == <<tap, op, todo, got, want, powered, panicked, faults, ops>>

-----------------------------------------------------------------------------
(* Bits.                                                                      *)

Bits(v, n) == [i \in 1 .. n |-> (v \div 2^(i - 1)) % 2]
Value(bits) == FoldLeft(LAMBDA acc, i : acc + bits[i] * 2^(i - 1), 0, [i \in DOMAIN bits |-> i])

IR == [DPACC |-> 10, APACC |-> 11, IDCODE |-> 14]

-----------------------------------------------------------------------------
(* The debug port (external).                                                 *)

TapNext ==
    [Reset     |-> <<"Idle", "Reset">>,      Idle      |-> <<"Idle", "SelectDR">>,
     SelectDR  |-> <<"CaptureDR", "SelectIR">>, SelectIR |-> <<"CaptureIR", "Reset">>,
     CaptureDR |-> <<"ShiftDR", "Exit1DR">>, CaptureIR |-> <<"ShiftIR", "Exit1IR">>,
     ShiftDR   |-> <<"ShiftDR", "Exit1DR">>, ShiftIR   |-> <<"ShiftIR", "Exit1IR">>,
     Exit1DR   |-> <<"PauseDR", "UpdateDR">>, Exit1IR  |-> <<"PauseIR", "UpdateIR">>,
     PauseDR   |-> <<"PauseDR", "Exit2DR">>, PauseIR   |-> <<"PauseIR", "Exit2IR">>,
     Exit2DR   |-> <<"ShiftDR", "UpdateDR">>, Exit2IR  |-> <<"ShiftIR", "UpdateIR">>,
     UpdateDR  |-> <<"Idle", "SelectDR">>,   UpdateIR  |-> <<"Idle", "SelectDR">>]

Capture(t) ==
    CASE t.st = "CaptureIR" -> Bits(1, 4)
      [] t.ir = IR.IDCODE   -> Bits(IdCode, WordBits)
      [] OTHER              -> Bits(IF t.wait THEN 1 ELSE 2, 3) \o Bits(t.rd, WordBits)

(* Automatic increment stays within a block. *)
Advance(t) ==
    IF t.csw = CSW_INC
    THEN (t.tar \div Block) * Block + ((t.tar + 1) % Block)
    ELSE t.tar

(* What a complete scan of DPACC or APACC makes the port do.  Request bits of *)
(* CTRL/STAT are read back with their acknowledge bits; SELECT keeps the bank. *)
Perform(t) ==
    LET read == t.sr[1] = 1
        a    == t.sr[2] + 2 * t.sr[3]
        data == Value(SubSeq(t.sr, 4, Len(t.sr)))
        bank == t.select \div 2
        refused == t.fault \/ t.sticky
    IN  CASE t.ir = IR.DPACC /\ read ->
               [t EXCEPT !.rd = CASE a = DP_CTRLSTAT -> 3 * t.ctrl
                                  [] a = DP_SELECT   -> t.select
                                  [] OTHER           -> 0]
          [] t.ir = IR.DPACC /\ ~read ->
               [t EXCEPT !.ctrl   = IF a = DP_CTRLSTAT THEN (data % 2) + 4 * ((data \div 4) % 2) ELSE @,
                         !.select = IF a = DP_SELECT THEN 2 * (data \div 2) ELSE @]
          [] t.ir = IR.APACC /\ refused -> [t EXCEPT !.sticky = TRUE]
          [] t.ir = IR.APACC /\ ~refused /\ read ->
               [t EXCEPT !.rd  = CASE bank = IdBank /\ a = AP_IDR -> IdrValue
                                   [] bank = 0 /\ a = AP_DRW -> t.mem[t.tar]
                                   [] bank = 0 /\ a = AP_TAR -> t.tar
                                   [] OTHER -> 0,
                         !.tar = IF bank = 0 /\ a = AP_DRW THEN Advance(t) ELSE @]
          [] t.ir = IR.APACC /\ ~refused /\ ~read /\ bank = 0 ->
               [t EXCEPT !.csw = IF a = AP_CSW THEN data ELSE @,
                         !.tar = CASE a = AP_TAR -> data [] a = AP_DRW -> Advance(t) [] OTHER -> @,
                         !.mem = IF a = AP_DRW THEN [@ EXCEPT ![t.tar] = data] ELSE @]
          [] OTHER -> t

(* One rising edge of TCK. *)
Tick(t, tms) ==
    LET nxt == TapNext[t.st][tms + 1]
        u == [t EXCEPT !.st = nxt,
                       !.sr = CASE t.st \in {"CaptureDR", "CaptureIR"} -> Capture(t)
                                [] t.st \in {"ShiftDR", "ShiftIR"} -> Append(Tail(@), t.tdi)
                                [] OTHER -> @]
    IN  CASE nxt = "Reset"    -> [u EXCEPT !.ir = IR.IDCODE]
          [] nxt = "UpdateIR" -> [u EXCEPT !.ir = Value(u.sr)]
          [] nxt = "UpdateDR" /\ ~u.wait -> Perform(u)
          [] OTHER -> u

-----------------------------------------------------------------------------
(* State manipulation and shifting.  What the driver does to the pins is a     *)
(* sequence of clock ticks: the level of TMS, the level TDI gets behind the    *)
(* tick (Keep: none), and whether TDO is sampled before it.                    *)

Keep == 2
clockTicks(tms, n) == [i \in 1 .. n |-> [tms |-> tms, tdi |-> Keep, sample |-> FALSE]]

reset == clockTicks(1, 10)

setState(c) ==
    CASE c = "r" -> reset
      [] c = "d" -> clockTicks(1, 1) \o clockTicks(0, 2)
      [] c = "i" -> clockTicks(1, 2) \o clockTicks(0, 2)

leaveState(c) ==
    CASE c = "r" -> clockTicks(0, 1)
      [] c \in {"i", "d"} -> clockTicks(1, 2) \o clockTicks(0, 1)

shiftBits(data, n) == [i \in 1 .. n |-> [tms |-> 0, tdi |-> Bits(data, n)[i], sample |-> TRUE]]

(* The port and the bits sampled after some ticks. *)
Clock(t, ticks) ==
    FoldLeft(LAMBDA acc, k :
               [t |-> LET u == Tick(acc.t, k.tms) IN IF k.tdi = Keep THEN u ELSE [u EXCEPT !.tdi = k.tdi],
                out |-> IF k.sample THEN Append(acc.out, Head(acc.t.sr)) ELSE acc.out],
             [t |-> t, out |-> <<>>], ticks)

setIR(t, a) == Clock(t, setState("i") \o shiftBits(a, 4) \o leaveState("i"))

(* One round of the loop of shiftData; the status bits come out while the     *)
(* address goes in.  A WAIT leaves the scan after these three bits.           *)
shiftData(t, data, addr, rw) ==
    LET s == Clock(t, setState("d") \o shiftBits(rw, 1) \o shiftBits(addr, 2))
        okstat == Value(s.out)
        r == Clock(s.t, (IF okstat = 2 THEN shiftBits(data, WordBits) ELSE <<>>) \o leaveState("d"))
    IN  [t |-> r.t, data |-> Value(r.out),
         stat |-> CASE okstat = 1 -> "wait" [] okstat = 2 -> "ok" [] OTHER -> "panic"]

-----------------------------------------------------------------------------
(* Scripts.  A scan of the instruction register, of a data register (exp is   *)
(* the value the code insists on, keep says whether the word is a result), of *)
(* IDCODE, or a reset of the TAP.                                             *)

NoExp == -1
Reg(i) == <<[kind |-> "ir", v |-> IR[i]]>>
Data(v, a, rw, keep, exp) ==
    <<[kind |-> "dr", v |-> v, a |-> a, rw |-> rw, keep |-> keep, exp |-> exp]>>

SetIR(set_ir, i) == IF set_ir THEN Reg(i) ELSE <<>>

writeDPACC(v, a) == Reg("DPACC") \o Data(v, a, 0, FALSE, NoExp)
writeAPACC(v, a, set_ir) == SetIR(set_ir, "APACC") \o Data(v, a, 0, FALSE, NoExp)
writeBanksel(bank) == Reg("DPACC") \o Data(2 * bank, DP_SELECT, 0, FALSE, NoExp)
rdBuff(set_ir, keep, exp) == SetIR(set_ir, "DPACC") \o Data(0, DP_RDBUFF, 1, keep, exp)
readDPACC(a, exp) == Reg("DPACC") \o Data(0, a, 1, FALSE, NoExp) \o rdBuff(TRUE, FALSE, exp)
readAPACC(a, keep, exp) == Reg("APACC") \o Data(0, a, 1, FALSE, NoExp) \o rdBuff(TRUE, keep, exp)
(* Mutant of readNext: the result of a scan is taken for that of the same scan. *)
readNext_SameScan(keep) == Data(0, AP_DRW, 1, TRUE, NoExp)
readNext(keep) == Data(0, AP_DRW, 1, keep, NoExp)   \* readAPACC(AP_DRW, false, false)

DAP_enable ==
    <<[kind |-> "reset"]>> \o writeDPACC(5, DP_CTRLSTAT) \o writeDPACC(0, DP_SELECT)
      \o writeAPACC(CSW_NOINC, AP_CSW, TRUE)

PowerupDAP ==
    writeDPACC(5, DP_SELECT) \o readDPACC(DP_SELECT, 4)
      \o writeDPACC(10, DP_SELECT) \o readDPACC(DP_SELECT, 10)
      \o writeDPACC(1, DP_CTRLSTAT) \o readDPACC(DP_CTRLSTAT, 3)
      \o writeDPACC(4, DP_CTRLSTAT) \o readDPACC(DP_CTRLSTAT, 12)
      \o writeDPACC(5, DP_CTRLSTAT) \o readDPACC(DP_CTRLSTAT, 15)
      \o writeBanksel(IdBank) \o readAPACC(AP_IDR, FALSE, IdrValue)

readID == Reg("IDCODE") \o <<[kind |-> "id"]>>

Setup == writeBanksel(0) \o writeAPACC(CSW_INC, AP_CSW, TRUE)

readMemory(addr, exp) ==
    Setup \o writeAPACC(addr, AP_TAR, TRUE) \o readAPACC(AP_DRW, TRUE, exp)

writeMemory(addr, v) ==
    Setup \o writeAPACC(addr, AP_TAR, TRUE) \o writeAPACC(v, AP_DRW, TRUE)

Blocks(size) == (size + Block - 1) \div Block
BlockLen(i, size) == IF (i + 1) * Block <= size THEN Block ELSE size - i * Block
OverBlocks(size, F(_)) ==
    FoldLeft(LAMBDA acc, i : acc \o F(i - 1), <<>>, [i \in 1 .. Blocks(size) |-> i])

(* Reads are pipelined: a scan returns the word of the previous one.  The     *)
(* last word of a block is fetched by rdBuff(false), which still scans APACC. *)
memRead(base, size) ==
    LET Fetch(i) ==
          writeAPACC(base + i * Block, AP_TAR, FALSE) \o readNext(FALSE)
            \o FlattenSeq([j \in 1 .. BlockLen(i, size) - 1 |-> readNext(TRUE)])
            \o rdBuff(FALSE, TRUE, NoExp)
    IN  Setup \o OverBlocks(size, Fetch)

memWrite(base, data) ==
    LET Store(i) ==
          writeAPACC(base + i * Block, AP_TAR, FALSE)
            \o FlattenSeq([j \in 1 .. BlockLen(i, Len(data)) |->
                             writeAPACC(data[i * Block + j], AP_DRW, FALSE)])
    IN  Setup \o OverBlocks(Len(data), Store)

(* The file is read until feof.  When a newline follows the last number, one  *)
(* more fscanf fails and an uninitialised word is written too: d holds all of *)
(* them.  The verification loop begins at the end of the file: it does not    *)
(* run.                                                                       *)
loadProgram(d) ==
    PowerupDAP \o writeMemory(DHCSR_ADDR, HALTED) \o readMemory(DHCSR_ADDR, HALTED)
      \o memWrite(IMEM, d) \o Setup \o writeMemory(SET_IMEM, 1)

-----------------------------------------------------------------------------
mem == tap.mem

Quiet == op = "none" /\ ~panicked

Begin(name, script, result, memory) ==
    /\ Quiet /\ ops > 0
    /\ ops' = ops - 1
    /\ op' = name
    /\ todo' = script
    /\ got' = <<>>
    /\ want' = [op |-> name, got |-> result, mem |-> memory]
    /\ UNCHANGED <<tap, powered, panicked, faults>>

Overwrite(base, data) ==
    [a \in Words |-> IF a \in base .. base + Len(data) - 1 THEN data[a - base + 1] ELSE mem[a]]

(* The access port wraps at a block, so a transfer has to start at one. *)
Fits(base, size) == base % Block = 0 /\ base + size - 1 < DHCSR_ADDR

(* Different words next to each other. *)
Pattern(n, seed) == [i \in 1 .. n |-> (3 * i + seed) % 2^WordBits]

Start ==
    \/ ~powered /\ Begin("powerup", PowerupDAP, <<>>, mem)
    \/ ~powered /\ Begin("enable", DAP_enable, <<>>, mem)
    \/ Begin("id", readID, <<IdCode>>, mem)
    \/ powered /\ \E a \in Bases : Begin("read", readMemory(a, NoExp), <<mem[a]>>, mem)
    \/ powered /\ \E a \in Bases, v \in {0, 7} :
          Begin("write", writeMemory(a, v), <<>>, [mem EXCEPT ![a] = v])
    \/ powered /\ \E a \in Bases, n \in Sizes :
          Fits(a, n) /\ Begin("memread", memRead(a, n), [i \in 1 .. n |-> mem[a + i - 1]], mem)
    \/ powered /\ \E a \in Bases, n \in Sizes, seed \in {0, 1} :
          Fits(a, n) /\ Begin("memwrite", memWrite(a, Pattern(n, seed)), <<>>,
                              Overwrite(a, Pattern(n, seed)))
    \/ \E n \in Programs, junk \in {<<>>, <<0>>, <<7>>} :
          LET d == Pattern(n, 2) \o junk IN
            Begin("load", loadProgram(d), <<HALTED>>,
                  [Overwrite(IMEM, d) EXCEPT ![DHCSR_ADDR] = HALTED, ![SET_IMEM] = 1])

(* The driver after a scan that left the port in t and read res. *)
After(t, ok, res) ==
    /\ tap' = [t EXCEPT !.wait = FALSE, !.fault = FALSE]
    /\ panicked' = ~ok
    /\ got' = got \o res
    /\ todo' = Tail(todo)
    /\ op' = IF Len(todo) = 1 \/ ~ok THEN "none" ELSE op
    /\ powered' = (powered \/ (Len(todo) = 1 /\ ok /\ op \in {"powerup", "enable", "load"}))
    /\ UNCHANGED <<want, ops>>

Upcoming(kind) == op # "none" /\ Head(todo).kind = kind

ScanIR ==
    /\ Upcoming("ir")
    /\ LET r == setIR(tap, Head(todo).v) IN After(r.t, Value(r.out) = 1, <<>>)
    /\ UNCHANGED faults

ScanReset ==
    /\ Upcoming("reset")
    /\ After(Clock(tap, setState("r") \o leaveState("r")).t, TRUE, <<>>)
    /\ UNCHANGED faults

ScanID ==
    /\ Upcoming("id")
    /\ LET r == Clock(tap, setState("d") \o shiftBits(0, WordBits) \o leaveState("d"))
       IN  After(r.t, TRUE, <<Value(r.out)>>)
    /\ UNCHANGED faults

(* A data scan answered OK; with a fault the port refuses the transfer, which *)
(* the status bits do not tell from OK.                                       *)
ScanData(fault) ==
    /\ Upcoming("dr")
    /\ fault => faults > 0
    /\ faults' = IF fault THEN faults - 1 ELSE faults
    /\ LET i == Head(todo)
           r == shiftData([tap EXCEPT !.fault = fault], i.v, i.a, i.rw)
       IN  After(r.t, r.stat = "ok" /\ i.exp \in {NoExp, r.data},
                 IF i.keep THEN <<r.data>> ELSE <<>>)

(* A data scan answered WAIT: the loop of shiftData tries again. *)
ScanWait ==
    /\ Upcoming("dr")
    /\ LET i == Head(todo)
           r == shiftData([tap EXCEPT !.wait = TRUE], i.v, i.a, i.rw)
       IN  r.stat = "wait" /\ tap' = [r.t EXCEPT !.wait = FALSE]
    /\ UNCHANGED <<op, todo, got, want, powered, panicked, faults, ops>>

(* The constructor JTAG::JTAG resets the TAP and leaves for idle. *)
Fresh ==
    [st |-> "PauseDR", sr |-> <<0>>, tdi |-> 0, ir |-> IR.IDCODE, wait |-> FALSE, fault |-> FALSE,
     sticky |-> FALSE, rd |-> 0, ctrl |-> 0, select |-> 0, csw |-> 0, tar |-> 0,
     mem |-> [a \in Words |-> (a * 5) % 2^WordBits]]

Init ==
    /\ tap = Clock(Fresh, reset \o leaveState("r")).t
    /\ op = "none" /\ todo = <<>> /\ got = <<>>
    /\ want = [op |-> "none", got |-> <<>>, mem |-> Fresh.mem]
    /\ powered = FALSE /\ panicked = FALSE /\ faults = MaxFaults
    /\ ops = MaxOps

Next ==
    \/ Start
    \/ ScanIR
    \/ ScanReset
    \/ ScanID
    \/ \E fault \in BOOLEAN : ScanData(fault)
    \/ ScanWait

Spec == Init /\ [][Next]_vars

-----------------------------------------------------------------------------
(* The TAP is in Run-Test/Idle between two scans, whatever number of WAIT      *)
(* answers came before: setState and leaveState count their ticks from there.  *)
IdleBetweenScans == tap.st = "Idle"

(* An operation that has ended has returned exactly the words asked for: no   *)
(* bit is lost or shifted although TDI lags the clock, a WAIT has no effect,   *)
(* and the pipeline of reads is not off by one, across blocks included.        *)
ReadsExact == Quiet => got = want.got

(* An operation that has ended has left exactly the memory it was asked for,   *)
(* at block boundaries and after WAIT answers too.                             *)
MemoryExact == Quiet => mem = want.mem

(* The code insists on the answers of the port while it powers it up and halts *)
(* the core; with a port that answers correctly none of these checks panics.   *)
NoFalseAlarm == ~panicked

(* A program that has been loaded is in the memory, or loadProgram has         *)
(* panicked: its second pass is there to check the program in the memory.      *)
(* Not what the code does: README.md, "Known disagreements". *)
LoadVerified == Quiet /\ want.op = "load" => mem = want.mem

=============================================================================
