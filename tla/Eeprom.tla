------------------------------- MODULE Eeprom -------------------------------
(***************************************************************************)
(* The EEPROM driver (eeprom.c, eeprom_bits.c) pin by pin, together with   *)
(* the Microwire chip it drives.                                           *)
(*                                                                         *)
(* A part of a driver function is the sequence of the pin accesses it      *)
(* makes.  Each access is one step, so that the chip can finish a          *)
(* programming cycle between any two of them.  Words are bit sequences,    *)
(* most significant bit first; the code has AddrBits = 8, DataBits = 16    *)
(* and MaxPolls = 1000.  udelay only slows the clock and is left out.      *)
(***************************************************************************)
EXTENDS Integers, Sequences

CONSTANTS AddrBits, DataBits, MaxPolls, Ops, NoOp, None

Bit   == {0, 1}
Addrs == [1 .. AddrBits -> Bit]
Words == [1 .. DataBits -> Bit]
ErasedWord == [i \in 1 .. DataBits |-> 1]

ASSUME WidthAssumption ==
    AddrBits \in Nat /\ AddrBits >= 2 /\ DataBits \in Nat \ {0} /\ MaxPolls \in Nat

VARIABLES
    gpio,    \* the GPIO entity is registered, so that pin accesses work
    status,  \* eepromContexts[0].status
    op,      \* the driver function being executed, with its arguments
    part,    \* the pin accesses of its current part
    at,      \* how many of them it has made
    phase,   \* which part: "send", "poll" or "end"
    polls,   \* clocks waited in eepromDrvWaitForReady
    read,    \* the bits sampled by eepromDrvReadBit
    err,     \* the error the function is going to return
    answer,  \* how the last function ended
    chip,    \* the chip
    clean, taken   \* history: as in EepromStore

driver == <<status, op, part, at, phase, polls, read, err, answer>>
vars == <<gpio, driver, chip, clean, taken>>

----------------------------------------------------------------------------
(* The chip (external).  Between a rise and a fall of CS it shifts in a    *)
(* start bit, an opcode and an address on the rises of SK; READ shifts the *)
(* word out; the other commands are executed when CS falls.  While it      *)
(* programs it ignores a pulse of CS, and shows 0 (busy) or 1 (ready).     *)
ChipInit(mem) ==
    [sk |-> 0, cs |-> 0, d |-> 0, mode |-> "off", shift |-> << >>,
     out |-> << >>, mem |-> mem, wen |-> FALSE, pending |-> None,
     latched |-> None, reporting |-> FALSE]

OpcodeOf(shift) == <<shift[2], shift[3]>>
ControlOf(shift) == <<shift[4], shift[5]>>
AddrOf(shift)   == [i \in 1 .. AddrBits |-> shift[3 + i]]
DataOf(shift)   == [i \in 1 .. DataBits |-> shift[3 + AddrBits + i]]
Complete(shift) == Len(shift) >= 3 + AddrBits

(* The command in the shift register of a chip whose CS falls. *)
Executes(c) ==
    IF c.mode # "cmd" \/ ~Complete(c.shift) THEN "nothing"
    ELSE IF OpcodeOf(c.shift) = <<0, 1>>
      THEN IF Len(c.shift) >= 3 + AddrBits + DataBits THEN "WRITE" ELSE "nothing"
    ELSE IF OpcodeOf(c.shift) = <<0, 0>>
      THEN IF ControlOf(c.shift) = <<0, 0>> THEN "DISABLE"
           ELSE IF ControlOf(c.shift) = <<1, 1>> THEN "ENABLE"
           ELSE IF ControlOf(c.shift) = <<1, 0>> THEN "ERASE" ELSE "nothing"
    ELSE "nothing"

ChipSelect(c) ==
    [c EXCEPT !.cs = 1, !.shift = << >>,
              !.mode = IF c.pending # None THEN "status" ELSE "cmd"]

ChipDeselect(c) ==
    LET x == Executes(c)
        programs == x \in {"WRITE", "ERASE"} /\ c.wen
    IN  [c EXCEPT !.cs = 0, !.mode = "off", !.shift = << >>, !.out = << >>,
                  !.wen = IF x = "ENABLE" THEN TRUE
                          ELSE IF x = "DISABLE" THEN FALSE ELSE c.wen,
                  !.reporting = c.reporting \/ programs,
                  !.pending =
                     IF ~programs THEN c.pending
                     ELSE IF x = "ERASE" THEN [a \in Addrs |-> ErasedWord]
                     ELSE [c.mem EXCEPT ![AddrOf(c.shift)] = DataOf(c.shift)]]

ChipClock(c) ==
    IF c.mode = "cmd" /\ (c.d = 1 \/ c.shift # << >>)
      THEN LET s == Append(c.shift, c.d)
               reads == Len(s) = 3 + AddrBits /\ OpcodeOf(s) = <<1, 0>>
           IN  [c EXCEPT !.sk = 1, !.shift = s, !.reporting = FALSE,
                         !.mode = IF reads THEN "read" ELSE "cmd",
                         !.out = IF reads THEN <<0>> \o c.mem[AddrOf(s)]
                                          ELSE << >>,
                         !.latched = IF reads THEN c.mem[AddrOf(s)]
                                              ELSE c.latched]
    ELSE IF c.mode = "read" /\ Len(c.out) > 1
      THEN [c EXCEPT !.sk = 1, !.out = Tail(c.out)]
    ELSE [c EXCEPT !.sk = 1]

ChipPin(c, pin, v) ==
    IF pin = "DO" THEN [c EXCEPT !.d = v]
    ELSE IF pin = "CS"
      THEN IF v = c.cs THEN c
           ELSE IF v = 1 THEN ChipSelect(c) ELSE ChipDeselect(c)
    ELSE IF v = 1 /\ c.sk = 0 /\ c.cs = 1 THEN ChipClock(c)
                                         ELSE [c EXCEPT !.sk = v]

(* The level of the EEPROM_DI pin; a line nobody drives may read as either. *)
ChipOut(c) ==
    IF c.mode = "read" THEN {Head(c.out)}
    ELSE IF c.mode = "status" THEN IF c.pending # None THEN {0} ELSE {1}
    ELSE IF c.mode = "cmd" /\ c.reporting THEN {1} ELSE Bit

ChipDone ==
    /\ chip.pending # None
    /\ chip' = [chip EXCEPT !.mem = chip.pending, !.pending = None]
    /\ UNCHANGED <<gpio, driver, clean, taken>>

----------------------------------------------------------------------------
(* The driver's programs. *)
SetSK(v) == <<"SK", v>>
SetCS(v) == <<"CS", v>>
SetDO(v) == <<"DO", v>>
Sample   == <<"DI", 0>>   \* bspReadInternal("GPIO", 0, "EEPROM_DI", ...)

(* eepromDrvSendBits: most significant bit first, data before the clock. *)
SendBitLate(b) == <<SetSK(0), SetCS(1), SetSK(1), SetDO(b)>>   \* mutant: the
                                                    \* clock before the data
SendBit(b)     == <<SetSK(0), SetCS(1), SetDO(b), SetSK(1)>>
SendBits(bits) == [k \in 1 .. 4 * Len(bits) |->
                     SendBit(bits[(k + 3) \div 4])[1 + ((k - 1) % 4)]]

ReadBit        == <<SetSK(0), SetCS(1), SetSK(1), Sample>>
ReadBitsOneMore(n) == [k \in 1 .. 4 * n + 4 |-> ReadBit[1 + ((k - 1) % 4)]]   \* mutant
ReadBits(n)    == [k \in 1 .. 4 * n |-> ReadBit[1 + ((k - 1) % 4)]]

FinishWithClockHigh ==   \* mutant: no SK(0) after the two clocks
    <<SetSK(0), SetCS(0), SetDO(0), SetSK(0), SetSK(1), SetSK(0), SetSK(1)>>

FinishCommand ==
    <<SetSK(0), SetCS(0), SetDO(0), SetSK(0), SetSK(1), SetSK(0), SetSK(1),
      SetSK(0)>>

IdlePins == <<SetCS(0), SetSK(0), SetDO(0)>>

(* The command words 0x600|addr, (0x500|addr)<<16|data, 0x480, 0x4c0, 0x400 *)
Zeros(n) == [i \in 1 .. n |-> 0]
CommandBits(o) ==
    IF o.cmd = "READ" THEN <<1, 1, 0>> \o o.addr
    ELSE IF o.cmd = "WRITE" THEN <<1, 0, 1>> \o o.addr \o o.data
    ELSE IF o.cmd = "ERASE" THEN <<1, 0, 0, 1, 0>> \o Zeros(AddrBits - 2)
    ELSE IF o.cmd = "ENABLE" THEN <<1, 0, 0, 1, 1>> \o Zeros(AddrBits - 2)
    ELSE <<1, 0, 0, 0, 0>> \o Zeros(AddrBits - 2)

Program(o) ==
    IF o.cmd \in {"Init", "Open", "Shutdown"} THEN IdlePins
    ELSE IF o.cmd = "READ"
      THEN SendBits(CommandBits(o)) \o ReadBits(DataBits) \o FinishCommand
    ELSE SendBits(CommandBits(o)) \o FinishCommand

(* The checks before a function touches a pin. *)
EarlyReturn(o) ==
    IF o.ndx # 0 THEN "MAX"
    ELSE IF o.cmd = "Init" THEN "OK"
    ELSE IF o.cmd = "Open"
      THEN IF status \in {"CLOSED", "INITIALISED"} THEN "OK" ELSE "NOTREADY"
    ELSE IF status # "OPEN" THEN "NOTREADY"
    ELSE IF o.cmd = "BADCONTROL" THEN "INVALID" ELSE "OK"

NoAnswer == [op |-> NoOp, ret |-> "OK", data |-> None, clean |-> TRUE]

Init ==
    /\ gpio \in BOOLEAN
    /\ status = "UNINITIALISED"
    /\ op = NoOp
    /\ part = << >> /\ at = 0
    /\ phase = "send"
    /\ polls = 0
    /\ read = << >>
    /\ err = "OK"
    /\ answer = NoAnswer
    /\ \E mem \in [Addrs -> Words] : chip = ChipInit(mem)
    /\ clean = TRUE
    /\ taken = FALSE

(* Entry of a driver function: its checks, then its pin accesses.  Init     *)
(* first clears the context.                                                *)
Call(o) ==
    /\ op = NoOp
    /\ op' = o
    /\ err' = EarlyReturn(o)
    /\ part' = IF EarlyReturn(o) = "OK" THEN Program(o) ELSE << >>
    /\ at' = 0
    /\ phase' = IF EarlyReturn(o) = "OK" THEN "send" ELSE "end"
    /\ polls' = 0
    /\ read' = << >>
    /\ answer' = NoAnswer
    /\ clean' = (chip.pending = None)
    /\ taken' = FALSE
    /\ chip' = [chip EXCEPT !.latched = None]
    /\ UNCHANGED <<gpio, status>>

(* The current part has been made. *)
Done == at = Len(part)

(* One pin access.  When GPIO fails nothing reaches the chip: only          *)
(* eepromDrvInit looks at the error, and a bit that cannot be read is 0.    *)
PinStep ==
    /\ ~Done
    /\ at' = at + 1
    /\ LET pin == part[at + 1][1]
           v   == part[at + 1][2]
       IN  IF pin = "DI"
             THEN /\ \E b \in IF gpio THEN ChipOut(chip) ELSE {0} :
                        read' = Append(read, b)
                  /\ UNCHANGED <<chip, taken, err>>
             ELSE /\ chip' = IF gpio THEN ChipPin(chip, pin, v) ELSE chip
                  /\ taken' = \/ taken
                              \/ chip'.mode = "read"
                              \/ pin = "CS" /\ v = 0 /\ Executes(chip) # "nothing"
                  /\ err' = IF ~gpio /\ op.cmd = "Init" THEN "EXISTS" ELSE err
                  /\ UNCHANGED read
    /\ UNCHANGED <<gpio, status, op, part, phase, polls, answer, clean>>

(* eepromDrvWaitForReady: after a command that programs, at most MaxPolls   *)
(* bits are read until one is 1.                                            *)
StartPolling ==
    /\ phase = "send" /\ op # NoOp /\ Done
    /\ op.cmd \in {"WRITE", "ERASE"}
    /\ phase' = "poll"
    /\ read' = << >>
    /\ part' = <<SetDO(0)>> /\ at' = 0
    /\ UNCHANGED <<gpio, status, op, polls, err, answer, chip, clean, taken>>

PollForEver ==   \* mutant: no limit on the clocks
    /\ phase = "poll" /\ Done
    /\ IF read = <<1>>
         THEN phase' = "end" /\ part' = FinishCommand
         ELSE part' = ReadBit /\ UNCHANGED phase
    /\ read' = << >> /\ at' = 0
    /\ UNCHANGED <<gpio, status, op, polls, err, answer, chip, clean, taken>>

Poll ==
    /\ phase = "poll" /\ Done
    /\ IF read = <<1>>
         THEN /\ phase' = "end" /\ part' = FinishCommand
              /\ UNCHANGED <<polls, err>>
       ELSE IF polls < MaxPolls
         THEN /\ polls' = polls + 1 /\ part' = ReadBit
              /\ UNCHANGED <<phase, err>>
         ELSE /\ phase' = "end" /\ part' = FinishCommand
              /\ err' = "FAIL_INTERNAL"
              /\ UNCHANGED polls
    /\ read' = << >> /\ at' = 0
    /\ UNCHANGED <<gpio, status, op, answer, chip, clean, taken>>

NewStatus ==
    IF op.cmd = "Init" /\ op.ndx = 0
      THEN IF err = "OK" THEN "INITIALISED" ELSE "UNINITIALISED"
    ELSE IF err # "OK" THEN status
    ELSE IF op.cmd = "Open" THEN "OPEN"
    ELSE IF op.cmd = "Shutdown" THEN "CLOSED" ELSE status

Return ==
    /\ op # NoOp /\ Done
    /\ phase = "end" \/ (phase = "send" /\ op.cmd \notin {"WRITE", "ERASE"})
    /\ status' = NewStatus
    /\ answer' = [op |-> op, ret |-> err, clean |-> clean,
                  data |-> IF op.cmd = "READ" /\ err = "OK" THEN read ELSE None]
    /\ op' = NoOp
    /\ phase' = "send"
    /\ polls' = 0
    /\ read' = << >>
    /\ err' = "OK"
    /\ clean' = TRUE
    /\ taken' = FALSE
    /\ chip' = [chip EXCEPT !.latched = None]
    /\ part' = << >> /\ at' = 0
    /\ UNCHANGED gpio

Driver == PinStep \/ StartPolling \/ Poll \/ Return
Next == Driver \/ ChipDone \/ \E o \in Ops : Call(o)
Spec == Init /\ [][Next]_vars

(* The calling thread runs the function it called to its end. *)
FairSpec == Spec /\ WF_vars(Driver)

----------------------------------------------------------------------------
Store == INSTANCE EepromStore WITH
    mem <- chip.mem, wen <- chip.wen, pending <- chip.pending,
    latched <- chip.latched

(* The operations and the markers are as EepromStore wants them. *)
ASSUME DriverAssumption ==
    /\ Ops \subseteq Store!Operation /\ NoOp \notin Store!Operation
    /\ None \notin Words \cup Store!Memory

Pins == {"SK", "CS", "DO", "DI"} \X Bit

(* Type invariant of the driver and of the chip. *)
TypeOK ==
    /\ gpio \in BOOLEAN
    /\ status \in Store!Statuses
    /\ op \in Ops \cup {NoOp}
    /\ part \in Seq(Pins) /\ at \in 0 .. Len(part)
    /\ phase \in {"send", "poll", "end"}
    /\ polls \in 0 .. MaxPolls
    /\ read \in Seq(Bit) /\ Len(read) <= DataBits
    /\ err \in Store!Errors
    /\ answer.op \in Ops \cup {NoOp} /\ answer.ret \in Store!Errors
    /\ answer.data \in Words \cup {None}
    /\ chip.mem \in [Addrs -> Words]
    /\ chip.pending \in [Addrs -> Words] \cup {None}
    /\ chip.mode \in {"off", "cmd", "read", "status"}
    /\ <<chip.sk, chip.cs, chip.d>> \in Bit \X Bit \X Bit

(* Between two functions an initialised chip is deselected and its clock   *)
(* and data lines are low: the next command starts from a clean pulse.     *)
PinsIdle ==
    op = NoOp /\ status # "UNINITIALISED" =>
        chip.cs = 0 /\ chip.sk = 0 /\ chip.d = 0

(* The pin-level driver and the chip together are a word store.            *)
Implements == Store!Spec

(* Every driver function returns, even when the chip never gets ready: the *)
(* wait in eepromDrvWaitForReady is bounded.                               *)
EveryOpReturns == op # NoOp ~> op = NoOp
============================================================================
