----------------------------- MODULE BspDevices -----------------------------
(***************************************************************************)
(* The entities whose methods read and modify registers of the chip: DI,   *)
(* SI, SDIO, RESET, SYS and CCRH (ios_bsp/entities).  A register that      *)
(* several entities share is a set of bits, each a pair of the field and   *)
(* the weight of the bit in it.  All methods run on the one thread of the  *)
(* BSP process, so that a method is one step; the calls a method makes to  *)
(* other entities may fail.                                                *)
(***************************************************************************)
EXTENDS Naturals, FiniteSets

CONSTANTS Boards,      \* the boards, see Board
          ResetValues, \* what a field of a register may hold at power-on
          Mixes,       \* bound: the sets of entities used side by side
          None

Kinds == {"ES1", "HOLLYWOOD", "ESPRESSO", "BOLLYWOOD", "LATTE"}
Board == [kind : Kinds, variant : {"EV", "EV_Y", "CAT", "ID", "CAFE", "IH"},
          boardRevision : 0..9, movPassiveReset : BOOLEAN,
          a3x : BOOLEAN,            \* BSP_LATTE_REV(hwver) >= A3X
          iopClockMultiplier : Nat]

ASSUME DevicesAssumption ==
    /\ Boards \subseteq Board
    /\ ResetValues \subseteq SUBSET {1, 2, 4} /\ ResetValues # {}
    /\ Mixes \subseteq SUBSET {"DI", "SI", "SDIO", "RESET", "SYS", "CCRH", "PPC"}
    /\ None \notin Nat

Powered == {"DI", "SI"}
Bytes == 0..2

VARIABLES
    board,     \* the board, fixed
    inUse,     \* the entities whose methods are called, fixed
    iopwrctrl, \* HW_IOPWRCTRL
    iostrctrl, \* HW_IOSTRCTRL0, HW_IOSTRCTRL1 and LT_IOSTRCTRL2
    lt_rstb,   \* LT_RSTB
    iop2x,     \* LT_IOP2X_ENABLE is set
    drh,       \* the level of the GPIO that holds the DRH in reset
    written,   \* the last value written to each attribute, or None
    ccrh       \* how the last reset of the DRH went

devVars == <<board, inUse, iopwrctrl, iostrctrl, lt_rstb, iop2x, drh, written,
             ccrh>>

LATTE == board.kind = "LATTE"
HOLLYWOOD == board.kind \in {"HOLLYWOOD", "ESPRESSO", "ES1"}
Field(f, bits) == {f} \X bits
StrengthFields == {"DI", "SI", "SDIO", "SDIOB", "SDIOC", "SDIOD"}
Attributes == (Powered \X {"IOPower"}) \cup {<<"DI", "Reset">>, <<"SYS", "iop2x">>}
              \cup ({"DI", "SI", "SDIO"} \X {"IOStrength"})

DevInit ==
    /\ board \in Boards /\ inUse \in Mixes
    /\ \E v \in ResetValues :
          /\ iopwrctrl = UNION {Field(f, v \ {4}) : f \in Powered}
          /\ iostrctrl = UNION {Field(f, v) : f \in StrengthFields}
    /\ lt_rstb = {}
    /\ iop2x = FALSE
    /\ drh = 1
    /\ written = [a \in Attributes |-> None]
    /\ ccrh = [cmd |-> None, ret |-> "OK", failed |-> {}]

Record(a, v) == written' = [written EXCEPT ![a] = v]

----------------------------------------------------------------------------
(* IOPower of DI and SI.  HW_IOPWRCTRL_MASK is 2, so that only the upper   *)
(* of the two bits is cleared.                                             *)
PowerMaskNone == {}                       \* mutant: nothing is cleared
PowerMask == {2}
PowerRead(e) == IF Field(e, {1, 2}) \subseteq iopwrctrl THEN 1 ELSE 0
PowerWrite(e, v) ==
    /\ iopwrctrl' = (iopwrctrl \ Field(e, PowerMask))
                    \cup (IF v # 0 THEN Field(e, {1, 2}) ELSE {})
    /\ Record(<<e, "IOPower">>, v)
    /\ UNCHANGED <<board, inUse, iostrctrl, lt_rstb, iop2x, drh, ccrh>>
PowerInit(e) == PowerWrite(e, 1)

(* IOStrength of DI, SI and SDIO.  The masks are 3, two of the three bits. *)
DIStrength == IF HOLLYWOOD THEN {1} ELSE {2}
SIStrength == IF HOLLYWOOD \/ board.kind = "BOLLYWOOD" THEN {1} ELSE {2}
SDIOStrength == IF HOLLYWOOD THEN {2}
                ELSE IF board.kind = "BOLLYWOOD" THEN {1}
                ELSE IF board.variant = "EV_Y" THEN {1, 4} ELSE {4}
SetStrength(e, v) == (iostrctrl \ Field(e, {1, 2})) \cup Field(e, v)
StrengthInit(e, v) ==
    /\ iostrctrl' = SetStrength(e, v)
    /\ Record(<<e, "IOStrength">>, v)
    /\ UNCHANGED <<board, inUse, iopwrctrl, lt_rstb, iop2x, drh, ccrh>>
DIStrengthInit == StrengthInit("DI", DIStrength)
SIStrengthInit == StrengthInit("SI", SIStrength)

(* On Latte SDIO also sets three fields of LT_IOSTRCTRL2. *)
SDIOLatte ==
    LET outer == IF board.variant = "EV_Y" THEN {4} ELSE {2}
    IN  Field("SDIOB", outer) \cup Field("SDIOC", {4}) \cup Field("SDIOD", outer)
SDIOStrengthInit ==
    /\ iostrctrl' =
         LET reg == SetStrength("SDIO", SDIOStrength)
         IN  IF LATTE
               THEN {b \in reg : b[1] \notin {"SDIOB", "SDIOC", "SDIOD"}}
                    \cup SDIOLatte
               ELSE reg
    /\ Record(<<"SDIO", "IOStrength">>, SDIOStrength)
    /\ UNCHANGED <<board, inUse, iopwrctrl, lt_rstb, iop2x, drh, ccrh>>

(* RESET, and the Reset of DI, which inverts and calls RESET. *)
ResetRead(bit) == IF bit \in lt_rstb THEN 1 ELSE 0
ResetWrite(bit, v) ==
    /\ lt_rstb' = IF v = 0 THEN lt_rstb \ {bit} ELSE lt_rstb \cup {bit}
    /\ IF bit = "DIRSTB" THEN Record(<<"DI", "Reset">>, IF v = 0 THEN 1 ELSE 0)
                         ELSE UNCHANGED written
    /\ UNCHANGED <<board, inUse, iopwrctrl, iostrctrl, iop2x, drh, ccrh>>
DIResetRead == IF ResetRead("DIRSTB") = 0 THEN 1 ELSE 0
DIResetWrite(v) == ResetWrite("DIRSTB", IF v = 0 THEN 1 ELSE 0)

(* SYS: the multiplier of the IOP clock, given or from the board           *)
(* configuration (data = None); power is what BSPGetPowerMode says.        *)
Iop2xWrite(data, power) ==
    LET n == IF data = None THEN board.iopClockMultiplier ELSE data
    IN  /\ LATTE /\ board.a3x
        /\ n \in {1, 2} /\ power # None
        /\ iop2x' = (n = 2 /\ power # 2)
        /\ Record(<<"SYS", "iop2x">>, n)
        /\ UNCHANGED <<board, inUse, iopwrctrl, iostrctrl, lt_rstb, drh, ccrh>>

----------------------------------------------------------------------------
(* CCRH: the reset of the DRH as a sequence of calls to GPIO and SMC, of   *)
(* which those in fails fail.  CCRIO3 gets its value where a pointer is    *)
(* expected, and is left out for that: nobody knows what it is set to.     *)
UsesCCRIO3 == \/ board.variant = "EV_Y"
              \/ /\ board.variant \in {"CAT", "ID", "CAFE", "IH"}
                 /\ board.boardRevision > 3
Reinits == \/ board.variant = "EV_Y"
           \/ /\ board.variant \in {"CAT", "ID"}
              /\ board.boardRevision >= 3 /\ board.movPassiveReset
           \/ board.variant \in {"CAFE", "IH"} /\ board.boardRevision >= 4
HoldSteps == (IF UsesCCRIO3 THEN {"CCRIO3"} ELSE {}) \cup {"init", "low"}
ResetSteps == HoldSteps \cup {"pulse", "CCRIO12", "high"}
                        \cup (IF Reinits THEN {"reinit"} ELSE {})

StepsOf(cmd) == CASE cmd = 1     -> HoldSteps
                  [] cmd \in 2..4 -> ResetSteps
                  [] OTHER         -> {}

ResetRvalLast(cmd, fails) == IF "low" \in fails THEN "ERROR" ELSE "OK"   \* mutant
ResetRval(cmd, fails) ==
    CASE cmd = 1 -> IF fails = {} THEN "OK" ELSE "ERROR"
      [] OTHER   -> IF "reinit" \in fails THEN "ERROR" ELSE "OK"

CcrhReset(cmd, fails) ==
    /\ IF cmd \notin 1..4
         THEN /\ ccrh' = [cmd |-> cmd, ret |-> "INVALID_PARAMETER", failed |-> {}]
              /\ UNCHANGED drh
         ELSE /\ ccrh' = [cmd |-> cmd, ret |-> ResetRval(cmd, fails),
                          failed |-> fails]
              /\ drh' = IF cmd # 1 /\ "high" \notin fails THEN 1
                        ELSE IF "low" \notin fails THEN 0 ELSE drh
    /\ UNCHANGED <<board, inUse, iopwrctrl, iostrctrl, lt_rstb, iop2x, written>>

Steps == {"CCRIO3", "init", "low", "pulse", "CCRIO12", "high", "reinit"}
DevNext ==
    \/ \E e \in Powered \cap inUse :
          PowerInit(e) \/ \E v \in Bytes : PowerWrite(e, v)
    \/ "DI" \in inUse /\ (DIStrengthInit \/ \E v \in Bytes : DIResetWrite(v))
    \/ "SI" \in inUse /\ SIStrengthInit
    \/ "SDIO" \in inUse /\ SDIOStrengthInit
    \/ /\ "RESET" \in inUse
       /\ \E b \in {"DIRSTB", "OTHER"}, v \in Bytes : ResetWrite(b, v)
    \/ /\ "SYS" \in inUse
       /\ \E d \in Bytes \cup {None}, p \in {1, 2, None} : Iop2xWrite(d, p)
    \/ /\ "CCRH" \in inUse
       /\ \E cmd \in 0..4 : \E fails \in SUBSET StepsOf(cmd) :
             CcrhReset(cmd, fails)

----------------------------------------------------------------------------
(* Type invariant of the registers. *)
DevTypeOK ==
    /\ board \in Boards /\ inUse \in Mixes
    /\ iopwrctrl \subseteq Powered \X {1, 2}
    /\ iostrctrl \subseteq StrengthFields \X {1, 2, 4}
    /\ lt_rstb \subseteq {"DIRSTB", "OTHER"}
    /\ iop2x \in BOOLEAN /\ drh \in {0, 1}
    /\ DOMAIN written = Attributes
    /\ ccrh.failed \subseteq Steps

(* What was last written to a power or reset attribute is what its read    *)
(* method answers, and the strength fields hold what the last IOStrength   *)
(* of their entity chose, whatever the entities with which they share the  *)
(* register did in between.  Of a strength field, the bit that no mask     *)
(* covers may still be set from before.  The IOP clock is doubled only     *)
(* when the last accepted write asked for it.                              *)
ReadBack ==
    /\ \A e \in Powered : written[<<e, "IOPower">>] # None =>
          (PowerRead(e) = 1 <=> written[<<e, "IOPower">>] # 0)
    /\ written[<<"DI", "Reset">>] # None =>
          (DIResetRead = 1 <=> written[<<"DI", "Reset">>] # 0)
    /\ \A e \in {"DI", "SI", "SDIO"} : written[<<e, "IOStrength">>] # None =>
          LET bits == {b \in {1, 2, 4} : <<e, b>> \in iostrctrl}
          IN  bits \ {4} = written[<<e, "IOStrength">>] \ {4}
              /\ written[<<e, "IOStrength">>] \subseteq bits
    /\ iop2x /\ written[<<"SYS", "iop2x">>] # None
          => written[<<"SYS", "iop2x">>] = 2

(* bspCCRH_Reset_write: an OK for "hold in reset" means that every step    *)
(* worked and the line is low.  An OK for a reset does not: it says        *)
(* nothing about the steps, but when the last one worked the DRH is out of *)
(* reset, whatever failed before it.                                       *)
HoldReported ==
    /\ ccrh.cmd = 1 /\ ccrh.ret = "OK" => ccrh.failed = {} /\ drh = 0
    /\ ccrh.cmd \in 2..4 /\ "high" \notin ccrh.failed => drh = 1
    /\ ccrh.cmd \in 2..4 /\ ccrh.ret # "OK" => "reinit" \in ccrh.failed
============================================================================
