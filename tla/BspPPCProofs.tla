---------------------------- MODULE BspPPCProofs ----------------------------
(***************************************************************************)
(* The entities on the chip's registers and the PPC entity, for any boards,*)
(* any power-on values, any entities used side by side and any number of   *)
(* polls.                                                                  *)
(***************************************************************************)
EXTENDS BspPPC, TLAPS

(* A method of the other entities keeps the registers' shapes. *)
LEMMA DevTypeStep ==
    ASSUME DevTypeOK, DevNext
    PROVE  DevTypeOK'
<1> USE DEF DevTypeOK
<1>1. ASSUME NEW e \in Powered, NEW v, PowerWrite(e, v) PROVE DevTypeOK'
  <2>1. iopwrctrl' \subseteq Powered \X {1, 2}
    BY <1>1 DEF PowerWrite, Field, Powered
  <2> QED BY <1>1, <2>1 DEF PowerWrite, Record
<1>2. ASSUME NEW e \in {"DI", "SI"}, NEW v \in SUBSET {1, 2, 4},
             StrengthInit(e, v)
      PROVE  DevTypeOK'
  <2>1. iostrctrl' \subseteq StrengthFields \X {1, 2, 4}
    BY <1>2 DEF StrengthInit, SetStrength, Field, StrengthFields
  <2> QED BY <1>2, <2>1 DEF StrengthInit, Record
<1>3. DIStrength \in SUBSET {1, 2, 4} /\ SIStrength \in SUBSET {1, 2, 4}
  BY DEF DIStrength, SIStrength
<1>4. CASE SDIOStrengthInit
  <2>1. SetStrength("SDIO", SDIOStrength) \subseteq StrengthFields \X {1, 2, 4}
    <3>1. SDIOStrength \in SUBSET {1, 2, 4}
      BY DEF SDIOStrength
    <3> QED BY <3>1 DEF SetStrength, Field, StrengthFields
  <2>2. SDIOLatte \subseteq StrengthFields \X {1, 2, 4}
    BY DEF SDIOLatte, Field, StrengthFields
  <2>3. iostrctrl' \subseteq StrengthFields \X {1, 2, 4}
    BY <1>4, <2>1, <2>2 DEF SDIOStrengthInit
  <2> QED BY <1>4, <2>3 DEF SDIOStrengthInit, Record
<1>5. ASSUME NEW b \in {"DIRSTB", "OTHER"}, NEW v, ResetWrite(b, v)
      PROVE  DevTypeOK'
  BY <1>5 DEF ResetWrite, Record
<1>6. ASSUME NEW d, NEW p, Iop2xWrite(d, p) PROVE DevTypeOK'
  BY <1>6 DEF Iop2xWrite, Record
<1>7. ASSUME NEW cmd \in 0..4, NEW fails \in SUBSET StepsOf(cmd),
             CcrhReset(cmd, fails)
      PROVE  DevTypeOK'
  <2>1. fails \subseteq Steps
    BY DEF StepsOf, Steps, HoldSteps, ResetSteps
  <2>2. ccrh'.failed \subseteq Steps
    BY <1>7, <2>1 DEF CcrhReset
  <2>3. drh' \in {0, 1}
    BY <1>7 DEF CcrhReset
  <2> QED BY <1>7, <2>2, <2>3 DEF CcrhReset
<1> QED
  BY <1>1, <1>2, <1>3, <1>4, <1>5, <1>6, <1>7
     DEF DevNext, PowerInit, DIStrengthInit, SIStrengthInit, DIResetWrite

(* Every step keeps the shapes of the registers and of the PPC entity. *)
LEMMA TypeStep ==
    ASSUME TypeOK, [Next]_vars
    PROVE  TypeOK'
<1> USE PPCAssumption DEF TypeOK
<1>1. CASE pc = "idle" /\ DevNext /\ UNCHANGED ppcVars
  BY <1>1, DevTypeStep DEF ppcVars
<1>2. ASSUME UNCHANGED devVars PROVE DevTypeOK'
  BY <1>2 DEF devVars, DevTypeOK
<1>3. CASE Boots
  BY <1>2, <1>3 DEF Boots
<1>4. ASSUME NEW cmd \in Bytes, Exec(cmd) PROVE TypeOK'
  BY <1>2, <1>4 DEF Exec
<1>5. CASE ExecStop
  BY <1>2, <1>5 DEF ExecStop, SetRSTB
<1>6. CASE ReleaseCPU
  BY <1>2, <1>6 DEF ReleaseCPU, SetRSTB
<1>7. CASE ReleaseSRSTB
  BY <1>2, <1>7 DEF ReleaseSRSTB, SetRSTB
<1>8. CASE PollAcknowledge
  BY <1>2, <1>8 DEF PollAcknowledge, Answered
<1>9. CASE PollAgain
  BY <1>2, <1>9 DEF PollAgain
<1>10. CASE PollGiveUp
  BY <1>2, <1>10 DEF PollGiveUp
<1>11. CASE ExecStart
  BY <1>2, <1>11 DEF ExecStart, SetRSTB
<1>12. CASE RestoreSRSTB
  BY <1>2, <1>12 DEF RestoreSRSTB, SetRSTB
<1>13. CASE ExecStartLatte
  BY <1>2, <1>13 DEF ExecStartLatte, SetRSTB
<1>14. ASSUME NEW v \in Bytes, Write60Xe(v) PROVE TypeOK'
  BY <1>2, <1>14 DEF Write60Xe
<1>15. CASE UNCHANGED vars
  BY <1>2, <1>15 DEF vars, ppcVars
<1> QED
  BY <1>1, <1>3, <1>4, <1>5, <1>6, <1>7, <1>8, <1>9, <1>10, <1>11, <1>12,
     <1>13, <1>14, <1>15 DEF Next

(* The type invariant of the board's entities. *)
THEOREM TypeCorrect == Spec => []TypeOK
<1>1. Init => TypeOK
  <2> SUFFICES ASSUME Init PROVE TypeOK
    OBVIOUS
  <2>1. PICK v \in ResetValues :
          /\ iopwrctrl = UNION {Field(f, v \ {4}) : f \in Powered}
          /\ iostrctrl = UNION {Field(f, v) : f \in StrengthFields}
    BY DEF Init, DevInit
  <2>2. v \subseteq {1, 2, 4}
    BY DevicesAssumption
  <2>3. iopwrctrl \subseteq Powered \X {1, 2}
    <3> SUFFICES ASSUME NEW b \in iopwrctrl PROVE b \in Powered \X {1, 2}
      OBVIOUS
    <3>1. PICK f \in Powered : b \in Field(f, v \ {4})
      BY <2>1
    <3> QED BY <2>2, <3>1 DEF Field
  <2>4. iostrctrl \subseteq StrengthFields \X {1, 2, 4}
    <3> SUFFICES ASSUME NEW b \in iostrctrl
                 PROVE  b \in StrengthFields \X {1, 2, 4}
      OBVIOUS
    <3>1. PICK f \in StrengthFields : b \in Field(f, v)
      BY <2>1
    <3> QED BY <2>2, <3>1 DEF Field
  <2>5. DevTypeOK
    BY <2>3, <2>4 DEF Init, DevInit, DevTypeOK
  <2>6. exec \in {"NULL", "wood", "latte"}
    BY DEF Init, Install, ExecOf
  <2>7. polls \in 0 .. MaxPolls - 1
    BY PPCAssumption DEF Init
  <2>8. {exi, booted, seeprom} \subseteq BOOLEAN /\ gaveUp = "never"
    BY DEF Init
  <2> QED BY <2>5, <2>6, <2>7, <2>8 DEF Init, TypeOK
<1>2. TypeOK /\ [Next]_vars => TypeOK'
  BY TypeStep
<1> QED BY <1>1, <1>2, PTL DEF Spec

----------------------------------------------------------------------------
(* ReadBack in its four parts, one for each register. *)
PowerPart ==
    \A e \in Powered : written[<<e, "IOPower">>] # None =>
        (PowerRead(e) = 1 <=> written[<<e, "IOPower">>] # 0)
ResetPart ==
    written[<<"DI", "Reset">>] # None =>
        (DIResetRead = 1 <=> written[<<"DI", "Reset">>] # 0)
StrengthBits(e) == {b \in {1, 2, 4} : <<e, b>> \in iostrctrl}
StrengthPart ==
    \A e \in {"DI", "SI", "SDIO"} : written[<<e, "IOStrength">>] # None =>
        /\ StrengthBits(e) \ {4} = written[<<e, "IOStrength">>] \ {4}
        /\ written[<<e, "IOStrength">>] \subseteq StrengthBits(e)
ClockPart ==
    iop2x /\ written[<<"SYS", "iop2x">>] # None
        => written[<<"SYS", "iop2x">>] = 2

(* The parts are the property. *)
LEMMA ReadBackParts ==
    ReadBack <=> PowerPart /\ ResetPart /\ StrengthPart /\ ClockPart
BY DEF ReadBack, PowerPart, ResetPart, StrengthPart, StrengthBits, ClockPart

(* What is recorded for an attribute is recorded for it alone. *)
LEMMA RecordsOne ==
    ASSUME DevTypeOK, NEW a \in Attributes, NEW v, Record(a, v)
    PROVE  /\ written'[a] = v
           /\ \A b \in Attributes \ {a} : written'[b] = written[b]
BY DEF DevTypeOK, Record

(* The attributes are the ones the parts speak of. *)
LEMMA AttributeNames ==
    /\ \A e \in Powered : <<e, "IOPower">> \in Attributes
    /\ <<"DI", "Reset">> \in Attributes /\ <<"SYS", "iop2x">> \in Attributes
    /\ \A e \in {"DI", "SI", "SDIO"} : <<e, "IOStrength">> \in Attributes
BY DEF Attributes

(* Setting the strength of one entity leaves in its field the bits that    *)
(* were chosen and, of the others, at most the bit 4, which no mask        *)
(* covers; the fields of the other entities stay.                          *)
LEMMA StrengthSet ==
    ASSUME NEW e \in {"DI", "SI", "SDIO"}, NEW v \in SUBSET {1, 2, 4}, 
           NEW f \in {"DI", "SI", "SDIO"}, NEW b \in {1, 2, 4}
    PROVE  <<f, b>> \in SetStrength(e, v) <=>
             IF f = e THEN b \in v \/ (b = 4 /\ <<f, b>> \in iostrctrl)
                      ELSE <<f, b>> \in iostrctrl
BY DEF SetStrength, Field

(* Whichever strength is written, the part of the strength fields holds    *)
(* again.                                                                  *)
LEMMA StrengthStep ==
    ASSUME DevTypeOK, StrengthPart,
           NEW e \in {"DI", "SI", "SDIO"}, NEW v \in SUBSET {1, 2, 4},
           Record(<<e, "IOStrength">>, v),
           \A f \in {"DI", "SI", "SDIO"}, b \in {1, 2, 4} :
              <<f, b>> \in iostrctrl' <=> <<f, b>> \in SetStrength(e, v)
    PROVE  StrengthPart'
<1> SUFFICES ASSUME NEW f \in {"DI", "SI", "SDIO"},
                    written'[<<f, "IOStrength">>] # None
             PROVE  /\ StrengthBits(f)' \ {4} = written'[<<f, "IOStrength">>] \ {4}
                    /\ written'[<<f, "IOStrength">>] \subseteq StrengthBits(f)'
  BY DEF StrengthPart
<1>1. /\ written'[<<e, "IOStrength">>] = v
      /\ f # e => written'[<<f, "IOStrength">>] = written[<<f, "IOStrength">>]
  BY RecordsOne, AttributeNames
<1>2. StrengthBits(f)' =
        {b \in {1, 2, 4} : IF f = e
                             THEN b \in v \/ (b = 4 /\ <<f, b>> \in iostrctrl)
                             ELSE <<f, b>> \in iostrctrl}
  BY StrengthSet DEF StrengthBits
<1>3. CASE f = e
  BY <1>1, <1>2, <1>3
<1>4. CASE f # e
  BY <1>1, <1>2, <1>4 DEF StrengthPart, StrengthBits
<1> QED BY <1>3, <1>4

(* Power is on when both bits of the field are set. *)
LEMMA BothBits ==
    ASSUME NEW f, NEW reg
    PROVE  Field(f, {1, 2}) \subseteq reg <=>
             <<f, 1>> \in reg /\ <<f, 2>> \in reg
BY DEF Field

(* Every method of the entities keeps every part: the ones that share a    *)
(* register with others change their own field only.                       *)
LEMMA ReadBackStep ==
    ASSUME TypeOK, ReadBack, [Next]_vars
    PROVE  ReadBack'
<1>1. DevTypeOK /\ PowerPart /\ ResetPart /\ StrengthPart /\ ClockPart
  BY ReadBackParts DEF TypeOK
<1>2. SUFFICES PowerPart' /\ ResetPart' /\ StrengthPart' /\ ClockPart'
  BY ReadBackParts, PTL
<1>3. ASSUME UNCHANGED devVars
      PROVE  PowerPart' /\ ResetPart' /\ StrengthPart' /\ ClockPart'
  BY <1>1, <1>3 DEF devVars, PowerPart, PowerRead, ResetPart, DIResetRead,
        ResetRead, StrengthPart, StrengthBits, ClockPart
<1>4. ASSUME NEW e \in Powered, NEW v, PowerWrite(e, v)
      PROVE  PowerPart' /\ ResetPart' /\ StrengthPart' /\ ClockPart'
  <2>1. /\ written'[<<e, "IOPower">>] = v
        /\ \A b \in Attributes \ {<<e, "IOPower">>} : written'[b] = written[b]
    BY <1>1, <1>4, RecordsOne, AttributeNames DEF PowerWrite
  <2>2. ASSUME NEW f \in Powered PROVE
          Field(f, {1, 2}) \subseteq iopwrctrl' <=>
            IF f = e THEN v # 0 ELSE Field(f, {1, 2}) \subseteq iopwrctrl
    <3>1. \A b \in {1, 2} : <<f, b>> \in iopwrctrl' <=>
             IF f = e THEN v # 0 \/ (b = 1 /\ <<f, b>> \in iopwrctrl)
                      ELSE <<f, b>> \in iopwrctrl
      BY <1>4 DEF PowerWrite, Field, PowerMask
    <3> QED BY <3>1, BothBits
  <2>3. PowerPart'
    BY <1>1, <2>1, <2>2, AttributeNames DEF PowerPart, PowerRead
  <2>4. ResetPart' /\ StrengthPart' /\ ClockPart'
    BY <1>1, <1>4, <2>1, AttributeNames
       DEF PowerWrite, ResetPart, DIResetRead, ResetRead, StrengthPart,
           StrengthBits, ClockPart
  <2> QED BY <2>3, <2>4
<1>5. ASSUME NEW e \in {"DI", "SI", "SDIO"}, NEW v \in SUBSET {1, 2, 4},
             Record(<<e, "IOStrength">>, v),
             \A f \in {"DI", "SI", "SDIO"}, b \in {1, 2, 4} :
                <<f, b>> \in iostrctrl' <=> <<f, b>> \in SetStrength(e, v),
             UNCHANGED <<iopwrctrl, lt_rstb, iop2x>>
      PROVE  PowerPart' /\ ResetPart' /\ StrengthPart' /\ ClockPart'
  <2>1. \A b \in Attributes \ {<<e, "IOStrength">>} : written'[b] = written[b]
    BY <1>1, <1>5, RecordsOne, AttributeNames
  <2>2. PowerPart' /\ ResetPart' /\ ClockPart'
    BY <1>1, <1>5, <2>1, AttributeNames
       DEF PowerPart, PowerRead, ResetPart, DIResetRead, ResetRead, ClockPart
  <2> QED BY <1>1, <1>5, <2>2, StrengthStep
<1>6. CASE DIStrengthInit
  BY <1>5, <1>6 DEF DIStrengthInit, StrengthInit, DIStrength
<1>7. CASE SIStrengthInit
  BY <1>5, <1>7 DEF SIStrengthInit, StrengthInit, SIStrength
<1>8. CASE SDIOStrengthInit
  <2>1. SDIOStrength \in SUBSET {1, 2, 4}
    BY DEF SDIOStrength
  <2>2. ASSUME NEW f \in {"DI", "SI", "SDIO"}, NEW b \in {1, 2, 4}
        PROVE  <<f, b>> \in iostrctrl'
                 <=> <<f, b>> \in SetStrength("SDIO", SDIOStrength)
    BY <1>8 DEF SDIOStrengthInit, SDIOLatte, Field
  <2> QED BY <1>5, <1>8, <2>1, <2>2 DEF SDIOStrengthInit
<1>9. ASSUME NEW b \in {"DIRSTB", "OTHER"}, NEW v, ResetWrite(b, v)
      PROVE  PowerPart' /\ ResetPart' /\ StrengthPart' /\ ClockPart'
  <2>1. /\ b = "DIRSTB" => written'[<<"DI", "Reset">>] = IF v = 0 THEN 1 ELSE 0
        /\ b # "DIRSTB" => written'[<<"DI", "Reset">>] = written[<<"DI", "Reset">>]
        /\ \A a \in Attributes \ {<<"DI", "Reset">>} : written'[a] = written[a]
    BY <1>1, <1>9, RecordsOne, AttributeNames DEF ResetWrite
  <2>2. ResetPart'
    BY <1>1, <1>9, <2>1 DEF ResetWrite, ResetPart, DIResetRead, ResetRead
  <2>3. PowerPart' /\ StrengthPart' /\ ClockPart'
    BY <1>1, <1>9, <2>1, AttributeNames
       DEF ResetWrite, PowerPart, PowerRead, StrengthPart, StrengthBits,
           ClockPart
  <2> QED BY <2>2, <2>3
<1>10. ASSUME NEW d, NEW p, Iop2xWrite(d, p)
       PROVE  PowerPart' /\ ResetPart' /\ StrengthPart' /\ ClockPart'
  <2> DEFINE n == IF d = None THEN board.iopClockMultiplier ELSE d
  <2>1. /\ written'[<<"SYS", "iop2x">>] = n
        /\ \A a \in Attributes \ {<<"SYS", "iop2x">>} : written'[a] = written[a]
    BY <1>1, <1>10, RecordsOne, AttributeNames DEF Iop2xWrite
  <2>2. ClockPart'
    BY <1>10, <2>1 DEF Iop2xWrite, ClockPart
  <2>3. PowerPart' /\ ResetPart' /\ StrengthPart'
    BY <1>1, <1>10, <2>1, AttributeNames
       DEF Iop2xWrite, PowerPart, PowerRead, ResetPart, DIResetRead,
           ResetRead, StrengthPart, StrengthBits
  <2> QED BY <2>2, <2>3
<1>11. ASSUME NEW cmd, NEW fails, CcrhReset(cmd, fails)
       PROVE  PowerPart' /\ ResetPart' /\ StrengthPart' /\ ClockPart'
  BY <1>1, <1>11 DEF CcrhReset, PowerPart, PowerRead, ResetPart, DIResetRead,
        ResetRead, StrengthPart, StrengthBits, ClockPart
<1>12. CASE DevNext
  BY <1>4, <1>6, <1>7, <1>8, <1>9, <1>10, <1>11, <1>12
     DEF DevNext, PowerInit, DIResetWrite
<1>13. CASE UNCHANGED devVars
  BY <1>3, <1>13
<1>14. DevNext \/ UNCHANGED devVars
  BY DEF Next, vars, Boots, Exec, ExecStop, ReleaseCPU, ReleaseSRSTB,
         PollAcknowledge, PollAgain, PollGiveUp, ExecStart, RestoreSRSTB,
         ExecStartLatte, Write60Xe
<1> QED BY <1>12, <1>13, <1>14

(* What was last written to an attribute of DI, SI, SDIO, RESET or SYS is  *)
(* what the register holds for it, whatever the entities that share the    *)
(* register did in between.                                                *)
THEOREM ReadBackCorrect == Spec => []ReadBack
<1>1. Init => ReadBack
  BY DEF Init, DevInit, ReadBack, Attributes, Powered
<1>2. TypeOK /\ ReadBack /\ [Next]_vars => ReadBack'
  BY ReadBackStep
<1> QED BY <1>1, <1>2, TypeCorrect, PTL DEF Spec

----------------------------------------------------------------------------
(* The reports of bspCCRH_Reset_write agree with the line and with what    *)
(* failed, whatever the other entities did since.                          *)
THEOREM HoldCorrect == Spec => []HoldReported
<1>1. Init => HoldReported
  BY DevicesAssumption DEF Init, DevInit, HoldReported
<1>2. TypeOK /\ HoldReported /\ [Next]_vars => HoldReported'
  <2> SUFFICES ASSUME HoldReported, [Next]_vars PROVE HoldReported'
    OBVIOUS
  <2>1. ASSUME NEW cmd \in 0..4, NEW fails, CcrhReset(cmd, fails)
        PROVE  HoldReported'
    <3>1. CASE cmd = 0
      BY <2>1, <3>1 DEF CcrhReset, HoldReported
    <3>2. CASE cmd = 1
      <4>1. ccrh' = [cmd |-> 1, ret |-> IF fails = {} THEN "OK" ELSE "ERROR",
                     failed |-> fails]
        BY <2>1, <3>2 DEF CcrhReset, ResetRval
      <4>2. "low" \notin fails => drh' = 0
        BY <2>1, <3>2 DEF CcrhReset
      <4> QED BY <4>1, <4>2 DEF HoldReported
    <3>3. CASE cmd \in 2..4
      <4>0. cmd # 1 /\ cmd \in 1..4
        BY <3>3
      <4>1. ccrh' = [cmd |-> cmd, failed |-> fails,
                     ret |-> IF "reinit" \in fails THEN "ERROR" ELSE "OK"]
        BY <2>1, <3>3, <4>0 DEF CcrhReset, ResetRval
      <4>2. "high" \notin fails => drh' = 1
        BY <2>1, <3>3, <4>0 DEF CcrhReset
      <4> QED BY <3>3, <4>1, <4>2 DEF HoldReported
    <3> QED BY <3>1, <3>2, <3>3
  <2>2. CASE UNCHANGED <<drh, ccrh>>
    BY <2>2 DEF HoldReported
  <2>3. \/ \E cmd \in 0..4 : \E fails \in SUBSET StepsOf(cmd) :
              CcrhReset(cmd, fails)
        \/ UNCHANGED <<drh, ccrh>>
    BY DEF Next, vars, devVars, DevNext, PowerInit, PowerWrite, StrengthInit,
         DIStrengthInit, SIStrengthInit, SDIOStrengthInit, DIResetWrite,
         ResetWrite, Iop2xWrite, Boots, Exec, ExecStop, ReleaseCPU,
         ReleaseSRSTB, PollAcknowledge, PollAgain, PollGiveUp, ExecStart,
         RestoreSRSTB, ExecStartLatte, Write60Xe
  <2> QED BY <2>1, <2>2, <2>3
<1> QED BY <1>1, <1>2, TypeCorrect, PTL DEF Spec

----------------------------------------------------------------------------
(* Where the thread is in an Exec tells how the PowerPC and the EXI bus    *)
(* are: in reset up to the release of SRSTB, out of it while polled.  A    *)
(* flag of this run was raised by the PowerPC that runs.                   *)
PlaceInv ==
    /\ pc \in {"idle", "starting"} => exi
    /\ pc \in {"inReset", "released"} => "SRSTB" \notin saved \cup rstb
    /\ pc = "starting" => "CPU" \notin rstb
    /\ pc = "polling" => Running
    /\ pc = "idle" /\ result.cmd = 1 /\ result.ret \in {"OK", "DEVICE_ERROR"}
         => Running
    /\ x2 = "this" => Running /\ booted

(* Streaming is off once a value other than 1 was written. *)
StreamingInv == "STREAMING" \in cfg60xe <=> \E v \in written60 : v # 1

(* Unless an ExecStop that gave up is still unanswered, a flag X2 that is  *)
(* up was raised by the PowerPC that is being polled, and none is raised   *)
(* between methods: a PowerPC that runs then has raised its flag already.  *)
(* A genuine OK restores this, since it clears the one flag there is and   *)
(* leaves a PowerPC that has raised its own.                               *)
FlagInv ==
    /\ gaveUp # "pending" =>
         /\ x2 # "clear" => pc = "polling" /\ x2 = "this"
         /\ pc = "idle" /\ Running => booted
         /\ result.cmd = 1 /\ result.ret = "OK" => result.x2 = "this"
    /\ gaveUp = "never" => seeprom

PPCInv == PlaceInv /\ StreamingInv /\ FlagInv

(* Every action keeps the three parts. *)
LEMMA PPCStep ==
    ASSUME TypeOK, PPCInv, [Next]_vars
    PROVE  PPCInv'
<1> USE DEF PPCInv, PlaceInv, StreamingInv, FlagInv, Running
<1>1. CASE pc = "idle" /\ DevNext /\ UNCHANGED ppcVars
  BY <1>1 DEF ppcVars
<1>2. CASE Boots
  BY <1>2 DEF Boots, TypeOK
<1>3. ASSUME NEW cmd \in Bytes, Exec(cmd) PROVE PPCInv'
  BY <1>3 DEF Exec, Answer
<1>4. CASE ExecStop
  BY <1>4 DEF ExecStop, SetRSTB, TypeOK, Idle
<1>5. CASE ReleaseCPU
  BY <1>5 DEF ReleaseCPU, SetRSTB, TypeOK
<1>6. CASE ReleaseSRSTB
  BY <1>6 DEF ReleaseSRSTB, SetRSTB, TypeOK
<1>7. CASE PollAcknowledge
  BY <1>7 DEF PollAcknowledge, Answer, Answered, TypeOK
<1>8. CASE PollAgain
  BY <1>8 DEF PollAgain
<1>9. CASE PollGiveUp
  BY <1>9 DEF PollGiveUp, Answer
<1>10. CASE ExecStart
  BY <1>10 DEF ExecStart, SetRSTB, TypeOK, Idle
<1>11. CASE RestoreSRSTB
  BY <1>11 DEF RestoreSRSTB, SetRSTB, Answer, TypeOK
<1>12. CASE ExecStartLatte
  BY <1>12 DEF ExecStartLatte, SetRSTB, Answer, TypeOK, Idle
<1>13. ASSUME NEW v \in Bytes, Write60Xe(v) PROVE PPCInv'
  BY <1>13 DEF Write60Xe, Bytes
<1>14. CASE UNCHANGED vars
  BY <1>14 DEF vars, ppcVars
<1> QED
  BY <1>1, <1>2, <1>3, <1>4, <1>5, <1>6, <1>7, <1>8, <1>9, <1>10, <1>11,
     <1>12, <1>13, <1>14 DEF Next

(* The invariant of the PPC entity holds in every behaviour. *)
THEOREM PPCCorrect == Spec => []PPCInv
<1>1. Init => PPCInv
  BY DevicesAssumption
     DEF Init, PPCInv, PlaceInv, StreamingInv, FlagInv, Running
<1>2. TypeOK /\ PPCInv /\ [Next]_vars => PPCInv'
  BY PPCStep
<1> QED BY <1>1, <1>2, TypeCorrect, PTL DEF Spec

(* An OK of bspPPCExecStop is the answer of the PowerPC it has just reset, *)
(* unless an ExecStop gave up before and none was answered since.          *)
THEOREM StopCorrect == Spec => []StopGenuine
<1>1. PPCInv => StopGenuine
  BY DEF PPCInv, FlagInv, StopGenuine
<1> QED BY <1>1, PPCCorrect, PTL

(* Between methods EXI is enabled, the PowerPC is out of reset after an    *)
(* ExecStop, and streaming is off for good after the first value but 1.    *)
THEOREM SettledCorrect == Spec => []Settled
<1>1. PPCInv => Settled
  BY DEF PPCInv, PlaceInv, StreamingInv, Settled, Read60Xe
<1> QED BY <1>1, PPCCorrect, PTL
============================================================================
