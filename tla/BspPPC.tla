------------------------------- MODULE BspPPC -------------------------------
(***************************************************************************)
(* The PPC entity (ios_bsp/entities/ppc), with the PowerPC as a process of *)
(* its own, beside the entities of BspDevices.  bspPPCExecStop sleeps      *)
(* between its accesses to the reset register and polls for the flag that  *)
(* the PowerPC raises when it has booted; in a sleep the PowerPC may do    *)
(* anything, and no other method runs.  exec stands for the pointers       *)
(* pPPCExecStop and pPPCExecStart: bspPPCInstall as written returns before *)
(* it sets them, see Install, so that NULL is what they are; the model     *)
(* also lets them be what its lines 151 to 159 would set.                  *)
(***************************************************************************)
EXTENDS BspDevices

CONSTANTS MaxPolls   \* how often ExecStop looks for the flag (100)

ASSUME PPCAssumption == MaxPolls \in Nat \ {0}

VARIABLES
    exec,     \* the functions for Exec: "NULL", "wood" or "latte"
    pc,       \* where in an Exec the thread is
    polls,    \* the polls made so far
    exi,      \* HW_AIP_PROT_ENAHBIOPI
    rstb,     \* the bits CPU, SRSTB and PI of HW_RSTB
    saved,    \* the local copy of it
    x2,       \* the flag X2 of the IPC register: "clear", raised in "this"
              \* run of the PowerPC, or raised in an "earlier" one
    booted,   \* the PowerPC has raised X2 since it left reset
    seeprom,  \* the PVR in the SEEPROM is one that a PowerPC reported
    cfg60xe,  \* LT_60XE_CFG
    written60, \* the values written to 60XeDataStreaming so far
    gaveUp,   \* "never": no ExecStop gave up; "pending": one did, and none
              \* got its own answer since; "answered": one did since
    result    \* the last Exec and what it returned

ppcVars == <<exec, pc, polls, exi, rstb, saved, x2, booted, seeprom,
             cfg60xe, written60, gaveUp, result>>
vars == <<devVars, ppcVars>>

----------------------------------------------------------------------------
(* Installation: the summary, the properties of the cores and which        *)
(* functions Exec uses.                                                    *)
Espresso(b) == b.kind \in {"LATTE", "ESPRESSO"}
NumberOfCores(b) == IF Espresso(b) THEN 3 ELSE 1
FillOutCoreProperties(b, core) ==
    [ret |-> "OK", coreActive |-> core < NumberOfCores(b),
     l2Size |-> IF core >= NumberOfCores(b) THEN 0
                ELSE IF ~Espresso(b) THEN 256
                ELSE IF core = 1 THEN 2048 ELSE 512]
ExecOf(b) == IF b.kind = "LATTE" THEN "latte" ELSE "wood"

Install(b) ==   \* if (!ret) return ret;
    IF \A core \in 0 .. NumberOfCores(b) - 1 :
          FillOutCoreProperties(b, core).ret = "OK"
      THEN [registered |-> FALSE, exec |-> "NULL"]
      ELSE [registered |-> TRUE, exec |-> ExecOf(b)]

Init ==
    /\ DevInit
    /\ exec \in {Install(board).exec, ExecOf(board)}
    /\ pc = "idle" /\ polls = 0
    /\ exi = TRUE                       \* set by bspInitEssential
    /\ rstb = {"PI"} /\ saved = {}     \* the PowerPC is held in reset
    /\ x2 = "clear" /\ booted = FALSE
    /\ seeprom = TRUE
    /\ cfg60xe = {} /\ written60 = {}
    /\ gaveUp = "never"
    /\ result = [cmd |-> None, ret |-> "OK", x2 |-> "clear"]

----------------------------------------------------------------------------
(* The PowerPC: out of reset it reports its PVR in the EXI boot area and   *)
(* raises X2, once and whenever it gets there.                             *)
Running == {"CPU", "SRSTB"} \subseteq rstb
Boots ==
    /\ Running /\ ~booted
    /\ booted' = TRUE /\ x2' = "this"
    /\ UNCHANGED <<devVars, exec, pc, polls, exi, rstb, saved, seeprom,
                   cfg60xe, written60, gaveUp, result>>

(* A write to HW_RSTB, with what it does to the PowerPC. *)
SetRSTB(bits) ==
    /\ rstb' = bits
    /\ IF {"CPU", "SRSTB"} \subseteq bits
         THEN UNCHANGED <<booted, x2>>
         ELSE /\ booted' = FALSE
              /\ x2' = IF x2 = "clear" THEN "clear" ELSE "earlier"

Idle == pc = "idle" /\ "PPC" \in inUse
Answer(cmd, ret) == result' = [cmd |-> cmd, ret |-> ret, x2 |-> x2]
Answered == gaveUp' = IF gaveUp = "pending" /\ x2 = "this" THEN "answered"
                      ELSE gaveUp

Exec(cmd) ==
    /\ Idle
    /\ \/ /\ cmd \notin {1, 2}
          /\ Answer(cmd, "INVALID_PARAMETER")
       \/ /\ cmd \in {1, 2} /\ exec = "NULL"
          /\ Answer(cmd, "UNSUPPORTED_METHOD")
    /\ UNCHANGED <<devVars, exec, pc, polls, exi, rstb, saved, x2, booted,
                   seeprom, cfg60xe, written60, gaveUp>>

ExecStop ==
    /\ Idle /\ exec = "wood"
    /\ exi' = FALSE
    /\ saved' = rstb \ {"CPU", "SRSTB"}
    /\ SetRSTB(saved')
    /\ pc' = "inReset"
    /\ UNCHANGED <<devVars, exec, polls, seeprom, cfg60xe, written60, gaveUp,
                   result>>

ReleaseCPU ==
    /\ pc = "inReset"
    /\ SetRSTB(saved \cup {"CPU"})
    /\ pc' = "released"
    /\ UNCHANGED <<devVars, exec, polls, exi, saved, seeprom, cfg60xe,
                   written60, gaveUp, result>>

ReleaseSRSTB ==
    /\ pc = "released"
    /\ SetRSTB(saved \cup {"CPU", "SRSTB"})
    /\ pc' = "polling" /\ polls' = 0
    /\ UNCHANGED <<devVars, exec, exi, saved, seeprom, cfg60xe, written60,
                   gaveUp, result>>

PollAcknowledgeKept ==   \* mutant: X2 is not cleared
    /\ pc = "polling" /\ x2 # "clear"
    /\ exi' = TRUE
    /\ seeprom' \in {seeprom, booted}
    /\ pc' = "idle"
    /\ Answer(1, "OK") /\ Answered
    /\ UNCHANGED <<devVars, exec, polls, rstb, saved, x2, booted, cfg60xe,
                   written60>>

(* The flag is up: acknowledge it, and store the PVR of the EXI boot area  *)
(* if the one in the SEEPROM differs or could not be read.                 *)
PollAcknowledge ==
    /\ pc = "polling" /\ x2 # "clear"
    /\ x2' = "clear"
    /\ exi' = TRUE
    /\ seeprom' \in {seeprom, booted}
    /\ pc' = "idle"
    /\ Answer(1, "OK") /\ Answered
    /\ UNCHANGED <<devVars, exec, polls, rstb, saved, booted, cfg60xe,
                   written60>>

PollAgainOnceMore ==   \* mutant: the loop runs once too often
    /\ pc = "polling" /\ x2 = "clear" /\ polls < MaxPolls
    /\ polls' = polls + 1
    /\ UNCHANGED <<devVars, exec, pc, exi, rstb, saved, x2, booted, seeprom,
                   cfg60xe, written60, gaveUp, result>>
PollAgain ==
    /\ pc = "polling" /\ x2 = "clear" /\ polls < MaxPolls - 1
    /\ polls' = polls + 1
    /\ UNCHANGED <<devVars, exec, pc, exi, rstb, saved, x2, booted, seeprom,
                   cfg60xe, written60, gaveUp, result>>

PollGiveUpDark ==   \* mutant: EXI stays off when the PowerPC is silent
    /\ pc = "polling" /\ x2 = "clear" /\ polls = MaxPolls - 1
    /\ pc' = "idle" /\ gaveUp' = "pending"
    /\ Answer(1, "DEVICE_ERROR")
    /\ UNCHANGED <<devVars, exec, polls, exi, rstb, saved, x2, booted,
                   seeprom, cfg60xe, written60>>
PollGiveUp ==
    /\ pc = "polling" /\ x2 = "clear" /\ polls = MaxPolls - 1
    /\ exi' = TRUE
    /\ pc' = "idle" /\ gaveUp' = "pending"
    /\ Answer(1, "DEVICE_ERROR")
    /\ UNCHANGED <<devVars, exec, polls, rstb, saved, x2, booted, seeprom,
                   cfg60xe, written60>>

ExecStart ==
    /\ Idle /\ exec = "wood"
    /\ saved' = rstb \cap {"SRSTB"}
    /\ SetRSTB(rstb \ {"CPU", "SRSTB"})
    /\ pc' = "starting"
    /\ UNCHANGED <<devVars, exec, polls, exi, seeprom, cfg60xe, written60,
                   gaveUp, result>>

RestoreSRSTB ==
    /\ pc = "starting"
    /\ SetRSTB((rstb \ {"SRSTB"}) \cup saved)
    /\ pc' = "idle"
    /\ Answer(2, "OK")
    /\ UNCHANGED <<devVars, exec, polls, exi, saved, seeprom, cfg60xe,
                   written60, gaveUp>>

ExecStartLatte ==
    /\ Idle /\ exec = "latte"
    /\ SetRSTB(rstb \ {"CPU", "PI"})
    /\ Answer(2, "OK")
    /\ UNCHANGED <<devVars, exec, pc, polls, exi, saved, seeprom, cfg60xe,
                   written60, gaveUp>>

----------------------------------------------------------------------------
(* 60XeDataStreaming: the bit that turns streaming off is only ever set,   *)
(* and the latch, set for the change, is taken off again.                  *)
Read60Xe == IF "STREAMING" \in cfg60xe THEN 0 ELSE 1
Write60Xe(v) ==
    /\ Idle /\ LATTE
    /\ cfg60xe' = (cfg60xe \cup (IF v = 1 THEN {} ELSE {"STREAMING"}))
                  \ {"LATCH"}
    /\ written60' = written60 \cup {v}
    /\ UNCHANGED <<devVars, exec, pc, polls, exi, rstb, saved, x2, booted,
                   seeprom, gaveUp, result>>

Next ==
    \/ pc = "idle" /\ DevNext /\ UNCHANGED ppcVars
    \/ Boots
    \/ \E cmd \in Bytes : Exec(cmd)
    \/ ExecStop \/ ReleaseCPU \/ ReleaseSRSTB
    \/ PollAcknowledge \/ PollAgain \/ PollGiveUp
    \/ ExecStart \/ RestoreSRSTB \/ ExecStartLatte
    \/ \E v \in Bytes : Write60Xe(v)

Spec == Init /\ [][Next]_vars

----------------------------------------------------------------------------
(* Type invariant of the board. *)
TypeOK ==
    /\ DevTypeOK
    /\ exec \in {"NULL", "wood", "latte"}
    /\ pc \in {"idle", "inReset", "released", "polling", "starting"}
    /\ polls \in 0 .. MaxPolls - 1
    /\ rstb \subseteq {"CPU", "SRSTB", "PI"}
    /\ saved \subseteq {"SRSTB", "PI"}
    /\ x2 \in {"clear", "this", "earlier"}
    /\ {exi, booted, seeprom} \subseteq BOOLEAN
    /\ gaveUp \in {"never", "pending", "answered"}
    /\ cfg60xe \subseteq {"STREAMING"}

(* An OK of bspPPCExecStop is the answer of the PowerPC that it has just   *)
(* reset, but for the ones after an ExecStop that gave up: its PowerPC may *)
(* still raise X2, which the next ExecStop takes for the answer of its     *)
(* own, leaving that one's to the next again, until an OK is genuine.  The *)
(* PVR stored in the SEEPROM is one that the PowerPC reported as long as   *)
(* no ExecStop gave up.                                                    *)
StopGenuine ==
    /\ gaveUp # "pending" /\ result.cmd = 1 /\ result.ret = "OK"
         => result.x2 = "this"
    /\ gaveUp = "never" => seeprom

(* Between methods the EXI bus is enabled, whichever way ExecStop ended,   *)
(* the PowerPC is out of reset after an ExecStop until the next Exec, and  *)
(* streaming reads as off from the first write of another value than 1 on, *)
(* since no write turns it on again.                                       *)
Settled ==
    pc = "idle" =>
      /\ exi
      /\ result.cmd = 1 /\ result.ret \in {"OK", "DEVICE_ERROR"} => Running
      /\ Read60Xe = 0 <=> written60 \ {1} # {}
============================================================================
