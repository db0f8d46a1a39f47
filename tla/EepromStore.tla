---------------------------- MODULE EepromStore ----------------------------
(***************************************************************************)
(* What the EEPROM driver (ios_bsp/libraries/eeprom_drv) promises its      *)
(* callers, without pins: a store of words with a write-enable latch and a *)
(* slow programming cycle.  An operation is called, taken by the chip at   *)
(* most once, and returns.  A write that times out leaves the chip busy    *)
(* behind the driver's back; the next operation may find it so.            *)
(***************************************************************************)
EXTENDS Naturals

CONSTANTS Addrs,      \* word addresses
          Words,      \* the values of a word
          ErasedWord, \* the value of a word after ERAL
          Ops,        \* the operations that callers ask for
          NoOp, None

Statuses == {"UNINITIALISED", "INITIALISED", "OPEN", "CLOSED"}
Controls == {"ERASE", "ENABLE", "DISABLE", "BADCONTROL"}
Commands == {"Init", "Open", "Shutdown", "READ", "WRITE"} \cup Controls
Errors   == {"OK", "EXISTS", "MAX", "INVALID", "NOTREADY", "FAIL_INTERNAL"}
Operation == [cmd : Commands, ndx : {0, 1}, addr : Addrs, data : Words]

Memory == [Addrs -> Words]

ASSUME StoreAssumption ==
    /\ ErasedWord \in Words
    /\ Ops \subseteq Operation
    /\ NoOp \notin Operation
    /\ None \notin Words
    /\ None \notin Memory

VARIABLES
    status,   \* the driver's status of the EEPROM
    op,       \* the operation in progress, or NoOp
    clean,    \* it was called with the chip not busy
    taken,    \* the chip has taken its command
    mem,      \* the chip's words
    wen,      \* the chip's write-enable latch
    pending,  \* the contents being programmed, or None
    latched,  \* the word the chip shifts out for a READ, or None
    answer    \* how the last operation ended

vars == <<status, op, clean, taken, mem, wen, pending, latched, answer>>

NoAnswer == [op |-> NoOp, ret |-> "OK", data |-> None, clean |-> TRUE]

Init ==
    /\ status = "UNINITIALISED"
    /\ op = NoOp
    /\ clean = TRUE
    /\ taken = FALSE
    /\ mem \in Memory
    /\ wen = FALSE
    /\ pending = None
    /\ latched = None
    /\ answer = NoAnswer

Call(o) ==
    /\ op = NoOp
    /\ op' = o
    /\ clean' = (pending = None)
    /\ taken' = FALSE
    /\ latched' = None
    /\ answer' = NoAnswer
    /\ UNCHANGED <<status, mem, wen, pending>>

(* The operations that put a command on the wire need an open driver. *)
OnWire(o) == o.cmd \in {"READ", "WRITE", "ERASE", "ENABLE", "DISABLE"}
Issued    == op # NoOp /\ OnWire(op) /\ op.ndx = 0 /\ status = "OPEN"
Programs(o) == o.cmd \in {"WRITE", "ERASE"}

NewContentsAlone == [a \in {op.addr} |-> op.data]   \* mutant: the others lost
NewContents == IF op.cmd = "WRITE" THEN [mem EXCEPT ![op.addr] = op.data]
                                   ELSE [a \in Addrs |-> ErasedWord]

(* The chip takes the command of the operation in progress, unless it is   *)
(* still busy with an earlier one.                                         *)
Take ==
    /\ Issued /\ ~taken
    /\ pending = None
    /\ taken' = TRUE
    /\ latched' = IF op.cmd = "READ" THEN mem[op.addr] ELSE None
    /\ pending' = IF Programs(op) /\ wen THEN NewContents ELSE None
    /\ wen' = IF op.cmd \in {"ENABLE", "DISABLE"} THEN op.cmd = "ENABLE"
                                                  ELSE wen
    /\ UNCHANGED <<status, op, clean, mem, answer>>

(* A programming cycle ends, whatever the driver does. *)
Settle ==
    /\ pending # None
    /\ mem' = pending
    /\ pending' = None
    /\ UNCHANGED <<status, op, clean, taken, wen, latched, answer>>

CanReturnAnything(ret, data, newStatus) ==   \* mutant: no wait for the chip
    /\ newStatus = IF op.cmd = "Open" THEN "OPEN" ELSE status
    /\ ret = "OK"
    /\ data \in IF op.cmd = "READ" THEN Words ELSE {None}

(* What an operation may return, and the status it leaves. *)
CanReturn(ret, data, newStatus) ==
    \/ /\ op.ndx # 0
       /\ ret = "MAX" /\ data = None /\ newStatus = status
    \/ /\ op.ndx = 0 /\ op.cmd = "Init"
       /\ data = None
       /\ \/ ret = "OK" /\ newStatus = "INITIALISED"
          \/ ret = "EXISTS" /\ newStatus = "UNINITIALISED"
    \/ /\ op.ndx = 0 /\ op.cmd = "Open"
       /\ data = None
       /\ IF status \in {"CLOSED", "INITIALISED"}
            THEN ret = "OK" /\ newStatus = "OPEN"
            ELSE ret = "NOTREADY" /\ newStatus = status
    \/ /\ op.ndx = 0 /\ op.cmd = "Shutdown"
       /\ data = None
       /\ IF status = "OPEN"
            THEN ret = "OK" /\ newStatus = "CLOSED"
            ELSE ret = "NOTREADY" /\ newStatus = status
    \/ /\ op.ndx = 0 /\ op.cmd \notin {"Init", "Open", "Shutdown"}
       /\ status # "OPEN"
       /\ ret = "NOTREADY" /\ data = None /\ newStatus = status
    \/ /\ op.ndx = 0 /\ op.cmd = "BADCONTROL" /\ status = "OPEN"
       /\ ret = "INVALID" /\ data = None /\ newStatus = status
    \/ /\ Issued /\ newStatus = status
       /\ clean => taken
       /\ \/ /\ op.cmd = "READ" /\ ret = "OK"
             /\ data \in Words
             /\ clean => data = latched
          \/ /\ op.cmd \in {"ENABLE", "DISABLE"}
             /\ ret = "OK" /\ data = None
          \/ /\ Programs(op) /\ data = None
             /\ \/ ret = "OK" /\ pending = None
                \/ ret = "FAIL_INTERNAL"

Return(ret, data, newStatus) ==
    /\ op # NoOp
    /\ CanReturn(ret, data, newStatus)
    /\ status' = newStatus
    /\ answer' = [op |-> op, ret |-> ret, data |-> data, clean |-> clean]
    /\ op' = NoOp
    /\ clean' = TRUE
    /\ taken' = FALSE
    /\ latched' = None
    /\ UNCHANGED <<mem, wen, pending>>

Next ==
    \/ \E o \in Ops : Call(o)
    \/ Take
    \/ Settle
    \/ \E ret \in Errors, data \in Words \cup {None}, s \in Statuses :
          Return(ret, data, s)

Spec == Init /\ [][Next]_vars

----------------------------------------------------------------------------
Answer == [op : Operation \cup {NoOp}, ret : Errors,
           data : Words \cup {None}, clean : BOOLEAN]

(* Type invariant of the store. *)
TypeOK ==
    /\ status \in Statuses
    /\ op \in Operation \cup {NoOp}
    /\ clean \in BOOLEAN
    /\ taken \in BOOLEAN
    /\ mem \in Memory
    /\ wen \in BOOLEAN
    /\ pending \in Memory \cup {None}
    /\ latched \in Words \cup {None}
    /\ answer \in Answer

(* eepromDrvReadWord returns the word the chip holds, unless an earlier    *)
(* write timed out and the chip was still busy when the read began.        *)
ReadReturnsStored ==
    /\ answer.op # NoOp /\ answer.clean
    /\ answer.op.cmd = "READ" /\ answer.ret = "OK"
    => answer.data = mem[answer.op.addr]

(* When eepromDrvWriteWord returns OK and writing is enabled, the word is  *)
(* in the chip, under the same condition.                                  *)
AckedWriteStored ==
    /\ answer.op # NoOp /\ answer.clean
    /\ answer.op.cmd = "WRITE" /\ answer.ret = "OK" /\ wen
    => mem[answer.op.addr] = answer.op.data

(* SetWriteControl: an acknowledged ENABLE or DISABLE has set the latch,   *)
(* under the same condition.                                               *)
AckedControlSet ==
    /\ answer.op # NoOp /\ answer.clean
    /\ answer.op.cmd \in {"ENABLE", "DISABLE"} /\ answer.ret = "OK"
    => wen = (answer.op.cmd = "ENABLE")
============================================================================
