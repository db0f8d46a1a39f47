------------------------- MODULE EepromStoreProofs -------------------------
(***************************************************************************)
(* The promises of the word store, for any number of words and any         *)
(* operations: what a caller may rely on although a write that timed out   *)
(* can leave the chip busy behind the driver's back.                       *)
(***************************************************************************)
EXTENDS EepromStore, TLAPS

(* Every action keeps the shapes of the variables. *)
LEMMA TypeStep ==
    ASSUME TypeOK, [Next]_vars
    PROVE  TypeOK'
<1>1. NoAnswer \in Answer
  BY DEF NoAnswer, Answer, Errors
<1>2. ASSUME NEW o \in Ops, Call(o) PROVE TypeOK'
  BY <1>1, <1>2, StoreAssumption DEF Call, TypeOK
<1>3. CASE Take
  <2>1. op \in Operation /\ op.addr \in Addrs /\ op.data \in Words
    BY <1>3 DEF Take, Issued, TypeOK, Operation
  <2>2. mem[op.addr] \in Words
    BY <2>1 DEF TypeOK, Memory
  <2>3. NewContents \in Memory
    BY <2>1, StoreAssumption DEF NewContents, TypeOK, Memory
  <2>4. pending' \in Memory \cup {None} /\ latched' \in Words \cup {None}
    BY <1>3, <2>2, <2>3 DEF Take
  <2>5. wen' \in BOOLEAN
    BY <1>3 DEF Take, TypeOK
  <2> QED BY <1>3, <2>4, <2>5 DEF Take, TypeOK
<1>4. CASE Settle
  BY <1>4 DEF Settle, TypeOK
<1>5. ASSUME NEW ret \in Errors, NEW data \in Words \cup {None},
             NEW s \in Statuses, Return(ret, data, s)
      PROVE  TypeOK'
  <2>1. [op |-> op, ret |-> ret, data |-> data, clean |-> clean] \in Answer
    BY <1>5 DEF TypeOK, Answer
  <2> QED BY <1>5, <2>1 DEF Return, TypeOK
<1>6. CASE UNCHANGED vars
  BY <1>6 DEF vars, TypeOK
<1> QED BY <1>2, <1>3, <1>4, <1>5, <1>6 DEF Next

(* The type invariant of the store. *)
THEOREM StoreTypeCorrect == Spec => []TypeOK
<1>1. Init => TypeOK
  <2>1. NoAnswer \in Answer
    BY DEF NoAnswer, Answer, Errors
  <2> QED BY <2>1 DEF Init, TypeOK, Statuses
<1>2. TypeOK /\ [Next]_vars => TypeOK'
  BY TypeStep
<1> QED BY <1>1, <1>2, PTL DEF Spec

----------------------------------------------------------------------------
(* The chip programs only with the latch set. *)
LatchInv == pending # None => wen

(* What is known while an operation that found the chip idle is running:   *)
(* the chip stays idle until it takes the command, and then the word it    *)
(* shifts out, its latch or the word it programs is the operation's.       *)
RunningInv ==
    op # NoOp /\ clean =>
        /\ ~taken => pending = None
        /\ taken /\ op.cmd = "READ" =>
             latched = mem[op.addr] /\ pending = None
        /\ taken /\ op.cmd \in {"ENABLE", "DISABLE"} =>
             wen = (op.cmd = "ENABLE") /\ pending = None
        /\ taken /\ op.cmd = "WRITE" /\ wen =>
             \/ pending = None /\ mem[op.addr] = op.data
             \/ pending # None /\ pending[op.addr] = op.data

(* What is known after it has returned OK, until the next call. *)
AnsweredInv ==
    /\ answer.op # NoOp => op = NoOp
    /\ answer.op # NoOp /\ answer.clean /\ answer.ret = "OK" =>
         /\ answer.op.cmd = "READ" =>
              answer.data = mem[answer.op.addr] /\ pending = None
         /\ answer.op.cmd \in {"ENABLE", "DISABLE"} =>
              wen = (answer.op.cmd = "ENABLE")
         /\ answer.op.cmd = "WRITE" =>
              /\ pending = None
              /\ wen => mem[answer.op.addr] = answer.op.data

StoreInv == LatchInv /\ RunningInv /\ AnsweredInv

(* Every action keeps the three parts. *)
LEMMA StoreStep ==
    ASSUME TypeOK, StoreInv, [Next]_vars
    PROVE  StoreInv'
<1> USE DEF StoreInv
<1>0. None \notin Memory
  BY StoreAssumption
<1>1. ASSUME NEW o \in Ops, Call(o) PROVE StoreInv'
  <2>1. LatchInv' /\ RunningInv'
    BY <1>1 DEF Call, LatchInv, RunningInv, TypeOK
  <2>2. AnsweredInv'
    BY <1>1 DEF Call, AnsweredInv, NoAnswer
  <2> QED BY <2>1, <2>2
<1>2. CASE Take
  <2>1. /\ op \in Operation /\ op # NoOp
        /\ op.addr \in Addrs /\ op.data \in Words
    BY <1>2, StoreAssumption DEF Take, Issued, TypeOK, Operation
  <2>2. NewContents \in Memory
    BY <2>1, StoreAssumption DEF NewContents, TypeOK, Memory
  <2>3. LatchInv'
    BY <1>2 DEF Take, LatchInv, Programs
  <2>4. op.cmd = "WRITE" => NewContents[op.addr] = op.data
    BY <2>1 DEF NewContents, TypeOK, Memory
  <2>5. RunningInv'
    BY <1>0, <1>2, <2>2, <2>4 DEF Take, RunningInv, Programs
  <2>6. AnsweredInv'
    BY <1>2, <2>1 DEF Take, AnsweredInv
  <2> QED BY <2>3, <2>5, <2>6
<1>3. CASE Settle
  <2>1. LatchInv'
    BY <1>3 DEF Settle, LatchInv
  <2>2. RunningInv'
    BY <1>3 DEF Settle, RunningInv
  <2>3. AnsweredInv'
    BY <1>3 DEF Settle, AnsweredInv
  <2> QED BY <2>1, <2>2, <2>3
<1>4. ASSUME NEW ret \in Errors, NEW data \in Words \cup {None},
             NEW s \in Statuses, Return(ret, data, s)
      PROVE  StoreInv'
  <2>1. /\ op # NoOp /\ CanReturn(ret, data, s)
        /\ op' = NoOp /\ UNCHANGED <<mem, wen, pending>>
        /\ answer' = [op |-> op, ret |-> ret, data |-> data, clean |-> clean]
    BY <1>4 DEF Return
  <2>2. LatchInv' /\ RunningInv'
    BY <2>1 DEF LatchInv, RunningInv
  <2>3. ASSUME clean, ret = "OK", op.cmd = "READ"
        PROVE  data = mem[op.addr] /\ pending = None
    <3>1. taken /\ data = latched
      BY <2>1, <2>3 DEF CanReturn, Programs
    <3> QED BY <2>1, <2>3, <3>1 DEF RunningInv
  <2>4. ASSUME clean, ret = "OK", op.cmd \in {"ENABLE", "DISABLE"}
        PROVE  wen = (op.cmd = "ENABLE")
    <3>1. taken
      BY <2>1, <2>4 DEF CanReturn, Programs
    <3> QED BY <2>1, <2>4, <3>1 DEF RunningInv
  <2>5. ASSUME clean, ret = "OK", op.cmd = "WRITE"
        PROVE  pending = None /\ (wen => mem[op.addr] = op.data)
    <3>1. taken /\ pending = None
      BY <2>1, <2>5 DEF CanReturn, Programs
    <3> QED BY <2>1, <2>5, <3>1 DEF RunningInv
  <2>6. AnsweredInv'
    BY <2>1, <2>3, <2>4, <2>5 DEF AnsweredInv
  <2> QED BY <2>2, <2>6
<1>5. CASE UNCHANGED vars
  BY <1>5 DEF vars, LatchInv, RunningInv, AnsweredInv
<1> QED BY <1>1, <1>2, <1>3, <1>4, <1>5 DEF Next

(* StoreInv holds in every behaviour. *)
THEOREM StoreCorrect == Spec => []StoreInv
<1>1. Init => StoreInv
  BY DEF Init, StoreInv, LatchInv, RunningInv, AnsweredInv, NoAnswer
<1>2. TypeOK /\ StoreInv /\ [Next]_vars => StoreInv'
  BY StoreStep
<1> QED BY <1>1, <1>2, StoreTypeCorrect, PTL DEF Spec

(* A read that found the chip idle returns the stored word. *)
THEOREM ReadCorrect == Spec => []ReadReturnsStored
<1>1. StoreInv => ReadReturnsStored
  BY DEF StoreInv, AnsweredInv, ReadReturnsStored
<1> QED BY <1>1, StoreCorrect, PTL

(* A write that found the chip idle and was acknowledged with the latch    *)
(* set is stored.                                                          *)
THEOREM WriteCorrect == Spec => []AckedWriteStored
<1>1. StoreInv => AckedWriteStored
  BY DEF StoreInv, AnsweredInv, AckedWriteStored
<1> QED BY <1>1, StoreCorrect, PTL

(* An acknowledged ENABLE or DISABLE that found the chip idle set the      *)
(* latch.                                                                  *)
THEOREM ControlCorrect == Spec => []AckedControlSet
<1>1. StoreInv => AckedControlSet
  BY DEF StoreInv, AnsweredInv, AckedControlSet
<1> QED BY <1>1, StoreCorrect, PTL
============================================================================
