---------------------------- MODULE BspEEProofs ----------------------------
(***************************************************************************)
(* Proofs about the EE entity and the board configuration of BspEE, for    *)
(* any EEPROM, any set of requests and any CRC: what the scripts of driver *)
(* calls do to the driver's status, the write-enable latch and the words   *)
(* although the cases of the ioctl switch fall through and a write may     *)
(* time out and leave the chip busy.                                       *)
(***************************************************************************)
EXTENDS BspEE, SequenceTheorems, TLAPS

(* The script of bcInit, of a method, and the ends that remain of them. *)
Init_ == DriverOp("Init")
Open_ == DriverOp("Open")
Shut_ == DriverOp("Shutdown")
Enable_ == DriverOp("ENABLE")
Disable_ == DriverOp("DISABLE")

DriverOps == {Init_, Open_, Shut_, Enable_, Disable_}
ReadOps == {ReadOp(a) : a \in Addrs}
WriteOps == {WriteOp(a, w) : a \in Addrs, w \in Words}

Rests(m, r) ==
    IF m = "bcInit" THEN {<<Init_, Open_, NoOp>>, <<Open_, NoOp>>, <<NoOp>>}
    ELSE IF m = "READ" THEN {<<ReadOp(r.addr), NoOp>>, <<NoOp>>}
    ELSE IF m = "INIT" THEN {<<Init_, Open_, Disable_, NoOp>>,
                             <<Open_, Disable_, NoOp>>, <<Disable_, NoOp>>,
                             <<NoOp>>}
    ELSE IF m = "SHUTDOWN" THEN {<<Shut_, NoOp>>, <<NoOp>>}
    ELSE IF r.attr = "access" THEN {<<WriteOp(r.addr, r.data), NoOp>>, <<NoOp>>}
    ELSE {<<Enable_, NoOp>>, <<Disable_, NoOp>>, <<NoOp>>}

----------------------------------------------------------------------------
(* The first word of the configuration has an address. *)
LEMMA BaseFacts ==
    /\ BcBase \in Addrs /\ BcBase + 2 \in Addrs /\ ErasedWord \in Words
    /\ \A i \in 1 .. BcMax : BcBase + i - 1 \in Addrs
BY EEAssumption, SMT

(* The fields of the operations. *)
LEMMA OpFields ==
    /\ \A a : ReadOp(a).cmd = "READ" /\ ReadOp(a).ndx = 0 /\ ReadOp(a).addr = a
    /\ \A a, w : /\ WriteOp(a, w).cmd = "WRITE" /\ WriteOp(a, w).ndx = 0
                 /\ WriteOp(a, w).addr = a /\ WriteOp(a, w).data = w
    /\ \A c : DriverOp(c).cmd = c /\ DriverOp(c).ndx = 0
BY SMT DEF ReadOp, WriteOp, DriverOp

(* They are operations, so that none is NoOp. *)
LEMMA OpTypes ==
    /\ ReadOps \subseteq Store!Operation
    /\ WriteOps \subseteq Store!Operation
    /\ DriverOps \subseteq Store!Operation
    /\ NoOp \notin ReadOps \cup WriteOps \cup DriverOps
<1>1. ReadOps \subseteq Store!Operation
  BY BaseFacts, SMT DEF ReadOps, ReadOp, Store!Operation, Store!Commands
<1>2. WriteOps \subseteq Store!Operation
  BY SMT DEF WriteOps, WriteOp, Store!Operation, Store!Commands
<1>3. ASSUME NEW c \in {"Init", "Open", "Shutdown", "ENABLE", "DISABLE"}
      PROVE  DriverOp(c) \in Store!Operation
  <2>1. c \in Store!Commands
    BY <1>3, Zenon DEF Store!Commands, Store!Controls
  <2>2. DriverOp(c) = [cmd |-> c, ndx |-> 0, addr |-> BcBase, data |-> ErasedWord]
    BY SMT DEF DriverOp, ReadOp
  <2> QED
    BY <2>1, <2>2, BaseFacts, SMT DEF Store!Operation
<1>4. DriverOps \subseteq Store!Operation
  BY <1>3, SMT DEF DriverOps, Init_, Open_, Shut_, Enable_, Disable_
<1> QED
  BY <1>1, <1>2, <1>4, EEAssumption, SMT

(* What a method has still to do after its next call, and what that is. *)
LEMMA RestsStep ==
    ASSUME NEW m, NEW r, m = "bcInit" \/ r \in Request, NEW s \in Rests(m, r)
    PROVE  /\ s # <<>> /\ Len(s) \in 1 .. 4
           /\ <<NoOp>> \in Rests(m, r)
           /\ Head(s) = NoOp <=> s = <<NoOp>>
           /\ s # <<NoOp>> => /\ Tail(s) \in Rests(m, r)
                              /\ Len(Tail(s)) = Len(s) - 1
                              /\ Head(s) \in ReadOps \cup WriteOps \cup DriverOps
<1> DEFINE Good(t) == /\ t # <<>> /\ Len(t) \in 1 .. 4
                      /\ Head(t) = NoOp <=> t = <<NoOp>>
                      /\ t # <<NoOp>> =>
                           /\ Len(Tail(t)) = Len(t) - 1
                           /\ Head(t) \in ReadOps \cup WriteOps \cup DriverOps
<1> DEFINE Ops == ReadOps \cup WriteOps \cup DriverOps
<1>1. NoOp \notin Ops
  BY OpTypes
<1> HIDE DEF Ops
<1>2. Good(<<NoOp>>)
  BY SMT
<1>3. ASSUME NEW x \in Ops, NEW y \in Ops, NEW z \in Ops
      PROVE  Good(<<x, NoOp>>) /\ Good(<<x, y, NoOp>>) /\ Good(<<x, y, z, NoOp>>)
  <2>1. x # NoOp /\ y # NoOp /\ z # NoOp
    BY <1>1
  <2>2. Good(<<x, NoOp>>)
    BY <2>1, SMT DEF Ops
  <2>3. Good(<<x, y, NoOp>>)
    BY <2>1, SMT DEF Ops
  <2>4. Good(<<x, y, z, NoOp>>)
    BY <2>1, SMT DEF Ops
  <2> QED
    BY <2>2, <2>3, <2>4
<1>4. Init_ \in Ops /\ Open_ \in Ops /\ Shut_ \in Ops /\ Enable_ \in Ops
      /\ Disable_ \in Ops
  BY DEF Ops, DriverOps
<1>5. r \in Request => ReadOp(r.addr) \in Ops /\ WriteOp(r.addr, r.data) \in Ops
  BY SMT DEF Ops, Request, ReadOps, WriteOps
<1>6. \A x, y, z : /\ Tail(<<x, NoOp>>) = <<NoOp>>
                   /\ Tail(<<x, y, NoOp>>) = <<y, NoOp>>
                   /\ Tail(<<x, y, z, NoOp>>) = <<y, z, NoOp>>
  BY SMT
<1>7. Good(s)
  <2> HIDE DEF Good
  <2> QED
    BY <1>2, <1>3, <1>4, <1>5, Zenon DEF Rests
<1>8. <<NoOp>> \in Rests(m, r)
  BY Zenon DEF Rests
<1>9. s # <<NoOp>> => Tail(s) \in Rests(m, r)
  BY <1>6, Zenon DEF Rests
<1> QED
  BY <1>7, <1>8, <1>9

----------------------------------------------------------------------------
(* The methods a request may still have to run. *)
CallsOf(r) ==
    IF r = ReadBoardConfig THEN {<<"bcInit", "bcGet">>, <<"bcGet">>, <<>>}
    ELSE IF r.attr = "bc" THEN {<<"READ">>, <<>>}
    ELSE IF r.attr = "access"
      THEN {<<"READ", "WRITE">>, <<"READ">>, <<"WRITE">>, <<>>}
    ELSE IF r.who = "ioctl"
      THEN {<<"WRITE", "INIT", "SHUTDOWN">>, <<"INIT", "SHUTDOWN">>,
            <<"SHUTDOWN">>, <<>>}
    ELSE {<<"WRITE">>, <<"INIT">>, <<"SHUTDOWN">>, <<>>}

(* bspReadBoardConfig is no request of a client. *)
LEMMA BootIsNoRequest ==
    ASSUME NEW r \in Request
    PROVE  /\ r # ReadBoardConfig /\ r.who \in {"ioctl", "internal"}
           /\ r.attr \in {"access", "control", "bc"}
           /\ r.method \in {"READ", "WRITE", "INIT", "SHUTDOWN"}
           /\ r.addr \in Addrs /\ r.data \in Words /\ r.sizeOk \in BOOLEAN
<1>1. ReadBoardConfig.who = "boot"
  BY SMT DEF ReadBoardConfig
<1>2. r.who \in {"ioctl", "internal"}
  BY SMT DEF Request
<1>3. "boot" \notin {"ioctl", "internal"}
  BY SMT
<1>4. r # ReadBoardConfig
  BY <1>1, <1>2, <1>3
<1> QED
  BY <1>4, SMT DEF Request

(* The switch of the ioctl handler reaches what stands below its case. *)
LEMMA FallThroughValue ==
    ASSUME NEW r \in Request
    PROVE  /\ r.who = "ioctl" =>
                /\ "SHUTDOWN" \in FallThrough(r)
                /\ "WRITE" \in FallThrough(r) => "INIT" \in FallThrough(r)
           /\ r.who # "ioctl" => FallThrough(r) = {r.method}
<1>1. DOMAIN Cases = {"READ", "WRITE", "INIT", "SHUTDOWN"}
  BY SMT DEF Cases
<1>2. /\ Cases["READ"] = 1 /\ Cases["WRITE"] = 2 /\ Cases["INIT"] = 3
      /\ Cases["SHUTDOWN"] = 4
  BY SMT DEF Cases
<1>3. r.method \in {"READ", "WRITE", "INIT", "SHUTDOWN"}
  BY BootIsNoRequest
<1> QED
  BY <1>1, <1>2, <1>3, SMT DEF FallThrough

(* What a request runs is one of the sequences of CallsOf. *)
LEMMA CalledValue ==
    ASSUME NEW r \in Request \cup {ReadBoardConfig}
    PROVE  Called(r) \in CallsOf(r)
<1>1. CASE r = ReadBoardConfig
  BY <1>1, Zenon DEF Called, CallsOf
<1>2. CASE r \in Request
  <2> DEFINE Case(m) == IF Runs(r, m) THEN <<m>> ELSE <<>>
  <2>1. Called(r) = Case("READ") \o Case("WRITE") \o Case("INIT") \o Case("SHUTDOWN")
    BY <1>2, BootIsNoRequest, Zenon DEF Called
  <2>2. /\ r # ReadBoardConfig
        /\ r.attr \in {"access", "control", "bc"}
        /\ r.method \in {"READ", "WRITE", "INIT", "SHUTDOWN"}
    BY <1>2, BootIsNoRequest
  <2>3. /\ Methods["access"] = {"READ", "WRITE"}
        /\ Methods["control"] = {"WRITE", "INIT", "SHUTDOWN"}
        /\ Methods["bc"] = {"READ"}
    BY SMT DEF Methods
  <2>4. CASE r.attr = "bc"
    <3>1. ~Runs(r, "WRITE") /\ ~Runs(r, "INIT") /\ ~Runs(r, "SHUTDOWN")
      BY <2>3, <2>4, SMT DEF Runs
    <3>2. Called(r) = Case("READ") \o <<>> \o <<>> \o <<>>
      BY <2>1, <3>1, Zenon
    <3>3. Called(r) \in {<<"READ">>, <<>>}
      BY <3>2, SMT
    <3> QED
      BY <2>2, <2>4, <3>3, SMT DEF CallsOf
  <2>5. CASE r.attr = "access"
    <3>1. ~Runs(r, "INIT") /\ ~Runs(r, "SHUTDOWN")
      BY <2>3, <2>5, SMT DEF Runs
    <3>2. Called(r) = Case("READ") \o Case("WRITE") \o <<>> \o <<>>
      BY <2>1, <3>1, Zenon
    <3>3. \/ Called(r) = <<"READ">> \o <<"WRITE">> \o <<>> \o <<>>
          \/ Called(r) = <<"READ">> \o <<>> \o <<>> \o <<>>
          \/ Called(r) = <<>> \o <<"WRITE">> \o <<>> \o <<>>
          \/ Called(r) = <<>> \o <<>> \o <<>> \o <<>>
      BY <3>2, Zenon
    <3>4. Called(r) \in {<<"READ", "WRITE">>, <<"READ">>, <<"WRITE">>, <<>>}
      BY <3>3, SMT
    <3> QED
      BY <2>2, <2>5, <3>4, SMT DEF CallsOf
  <2>6. CASE r.attr = "control" /\ r.who = "ioctl"
    <3>1. /\ ~Runs(r, "READ") /\ Runs(r, "SHUTDOWN")
          /\ Runs(r, "WRITE") => Runs(r, "INIT")
      BY <1>2, <2>3, <2>6, FallThroughValue, SMT DEF Runs
    <3>2. \/ Called(r) = <<>> \o <<"WRITE">> \o <<"INIT">> \o <<"SHUTDOWN">>
          \/ Called(r) = <<>> \o <<>> \o <<"INIT">> \o <<"SHUTDOWN">>
          \/ Called(r) = <<>> \o <<>> \o <<>> \o <<"SHUTDOWN">>
      BY <2>1, <3>1, Zenon
    <3>3. Called(r) \in {<<"WRITE", "INIT", "SHUTDOWN">>, <<"INIT", "SHUTDOWN">>,
                         <<"SHUTDOWN">>}
      BY <3>2, SMT
    <3> QED
      BY <2>2, <2>6, <3>3, SMT DEF CallsOf
  <2>7. CASE r.attr = "control" /\ r.who # "ioctl"
    <3>1. \A m : Runs(r, m) => m = r.method
      BY <1>2, <2>7, FallThroughValue, SMT DEF Runs
    <3>2. "READ" # "WRITE" /\ "READ" # "INIT" /\ "READ" # "SHUTDOWN"
          /\ "WRITE" # "INIT" /\ "WRITE" # "SHUTDOWN" /\ "INIT" # "SHUTDOWN"
      BY SMT
    <3>3. ~Runs(r, "READ")
      BY <2>3, <2>7, SMT DEF Runs
    <3>4. \/ Called(r) = <<>> \o <<"WRITE">> \o <<>> \o <<>>
          \/ Called(r) = <<>> \o <<>> \o <<"INIT">> \o <<>>
          \/ Called(r) = <<>> \o <<>> \o <<>> \o <<"SHUTDOWN">>
          \/ Called(r) = <<>> \o <<>> \o <<>> \o <<>>
      BY <2>1, <3>1, <3>2, <3>3, Zenon
    <3>5. Called(r) \in {<<"WRITE">>, <<"INIT">>, <<"SHUTDOWN">>, <<>>}
      BY <3>4, SMT
    <3> QED
      BY <2>2, <2>7, <3>5, SMT DEF CallsOf
  <2> QED
    BY <2>2, <2>4, <2>5, <2>6, <2>7, Zenon
<1> QED
  BY <1>1, <1>2

----------------------------------------------------------------------------
(* What bcGet has still to read when the size word, n words in all, and    *)
(* k - 1 of them have been read.                                           *)
Remaining(n, k) == [j \in 1 .. n + 2 - k |->
                      IF j = n + 2 - k THEN NoOp ELSE ReadOp(BcBase + k + j - 2)]

(* bcGet is running. *)
BcNow == script # <<>> /\ IsBcGet(Head(calls))

(* Where bcGet is: it has failed, it reads the size, or it reads words. *)
BcScript ==
    \/ script = <<NoOp>> /\ config.ret # "None"
    \/ /\ config.ret = "None" /\ got = <<>>
       /\ script = <<ReadOp(BcBase + 2), NoOp>>
    \/ /\ config.ret = "None" /\ got # <<>>
       /\ SizeWords(got[1]) <= BcMax
       /\ Len(got) <= SizeWords(got[1]) + 1
       /\ script = Remaining(SizeWords(got[1]), Len(got))

Results == Store!Errors \cup {"None"}

(* The structure of a request in progress: the methods it may still have   *)
(* to run, and what may be left of the one that is running.                *)
CallsInv ==
    /\ req \in Requests \cup {ReadBoardConfig, None}
    /\ req = None => calls = <<>>
    /\ req # None => calls \in CallsOf(req)
    /\ script # <<>> => calls # <<>>
    /\ script = <<>> => got = <<>>

ScriptInv ==
    /\ script # <<>> /\ ~BcNow =>
         /\ script \in Rests(Head(calls), req)
         /\ Head(calls) = "bcInit" /\ bc_initialised => script = <<NoOp>>
    /\ BcNow => BcScript
    /\ op # NoOp => script # <<>> /\ op = Head(script)

BoundsInv ==
    /\ got \in Seq(Words)
    /\ Len(script) <= BcMax + 1
    /\ Len(got) + Len(script) <= BcMax + 2

FlagsInv ==
    /\ bc_initialised \in BOOLEAN /\ lost \in BOOLEAN
    /\ config = [ret |-> config.ret, words |-> config.words,
                 clean |-> config.clean]
    /\ config.ret \in Results /\ config.clean \in BOOLEAN
    /\ enabler \in {"none", "ioctl", "internal"}

EntityInv == CallsInv /\ ScriptInv /\ BoundsInv /\ FlagsInv

(* The end of bcGet's script is a script of reads. *)
LEMMA RemainingSeq ==
    ASSUME NEW n \in Nat, n <= BcMax, NEW k \in 1 .. n + 1
    PROVE  /\ Remaining(n, k) \in Seq(ReadOps \cup {NoOp})
           /\ Len(Remaining(n, k)) = n + 2 - k
           /\ \A j \in 1 .. n + 2 - k :
                j # n + 2 - k => ReadOp(BcBase + k + j - 2) \in ReadOps
<1>0. BcBase \in Nat /\ BcMax \in Nat
  BY EEAssumption
<1>1. ASSUME NEW j \in 1 .. n + 2 - k, j # n + 2 - k
      PROVE  ReadOp(BcBase + k + j - 2) \in ReadOps
  <2>1. PICK i \in 1 .. BcMax : i = k + j - 1
    BY <1>0, <1>1, SMT
  <2>2. BcBase + k + j - 2 = BcBase + i - 1
    BY <1>0, <2>1, SMT
  <2>3. BcBase + i - 1 \in Addrs
    BY BaseFacts
  <2> QED
    BY <2>2, <2>3, SMT DEF ReadOps
<1>2. Remaining(n, k) \in Seq(ReadOps \cup {NoOp}) /\ Len(Remaining(n, k)) = n + 2 - k
  BY <1>1, SMT DEF Remaining
<1> QED
  BY <1>1, <1>2

(* It is taken off one word at a time. *)
LEMMA RemainingStep ==
    ASSUME NEW n \in Nat, n <= BcMax, NEW k \in 1 .. n + 1
    PROVE  /\ Remaining(n, k) # <<>>
           /\ k <= n => /\ Head(Remaining(n, k)) = ReadOp(BcBase + k - 1)
                        /\ Head(Remaining(n, k)) \in ReadOps
                        /\ Tail(Remaining(n, k)) = Remaining(n, k + 1)
           /\ k = n + 1 => Remaining(n, k) = <<NoOp>>
<1>0. BcBase \in Nat /\ BcMax \in Nat
  BY EEAssumption
<1>1. \A j \in 1 .. n + 2 - k : j # n + 2 - k => ReadOp(BcBase + k + j - 2) \in ReadOps
  BY RemainingSeq, Zenon
<1>2. Remaining(n, k) \in Seq(ReadOps \cup {NoOp}) /\ Len(Remaining(n, k)) = n + 2 - k
  BY RemainingSeq, Zenon
<1>3. Remaining(n, k) # <<>>
  BY <1>2, SMT
<1>4. ASSUME k <= n
      PROVE  /\ Head(Remaining(n, k)) = ReadOp(BcBase + k - 1)
             /\ Head(Remaining(n, k)) \in ReadOps
             /\ Tail(Remaining(n, k)) = Remaining(n, k + 1)
  <2>1. Head(Remaining(n, k)) = Remaining(n, k)[1]
    BY <1>2, <1>3, SMT
  <2>2. 1 \in 1 .. n + 2 - k /\ 1 # n + 2 - k /\ BcBase + k + 1 - 2 = BcBase + k - 1
    BY <1>0, <1>4, SMT
  <2>3. Head(Remaining(n, k)) = ReadOp(BcBase + k - 1)
    BY <2>1, <2>2, SMT DEF Remaining
  <2>4. Head(Remaining(n, k)) \in ReadOps
    BY <1>1, <2>2, <2>3, SMT
  <2>5. Tail(Remaining(n, k)) = Remaining(n, k + 1)
    <3>1. /\ Tail(Remaining(n, k)) \in Seq(ReadOps \cup {NoOp})
          /\ Len(Tail(Remaining(n, k))) = n + 1 - k
          /\ \A i \in 1 .. n + 1 - k : Tail(Remaining(n, k))[i] = Remaining(n, k)[i + 1]
      BY <1>2, <1>3, HeadTailProperties, SMT
    <3>2. /\ k + 1 \in 1 .. n + 1 /\ n + 2 - (k + 1) = n + 1 - k
      BY <1>4, SMT
    <3>3. ASSUME NEW i \in 1 .. n + 1 - k
          PROVE  Remaining(n, k)[i + 1] = Remaining(n, k + 1)[i]
      <4>1. /\ i + 1 \in 1 .. n + 2 - k /\ i \in 1 .. n + 2 - (k + 1)
            /\ i + 1 = n + 2 - k <=> i = n + 2 - (k + 1)
            /\ BcBase + k + (i + 1) - 2 = BcBase + (k + 1) + i - 2
        BY <1>0, <3>3, SMT
      <4> QED
        BY <4>1, Zenon DEF Remaining
    <3>4. /\ Remaining(n, k + 1) \in Seq(ReadOps \cup {NoOp})
          /\ Len(Remaining(n, k + 1)) = n + 1 - k
      BY <3>2, RemainingSeq, Zenon
    <3> QED
      BY <3>1, <3>3, <3>4, SeqEqual, Zenon
  <2> QED
    BY <2>3, <2>4, <2>5
<1>5. k = n + 1 => Remaining(n, k) = <<NoOp>>
  BY SMT DEF Remaining
<1> QED
  BY <1>3, <1>4, <1>5

(* bcGet's reads, after the size. *)
LEMMA BcReadsValue ==
    ASSUME NEW n \in Nat
    PROVE  Append(BcReads(n), NoOp) = Remaining(n, 1)
BY EEAssumption, SMT DEF BcReads, Remaining

(* The methods of a request: what the head of calls may be, and that the   *)
(* rest is again one of its sequences.                                     *)
LEMMA CallsStep ==
    ASSUME NEW r \in Request \cup {ReadBoardConfig}, NEW c \in CallsOf(r), c # <<>>
    PROVE  /\ Tail(c) \in CallsOf(r)
           /\ r = ReadBoardConfig => Head(c) \in {"bcInit", "bcGet"}
           /\ r # ReadBoardConfig =>
                /\ r \in Request
                /\ Head(c) \in {"READ", "WRITE", "INIT", "SHUTDOWN"}
                /\ r.attr = "bc" => Head(c) = "READ"
                /\ r.attr = "access" => Head(c) \in {"READ", "WRITE"}
                /\ r.attr = "control" => Head(c) \in {"WRITE", "INIT", "SHUTDOWN"}
<1>1. /\ \A x : Head(<<x>>) = x /\ Tail(<<x>>) = <<>>
      /\ \A x, y : Head(<<x, y>>) = x /\ Tail(<<x, y>>) = <<y>>
      /\ \A x, y, z : Head(<<x, y, z>>) = x /\ Tail(<<x, y, z>>) = <<y, z>>
  BY SMT
<1>2. CASE r = ReadBoardConfig
  <2>1. c \in {<<"bcInit", "bcGet">>, <<"bcGet">>}
    BY <1>2, Zenon DEF CallsOf
  <2>2. Tail(c) \in CallsOf(r)
    BY <1>1, <1>2, <2>1, Zenon DEF CallsOf
  <2>3. Head(c) \in {"bcInit", "bcGet"}
    BY <2>1, SMT
  <2> QED
    BY <1>2, <2>2, <2>3
<1>3. CASE r \in Request /\ r # ReadBoardConfig
  <2>1. r.attr \in {"access", "control", "bc"}
    BY <1>3, BootIsNoRequest
  <2>2. "bc" # "access" /\ "bc" # "control" /\ "access" # "control"
    BY SMT
  <2>3. CASE r.attr = "bc"
    BY <1>1, <1>3, <2>2, <2>3, Zenon DEF CallsOf
  <2>4. CASE r.attr = "access"
    <3>1. c \in {<<"READ", "WRITE">>, <<"READ">>, <<"WRITE">>}
      BY <1>3, <2>2, <2>4, Zenon DEF CallsOf
    <3>2. Tail(c) \in {<<"WRITE">>, <<>>}
      BY <1>1, <3>1, Zenon
    <3>3. Head(c) \in {"READ", "WRITE"}
      BY <3>1, SMT
    <3> QED
      BY <1>3, <2>2, <2>4, <3>2, <3>3, Zenon DEF CallsOf
  <2>5. CASE r.attr = "control"
    <3>1. CASE r.who = "ioctl"
      <4>1. c \in {<<"WRITE", "INIT", "SHUTDOWN">>, <<"INIT", "SHUTDOWN">>,
                   <<"SHUTDOWN">>}
        BY <1>3, <2>2, <2>5, <3>1, Zenon DEF CallsOf
      <4>2. Tail(c) \in {<<"INIT", "SHUTDOWN">>, <<"SHUTDOWN">>, <<>>}
        <5>1. /\ Tail(<<"WRITE", "INIT", "SHUTDOWN">>) = <<"INIT", "SHUTDOWN">>
              /\ Tail(<<"INIT", "SHUTDOWN">>) = <<"SHUTDOWN">>
              /\ Tail(<<"SHUTDOWN">>) = <<>>
          BY <1>1
        <5> QED
          BY <4>1, <5>1, Zenon
      <4>3. Head(c) \in {"WRITE", "INIT", "SHUTDOWN"}
        BY <4>1, SMT
      <4> QED
        BY <1>3, <2>2, <2>5, <3>1, <4>2, <4>3, Zenon DEF CallsOf
    <3>2. CASE r.who # "ioctl"
      <4>1. c \in {<<"WRITE">>, <<"INIT">>, <<"SHUTDOWN">>}
        BY <1>3, <2>2, <2>5, <3>2, Zenon DEF CallsOf
      <4>2. Tail(c) = <<>>
        BY <1>1, <4>1, Zenon
      <4>3. Head(c) \in {"WRITE", "INIT", "SHUTDOWN"}
        BY <4>1, SMT
      <4> QED
        BY <1>3, <2>2, <2>5, <3>2, <4>2, <4>3, Zenon DEF CallsOf
    <3> QED
      BY <3>1, <3>2
  <2> QED
    BY <2>1, <2>3, <2>4, <2>5
<1> QED
  BY <1>2, <1>3

(* Append on the tuples that scripts are. *)
LEMMA AppendTuples ==
    ASSUME NEW e, NEW x, NEW y, NEW z
    PROVE  /\ Append(<<>>, e) = <<e>>
           /\ Append(<<x>>, e) = <<x, e>>
           /\ Append(<<x, y>>, e) = <<x, y, e>>
           /\ Append(<<x, y, z>>, e) = <<x, y, z, e>>
<1> DEFINE S == {x, y, z, e}
<1>1. Append(<<>>, e) = <<e>>
  BY SMT
<1>2. Append(<<x>>, e) = <<x, e>>
  <2>1. <<x>> \in Seq(S) /\ <<x, e>> \in Seq(S) /\ e \in S
    OBVIOUS
  <2> HIDE DEF S
  <2>2. Append(<<x>>, e) \in Seq(S) /\ Len(Append(<<x>>, e)) = 2
    BY <2>1, SMT
  <2>3. /\ \A i \in 1 .. 2 : Append(<<x>>, e)[i] = <<x, e>>[i]
        /\ Len(<<x, e>>) = 2
    BY <2>1, SMT
  <2> QED
    BY <2>1, <2>2, <2>3, SeqEqual, Zenon
<1>3. Append(<<x, y>>, e) = <<x, y, e>>
  <2>1. <<x, y>> \in Seq(S) /\ <<x, y, e>> \in Seq(S) /\ e \in S
    OBVIOUS
  <2> HIDE DEF S
  <2>2. Append(<<x, y>>, e) \in Seq(S) /\ Len(Append(<<x, y>>, e)) = 3
    BY <2>1, SMT
  <2>3. /\ \A i \in 1 .. 3 : Append(<<x, y>>, e)[i] = <<x, y, e>>[i]
        /\ Len(<<x, y, e>>) = 3
    BY <2>1, SMT
  <2> QED
    BY <2>1, <2>2, <2>3, SeqEqual, Zenon
<1>4. Append(<<x, y, z>>, e) = <<x, y, z, e>>
  <2>1. <<x, y, z>> \in Seq(S) /\ <<x, y, z, e>> \in Seq(S) /\ e \in S
    OBVIOUS
  <2> HIDE DEF S
  <2>2. Append(<<x, y, z>>, e) \in Seq(S) /\ Len(Append(<<x, y, z>>, e)) = 4
    BY <2>1, SMT
  <2>3. /\ \A i \in 1 .. 4 : Append(<<x, y, z>>, e)[i] = <<x, y, z, e>>[i]
        /\ Len(<<x, y, z, e>>) = 4
    BY <2>1, SMT
  <2> QED
    BY <2>1, <2>2, <2>3, SeqEqual, Zenon
<1> QED
  BY <1>1, <1>2, <1>3, <1>4

(* The script a method begins with. *)
LEMMA ScriptValue ==
    ASSUME EntityInv, req # None, calls # <<>>
    PROVE  LET m == Head(calls)
               s == Append(Script(m), NoOp)
           IN  /\ IsBcGet(m) => s = <<ReadOp(BcBase + 2), NoOp>>
               /\ ~IsBcGet(m) =>
                    /\ m = "bcInit" \/ req \in Request
                    /\ s \in Rests(m, req)
                    /\ m = "bcInit" /\ bc_initialised => s = <<NoOp>>
<1> DEFINE m == Head(calls)
<1>1. req \in Request \cup {ReadBoardConfig} /\ calls \in CallsOf(req)
  BY EEAssumption DEF EntityInv, CallsInv
<1>2. /\ Append(<<>>, NoOp) = <<NoOp>>
      /\ \A x : Append(<<x>>, NoOp) = <<x, NoOp>>
      /\ \A x, y : Append(<<x, y>>, NoOp) = <<x, y, NoOp>>
      /\ \A x, y, z : Append(<<x, y, z>>, NoOp) = <<x, y, z, NoOp>>
  BY AppendTuples, Zenon
<1>3. CASE req = ReadBoardConfig
  <2>1. m \in {"bcInit", "bcGet"}
    BY <1>1, <1>3, CallsStep
  <2>2. CASE m = "bcInit"
    <3>1. Script(m) = BcInit /\ ~IsBcGet(m)
      BY <1>3, <2>2, Zenon DEF Script, IsBcGet
    <3> QED
      BY <1>2, <2>2, <3>1, Zenon DEF BcInit, Rests, Init_, Open_
  <2>3. CASE m = "bcGet"
    <3>1. Script(m) = BcSize /\ IsBcGet(m)
      BY <1>3, <2>3, Zenon DEF Script, IsBcGet
    <3> QED
      BY <1>2, <2>3, <3>1, Zenon DEF BcSize
  <2> QED
    BY <2>1, <2>2, <2>3
<1>4. CASE req # ReadBoardConfig
  <2>1. /\ req \in Request
        /\ m \in {"READ", "WRITE", "INIT", "SHUTDOWN"}
        /\ req.attr = "bc" => m = "READ"
        /\ req.attr = "access" => m \in {"READ", "WRITE"}
        /\ req.attr = "control" => m \in {"WRITE", "INIT", "SHUTDOWN"}
        /\ req.attr \in {"access", "control", "bc"}
    BY <1>1, <1>4, CallsStep, BootIsNoRequest
  <2>2. "bc" # "access" /\ "bc" # "control" /\ "access" # "control"
    BY SMT
  <2>3. CASE req.attr = "bc"
    <3>1. Script(m) = BcSize /\ IsBcGet(m)
      BY <1>4, <2>1, <2>3, Zenon DEF Script, IsBcGet
    <3> QED
      BY <1>2, <3>1, Zenon DEF BcSize
  <2>4. CASE m = "READ" /\ req.attr # "bc"
    <3>1. Script(m) = AccessRead
      BY <2>4, Zenon DEF Script
    <3>2. Append(Script(m), NoOp) = <<ReadOp(req.addr), NoOp>>
      BY <1>2, <3>1, Zenon DEF AccessRead
    <3>3. ~IsBcGet(m)
      BY <2>1, <2>4, Zenon DEF IsBcGet
    <3> QED
      BY <2>1, <2>4, <3>2, <3>3, Zenon DEF Rests
  <2>5. CASE m = "WRITE" /\ req.attr = "access"
    <3>1. Script(m) = AccessWrite
      BY <2>5, Zenon DEF Script
    <3>2. Append(Script(m), NoOp) = <<WriteOp(req.addr, req.data), NoOp>>
      BY <1>2, <3>1, Zenon DEF AccessWrite
    <3>3. ~IsBcGet(m)
      BY <2>1, <2>2, <2>5, Zenon DEF IsBcGet
    <3> QED
      BY <2>1, <2>5, <3>2, <3>3, Zenon DEF Rests
  <2>6. CASE m = "WRITE" /\ req.attr = "control"
    <3>1. Script(m) = ControlWrite
      BY <2>2, <2>6, Zenon DEF Script
    <3>2. Append(Script(m), NoOp) \in
            {<<Enable_, NoOp>>, <<Disable_, NoOp>>, <<NoOp>>}
      BY <1>2, <3>1, Zenon DEF ControlWrite, Enable_, Disable_
    <3>3. ~IsBcGet(m)
      BY <2>1, <2>2, <2>6, Zenon DEF IsBcGet
    <3> QED
      BY <2>1, <2>2, <2>6, <3>2, <3>3, Zenon DEF Rests
  <2>7. CASE m = "INIT"
    <3>1. Script(m) = ControlInit
      BY <2>7, Zenon DEF Script
    <3>2. Append(Script(m), NoOp) = <<Init_, Open_, Disable_, NoOp>>
      BY <1>2, <3>1, Zenon DEF ControlInit, Init_, Open_, Disable_
    <3>3. ~IsBcGet(m)
      BY <2>1, <2>7, Zenon DEF IsBcGet
    <3> QED
      BY <2>1, <2>7, <3>2, <3>3, Zenon DEF Rests
  <2>8. CASE m = "SHUTDOWN"
    <3>1. Script(m) = ControlShutdown
      BY <2>8, Zenon DEF Script
    <3>2. Append(Script(m), NoOp) = <<Shut_, NoOp>>
      BY <1>2, <3>1, Zenon DEF ControlShutdown, Shut_
    <3>3. ~IsBcGet(m)
      BY <2>1, <2>8, Zenon DEF IsBcGet
    <3> QED
      BY <2>1, <2>8, <3>2, <3>3, Zenon DEF Rests
  <2> QED
    BY <2>1, <2>2, <2>3, <2>4, <2>5, <2>6, <2>7, <2>8, Zenon
<1> QED
  BY <1>3, <1>4

(* The request behind a method that is called or running. *)
LEMMA RequestFacts ==
    ASSUME EntityInv, calls # <<>>
    PROVE  /\ req # None /\ req \in Request \cup {ReadBoardConfig}
           /\ calls \in CallsOf(req)
           /\ Current = Head(calls)
           /\ req = ReadBoardConfig => Head(calls) \in {"bcInit", "bcGet"}
           /\ req # ReadBoardConfig =>
                /\ req \in Request
                /\ Head(calls) \in {"READ", "WRITE", "INIT", "SHUTDOWN"}
                /\ req.attr = "bc" => Head(calls) = "READ"
                /\ req.attr = "access" => Head(calls) \in {"READ", "WRITE"}
                /\ req.attr = "control" =>
                     Head(calls) \in {"WRITE", "INIT", "SHUTDOWN"}
           /\ ~IsBcGet(Head(calls)) => Head(calls) = "bcInit" \/ req \in Request
<1>1. /\ req # None /\ req \in Request \cup {ReadBoardConfig}
      /\ calls \in CallsOf(req)
      /\ Current = Head(calls)
  BY EEAssumption DEF EntityInv, CallsInv, Current
<1>2. /\ req = ReadBoardConfig => Head(calls) \in {"bcInit", "bcGet"}
      /\ req # ReadBoardConfig =>
                /\ req \in Request
                /\ Head(calls) \in {"READ", "WRITE", "INIT", "SHUTDOWN"}
                /\ req.attr = "bc" => Head(calls) = "READ"
                /\ req.attr = "access" => Head(calls) \in {"READ", "WRITE"}
                /\ req.attr = "control" =>
                     Head(calls) \in {"WRITE", "INIT", "SHUTDOWN"}
  BY <1>1, CallsStep, Zenon
<1>3. ~IsBcGet(Head(calls)) => Head(calls) = "bcInit" \/ req \in Request
  BY <1>2, Zenon DEF IsBcGet
<1> QED
  BY <1>1, <1>2, <1>3

(* A word names a number of words. *)
LEMMA SizeType ==
    ASSUME NEW w \in Words
    PROVE  SizeWords(w) \in Nat
<1>1. w \in Nat
  BY EEAssumption
<1> QED
  BY <1>1, SMT DEF SizeWords

(* The number of words read, and of words to read. *)
LEMMA GotFacts ==
    ASSUME BoundsInv, got # <<>>
    PROVE  /\ Len(got) \in Nat /\ Len(got) >= 1
           /\ got[1] \in Words /\ SizeWords(got[1]) \in Nat
<1>1. got \in Seq(Words)
  BY DEF BoundsInv
<1>2. Len(got) \in Nat \ {0}
  <2>1. \A s \in Seq(Words) : s # <<>> => Len(s) \in Nat \ {0}
    BY EmptySeq, Zenon
  <2> QED
    BY <1>1, <2>1, Zenon
<1>3. Len(got) >= 1 /\ got[1] \in Words
  <2>1. Len(got) >= 1 /\ 1 \in 1 .. Len(got)
    BY <1>2, SMT
  <2> QED
    BY <1>1, <2>1, ElementOfSeq, Zenon
<1>4. SizeWords(got[1]) \in Nat
  BY <1>3, SizeType, Zenon
<1> QED
  BY <1>2, <1>3, <1>4

(* What remains of the running method's script ends in the only NoOp. *)
AllOps == ReadOps \cup WriteOps \cup DriverOps
LEMMA ScriptFacts ==
    ASSUME EntityInv, script # <<>>
    PROVE  /\ calls # <<>>
           /\ Len(script) \in Nat /\ Len(script) >= 1
           /\ Head(script) = NoOp <=> script = <<NoOp>>
           /\ script # <<NoOp>> => /\ Head(script) \in AllOps
                                   /\ Len(Tail(script)) = Len(script) - 1
<1>1. calls # <<>>
  BY DEF EntityInv, CallsInv
<1>2. /\ <<NoOp>> # <<>> /\ Len(<<NoOp>>) = 1 /\ Head(<<NoOp>>) = NoOp
  BY SMT
<1>3. CASE ~BcNow
  <2>1. script \in Rests(Head(calls), req)
    BY <1>3 DEF EntityInv, ScriptInv
  <2>2. Head(calls) = "bcInit" \/ req \in Request
    BY <1>1, <1>3, RequestFacts, Zenon DEF BcNow
  <2>3. /\ Len(script) \in 1 .. 4
        /\ Head(script) = NoOp <=> script = <<NoOp>>
        /\ script # <<NoOp>> => /\ Head(script) \in AllOps
                                /\ Len(Tail(script)) = Len(script) - 1
    BY <2>1, <2>2, RestsStep, Zenon DEF AllOps
  <2> QED
    BY <1>1, <2>3, SMT
<1>4. CASE BcNow
  <2>1. BcScript
    BY <1>4 DEF EntityInv, ScriptInv
  <2>2. CASE script = <<NoOp>>
    BY <1>1, <1>2, <2>2, SMT
  <2>3. CASE script = <<ReadOp(BcBase + 2), NoOp>>
    <3>1. ReadOp(BcBase + 2) \in ReadOps /\ ReadOp(BcBase + 2) # NoOp
      BY BaseFacts, OpTypes DEF ReadOps
    <3>2. /\ Len(script) = 2 /\ Head(script) = ReadOp(BcBase + 2)
          /\ Len(Tail(script)) = 1 /\ script # <<NoOp>>
      BY <2>3, SMT
    <3> QED
      BY <1>1, <3>1, <3>2, SMT DEF AllOps
  <2>4. CASE /\ config.ret = "None" /\ got # <<>>
             /\ SizeWords(got[1]) <= BcMax
             /\ Len(got) <= SizeWords(got[1]) + 1
             /\ script = Remaining(SizeWords(got[1]), Len(got))
    <3>1. PICK n \in Nat, k \in Nat :
            n = SizeWords(got[1]) /\ k = Len(got) /\ k \in 1 .. n + 1
      BY <2>4, GotFacts, SMT DEF EntityInv
    <3>5. n <= BcMax /\ script = Remaining(n, k)
      BY <2>4, <3>1
    <3>6. CASE k = n + 1
      <4>1. script = <<NoOp>>
        BY <3>1, <3>5, <3>6, RemainingStep, Zenon
      <4> QED
        BY <1>1, <1>2, <4>1, SMT
    <3>7. CASE k # n + 1
      <4>1. k <= n /\ k + 1 \in 1 .. n + 1
        BY <3>1, <3>7, SMT
      <4>2. /\ Len(script) = n + 2 - k
            /\ Head(script) \in ReadOps /\ Tail(script) = Remaining(n, k + 1)
            /\ Len(Tail(script)) = n + 2 - (k + 1)
        BY <3>1, <3>5, <4>1, RemainingStep, RemainingSeq, Zenon
      <4>3. Head(script) # NoOp
        BY <4>2, OpTypes
      <4> QED
        BY <1>1, <1>2, <4>1, <4>2, <4>3, SMT DEF AllOps
    <3> QED
      BY <3>6, <3>7
  <2> QED
    BY <2>1, <2>2, <2>3, <2>4 DEF BcScript
<1> QED
  BY <1>3, <1>4

(* The operation in progress, and the method it belongs to. *)
LEMMA OpFacts ==
    ASSUME EntityInv, op # NoOp
    PROVE  /\ script # <<>> /\ script # <<NoOp>> /\ op = Head(script)
           /\ op \in AllOps
           /\ BcNow => op.cmd = "READ"
           /\ ~BcNow =>
               /\ op.cmd \in {"ENABLE", "DISABLE", "WRITE", "READ"} => req \in Request
               /\ op.cmd = "ENABLE" => req.attr # "access" /\ Head(calls) = "WRITE"
               /\ op.cmd = "DISABLE" => req.attr # "access"
               /\ op.cmd = "WRITE" => req.attr = "access"
               /\ op.cmd \in {"Init", "Open"} =>
                    \/ Head(calls) = "INIT"
                    \/ Head(calls) = "bcInit" /\ ~bc_initialised
               /\ op.cmd = "Shutdown" => Head(calls) = "SHUTDOWN"
<1>1. script # <<>> /\ script # <<NoOp>> /\ op = Head(script) /\ op \in AllOps
  BY ScriptFacts DEF EntityInv, ScriptInv
<1>2. ASSUME BcNow PROVE op.cmd = "READ"
  <2>1. BcScript
    BY <1>2 DEF EntityInv, ScriptInv
  <2>2. CASE script = <<ReadOp(BcBase + 2), NoOp>>
    <3>1. op = ReadOp(BcBase + 2)
      BY <1>1, <2>2, SMT
    <3> QED
      BY <3>1, OpFields
  <2>3. CASE /\ config.ret = "None" /\ got # <<>>
             /\ SizeWords(got[1]) <= BcMax
             /\ Len(got) <= SizeWords(got[1]) + 1
             /\ script = Remaining(SizeWords(got[1]), Len(got))
    <3>1. PICK n \in Nat, k \in Nat :
            /\ n = SizeWords(got[1]) /\ k = Len(got) /\ n <= BcMax
            /\ k \in 1 .. n + 1
      BY <2>3, GotFacts, SMT DEF EntityInv
    <3>2. k # n + 1
      BY <1>1, <2>3, <3>1, RemainingStep, Zenon
    <3>3. k <= n
      BY <3>1, <3>2, SMT
    <3>4. op = Head(Remaining(n, k))
      BY <1>1, <2>3, <3>1
    <3>5. op \in ReadOps
      BY <3>1, <3>3, <3>4, RemainingStep, Zenon
    <3>6. PICK a \in Addrs : op = ReadOp(a)
      BY <3>5, Zenon DEF ReadOps
    <3> QED
      BY <3>6, OpFields
  <2> QED
    BY <1>1, <2>1, <2>2, <2>3 DEF BcScript
<1>3. /\ Init_.cmd = "Init" /\ Open_.cmd = "Open" /\ Shut_.cmd = "Shutdown"
      /\ Enable_.cmd = "ENABLE" /\ Disable_.cmd = "DISABLE"
      /\ ReadOp(req.addr).cmd = "READ" /\ WriteOp(req.addr, req.data).cmd = "WRITE"
  BY OpFields DEF Init_, Open_, Shut_, Enable_, Disable_
<1>4. ASSUME ~BcNow
      PROVE  /\ op.cmd \in {"ENABLE", "DISABLE", "WRITE", "READ"} => req \in Request
             /\ op.cmd = "ENABLE" => req.attr # "access" /\ Head(calls) = "WRITE"
             /\ op.cmd = "DISABLE" => req.attr # "access"
             /\ op.cmd = "WRITE" => req.attr = "access"
             /\ op.cmd \in {"Init", "Open"} =>
                  \/ Head(calls) = "INIT"
                  \/ Head(calls) = "bcInit" /\ ~bc_initialised
             /\ op.cmd = "Shutdown" => Head(calls) = "SHUTDOWN"
  <2>1. /\ script \in Rests(Head(calls), req)
        /\ Head(calls) = "bcInit" /\ bc_initialised => script = <<NoOp>>
    BY <1>1, <1>4 DEF EntityInv, ScriptInv
  <2>2. calls # <<>> /\ ~IsBcGet(Head(calls))
    BY <1>1, <1>4, ScriptFacts DEF BcNow
  <2>3. \A x, y, z : /\ Head(<<x, NoOp>>) = x /\ Head(<<x, y, NoOp>>) = x
                     /\ Head(<<x, y, z, NoOp>>) = x
    BY SMT
  <2>4. CASE Head(calls) = "bcInit"
    <3>1. op \in {Init_, Open_}
      BY <1>1, <2>1, <2>3, <2>4, SMT DEF Rests
    <3> QED
      BY <1>1, <1>3, <2>1, <2>4, <3>1, SMT
  <2>5. CASE Head(calls) = "READ"
    <3>1. op = ReadOp(req.addr) /\ req \in Request
      BY <1>1, <2>1, <2>2, <2>3, <2>5, RequestFacts, SMT DEF Rests
    <3> QED
      BY <1>3, <2>5, <3>1, SMT
  <2>6. CASE Head(calls) = "INIT"
    <3>1. op \in {Init_, Open_, Disable_} /\ req \in Request /\ req.attr # "access"
      BY <1>1, <2>1, <2>2, <2>3, <2>6, RequestFacts, SMT DEF Rests
    <3> QED
      BY <1>3, <2>6, <3>1, SMT
  <2>7. CASE Head(calls) = "SHUTDOWN"
    <3>1. op = Shut_ /\ req \in Request
      BY <1>1, <2>1, <2>2, <2>3, <2>7, RequestFacts, SMT DEF Rests
    <3> QED
      BY <1>3, <2>7, <3>1, SMT
  <2>8. CASE Head(calls) = "WRITE"
    <3>1. /\ req \in Request
          /\ req.attr = "access" => op = WriteOp(req.addr, req.data)
          /\ req.attr # "access" => op \in {Enable_, Disable_}
      BY <1>1, <2>1, <2>2, <2>3, <2>8, RequestFacts, SMT DEF Rests
    <3> QED
      BY <1>3, <2>8, <3>1, SMT
  <2> QED
    BY <2>2, <2>4, <2>5, <2>6, <2>7, <2>8, RequestFacts, Zenon DEF IsBcGet
<1> QED
  BY <1>1, <1>2, <1>4

----------------------------------------------------------------------------
(* Init => EntityInv: bspReadBoardConfig is the first thing that runs. *)
LEMMA EntityInitial == Init => EntityInv
<1> SUFFICES ASSUME Init PROVE EntityInv
  OBVIOUS
<1>1. /\ req = ReadBoardConfig /\ calls = <<"bcInit", "bcGet">> /\ script = <<>>
      /\ got = <<>> /\ bc_initialised = FALSE /\ lost = FALSE /\ enabler = "none"
      /\ config = NoConfig /\ op = NoOp
  BY DEF Init, Store!Init
<1>2. ReadBoardConfig # None /\ calls \in CallsOf(req)
  BY <1>1, EEAssumption, Zenon DEF CallsOf
<1>3. CallsInv
  BY <1>1, <1>2, Zenon DEF CallsInv
<1>4. ScriptInv
  BY <1>1, Zenon DEF ScriptInv, BcNow
<1>5. BoundsInv
  BY <1>1, EEAssumption, SMT DEF BoundsInv
<1>6. FlagsInv
  <2>1. /\ NoConfig.ret = "None" /\ NoConfig.clean = FALSE
        /\ NoConfig = [ret |-> NoConfig.ret, words |-> NoConfig.words,
                       clean |-> NoConfig.clean]
    BY SMT DEF NoConfig
  <2> QED
    BY <1>1, <2>1, Zenon DEF FlagsInv, Results
<1> QED
  BY <1>3, <1>4, <1>5, <1>6 DEF EntityInv

(* Serve keeps EntityInv. *)
LEMMA EntityServe ==
    ASSUME EntityInv, NEW r \in Requests, Serve(r)
    PROVE  EntityInv'
<1>1. /\ req = None /\ req' = r /\ calls' = Called(r) /\ config' = NoConfig
      /\ UNCHANGED <<op, script, got, bc_initialised, enabler, lost>>
  BY DEF Serve, store
<1>2. r \in Request \cup {ReadBoardConfig} /\ r # None
  BY EEAssumption
<1>3. script = <<>> /\ op = NoOp /\ got = <<>>
  BY <1>1 DEF EntityInv, CallsInv, ScriptInv
<1>4. CallsInv'
  BY <1>1, <1>2, <1>3, CalledValue DEF CallsInv
<1>5. ScriptInv'
  BY <1>1, <1>3 DEF ScriptInv, BcNow
<1>6. BoundsInv'
  BY <1>1 DEF EntityInv, BoundsInv
<1>7. FlagsInv'
  <2>1. /\ NoConfig.ret = "None" /\ NoConfig.clean = FALSE
        /\ NoConfig = [ret |-> NoConfig.ret, words |-> NoConfig.words,
                       clean |-> NoConfig.clean]
    BY SMT DEF NoConfig
  <2> QED
    BY <1>1, <2>1, Zenon DEF EntityInv, FlagsInv, Results
<1> QED
  BY <1>4, <1>5, <1>6, <1>7 DEF EntityInv

(* Done keeps EntityInv. *)
LEMMA EntityDone ==
    ASSUME EntityInv, Done
    PROVE  EntityInv'
<1>1. /\ calls = <<>> /\ req' = None
      /\ UNCHANGED <<op, calls, script, got, bc_initialised, config, enabler, lost>>
  BY DEF Done, store
<1>2. script = <<>> /\ op = NoOp /\ got = <<>>
  BY <1>1 DEF EntityInv, CallsInv, ScriptInv
<1>3. CallsInv' /\ ScriptInv'
  BY <1>1, <1>2 DEF CallsInv, ScriptInv, BcNow
<1>4. BoundsInv' /\ FlagsInv'
  BY <1>1 DEF EntityInv, BoundsInv, FlagsInv
<1> QED
  BY <1>3, <1>4 DEF EntityInv

(* A configuration's fields after an assignment. *)
LEMMA ConfigExcept ==
    ASSUME NEW a, NEW b, NEW c, NEW x, NEW y, NEW r,
           r = [ret |-> a, words |-> b, clean |-> c]
    PROVE  /\ [r EXCEPT !.clean = x] = [ret |-> a, words |-> b, clean |-> x]
           /\ [r EXCEPT !.words = x, !.ret = y]
                = [ret |-> y, words |-> x, clean |-> c]
           /\ [r EXCEPT !.clean = x, !.ret = y]
                = [ret |-> y, words |-> b, clean |-> x]
<1>1. [r EXCEPT !.clean = x] = [ret |-> a, words |-> b, clean |-> x]
  BY SMT
<1>2. [r EXCEPT !.words = x, !.ret = y] = [ret |-> y, words |-> x, clean |-> c]
  <2>1. PICK q : q = [r EXCEPT !.words = x, !.ret = y]
    OBVIOUS
  <2>2. /\ q.ret = y /\ q.words = x /\ q.clean = c
        /\ q = [ret |-> q.ret, words |-> q.words, clean |-> q.clean]
    BY <2>1
  <2> QED
    BY <2>1, <2>2
<1>3. [r EXCEPT !.clean = x, !.ret = y] = [ret |-> y, words |-> b, clean |-> x]
  <2>1. PICK q : q = [r EXCEPT !.clean = x, !.ret = y]
    OBVIOUS
  <2>2. /\ q.ret = y /\ q.words = b /\ q.clean = x
        /\ q = [ret |-> q.ret, words |-> q.words, clean |-> q.clean]
    BY <2>1
  <2> QED
    BY <2>1, <2>2
<1> QED
  BY <1>1, <1>2, <1>3

(* Enter keeps EntityInv: the script is as ScriptValue says. *)
LEMMA EntityEnter ==
    ASSUME EntityInv, Enter
    PROVE  EntityInv'
<1> DEFINE s == Append(Script(Head(calls)), NoOp)
<1>1. /\ req # None /\ calls # <<>> /\ script = <<>> /\ got = <<>>
      /\ script' = s
      /\ config' = IF IsBcGet(Head(calls)) THEN [NoConfig EXCEPT !.clean = TRUE]
                                           ELSE config
      /\ UNCHANGED <<op, req, calls, got, bc_initialised, enabler, lost>>
  BY DEF Enter, store
<1>2. /\ IsBcGet(Head(calls)) => s = <<ReadOp(BcBase + 2), NoOp>>
      /\ ~IsBcGet(Head(calls)) =>
           /\ Head(calls) = "bcInit" \/ req \in Request
           /\ s \in Rests(Head(calls), req)
           /\ Head(calls) = "bcInit" /\ bc_initialised => s = <<NoOp>>
  BY <1>1, ScriptValue
<1>3. op = NoOp
  BY <1>1 DEF EntityInv, ScriptInv
<1> HIDE DEF s
<1>4. s # <<>> /\ Len(s) \in 1 .. 4
  <2>1. CASE IsBcGet(Head(calls))
    BY <1>2, <2>1, SMT
  <2>2. CASE ~IsBcGet(Head(calls))
    BY <1>2, <2>2, RestsStep
  <2> QED
    BY <2>1, <2>2
<1>5. IsBcGet(Head(calls))' <=> IsBcGet(Head(calls))
  BY <1>1 DEF IsBcGet
<1>6. CallsInv'
  BY <1>1, <1>4 DEF EntityInv, CallsInv
<1>7. ScriptInv'
  <2>1. IsBcGet(Head(calls)) => config'.ret = "None"
    BY <1>1, SMT DEF NoConfig
  <2>2. IsBcGet(Head(calls)) => BcScript'
    BY <1>1, <1>2, <2>1, Zenon DEF BcScript
  <2> QED
    BY <1>1, <1>2, <1>3, <1>5, <2>2, Zenon DEF ScriptInv, BcNow
<1>8. BoundsInv'
  <2>1. BcMax \in Nat /\ BcMax > 4
    BY EEAssumption, SMT
  <2>2. got' \in Seq(Words) /\ Len(got') = 0 /\ Len(script') \in 1 .. 4
    BY <1>1, <1>4, EmptySeq
  <2>3. Len(script') <= BcMax + 1 /\ Len(got') + Len(script') <= BcMax + 2
    <3>1. \A a \in 1 .. 4 : a <= BcMax + 1 /\ 0 + a <= BcMax + 2
      BY <2>1, SMT
    <3> QED
      BY <2>2, <3>1, Zenon
  <2> QED
    BY <2>2, <2>3, Zenon DEF BoundsInv
<1>9. FlagsInv'
  <2> DEFINE c == [NoConfig EXCEPT !.clean = TRUE]
  <2>1. /\ c.ret = "None" /\ c.clean = TRUE
        /\ c = [ret |-> c.ret, words |-> c.words, clean |-> c.clean]
    <3>1. c = [ret |-> "None", words |-> <<>>, clean |-> TRUE]
      <4>1. ASSUME NEW r, NEW x, NEW y,
                   r = [ret |-> "None", words |-> <<>>, clean |-> y]
            PROVE  [r EXCEPT !.clean = x]
                     = [ret |-> "None", words |-> <<>>, clean |-> x]
        BY <4>1, SMT
      <4>2. NoConfig = [ret |-> "None", words |-> <<>>, clean |-> FALSE]
        BY DEF NoConfig
      <4> HIDE DEF NoConfig
      <4> QED
        BY <4>1, <4>2, Zenon
    <3> HIDE DEF c
    <3>2. c.ret = "None" /\ c.words = <<>> /\ c.clean = TRUE
      BY <3>1, SMT
    <3> QED
      BY <3>1, <3>2, Zenon
  <2> HIDE DEF c
  <2>2. config' \in {c, config}
    BY <1>1 DEF c
  <2> QED
    BY <1>1, <2>1, <2>2, Zenon DEF EntityInv, FlagsInv, Results
<1> QED
  BY <1>6, <1>7, <1>8, <1>9 DEF EntityInv

(* Driver keeps EntityInv, and calls what the store knows. *)
LEMMA EntityDriver ==
    ASSUME EntityInv, Driver
    PROVE  EntityInv' /\ Head(script) \in AllOps
<1>1. /\ op' = Head(script) /\ script # <<>> /\ Head(script) # NoOp
      /\ UNCHANGED entity
  BY DEF Driver, Store!Call
<1>2. Head(script) \in AllOps
  BY <1>1, ScriptFacts
<1>3. CallsInv' /\ BoundsInv' /\ FlagsInv'
  BY <1>1 DEF EntityInv, CallsInv, BoundsInv, FlagsInv, entity
<1>4. ScriptInv'
  <2>1. (BcNow' <=> BcNow) /\ (BcScript' <=> BcScript)
    BY <1>1 DEF BcNow, BcScript, IsBcGet, entity
  <2> QED
    BY <1>1, <2>1 DEF EntityInv, ScriptInv, entity
<1> QED
  BY <1>2, <1>3, <1>4 DEF EntityInv

(* Take keeps EntityInv: only a client's request sets the latch. *)
LEMMA EntityTake ==
    ASSUME EntityInv, Take
    PROVE  EntityInv'
<1>1. /\ op # NoOp /\ op' = op
      /\ UNCHANGED <<req, calls, script, got, bc_initialised, config, lost>>
      /\ enabler' = IF op.cmd = "ENABLE" THEN req.who ELSE enabler
  BY DEF Take, Store!Take, Store!Issued
<1>2. CallsInv' /\ BoundsInv'
  BY <1>1 DEF EntityInv, CallsInv, BoundsInv
<1>3. ScriptInv'
  <2>1. (BcNow' <=> BcNow) /\ (BcScript' <=> BcScript)
    BY <1>1 DEF BcNow, BcScript, IsBcGet
  <2> QED
    BY <1>1, <2>1 DEF EntityInv, ScriptInv
<1>4. enabler' \in {"none", "ioctl", "internal"}
  <2>1. op.cmd = "ENABLE" => req \in Request
    BY <1>1, OpFacts, SMT
  <2> QED
    BY <1>1, <2>1, BootIsNoRequest, SMT DEF EntityInv, FlagsInv
<1>5. FlagsInv'
  BY <1>1, <1>4 DEF EntityInv, FlagsInv
<1> QED
  BY <1>2, <1>3, <1>5 DEF EntityInv

(* Settle and stuttering keep EntityInv. *)
LEMMA EntityKept ==
    ASSUME EntityInv, UNCHANGED entity, op' = op
    PROVE  EntityInv'
<1>1. (BcNow' <=> BcNow) /\ (BcScript' <=> BcScript)
  BY DEF BcNow, BcScript, IsBcGet, entity
<1>2. ScriptInv'
  BY <1>1 DEF EntityInv, ScriptInv, entity
<1> QED
  BY <1>2 DEF EntityInv, CallsInv, BoundsInv, FlagsInv, entity

(* Leave keeps EntityInv. *)
LEMMA EntityLeave ==
    ASSUME EntityInv, Leave
    PROVE  EntityInv'
<1>1. /\ op = NoOp /\ script = <<NoOp>> /\ script' = <<>> /\ got' = <<>>
      /\ calls' = Tail(calls) /\ UNCHANGED <<op, req, enabler>>
  BY DEF Leave, store
<1>2. bc_initialised' \in BOOLEAN /\ lost' \in BOOLEAN
  BY Zenon DEF Leave, EntityInv, FlagsInv
<1>3. script # <<>>
  BY <1>1, SMT
<1>4. calls # <<>>
  BY <1>3 DEF EntityInv, CallsInv
<1>5. CallsInv'
  <2>1. /\ req \in Request \cup {ReadBoardConfig} /\ req # None
        /\ Tail(calls) \in CallsOf(req)
    BY <1>4, RequestFacts, CallsStep
  <2> QED
    BY <1>1, <2>1 DEF EntityInv, CallsInv
<1>6. ScriptInv'
  BY <1>1 DEF ScriptInv, BcNow
<1>7. BoundsInv'
  <2>1. BcMax \in Nat
    BY EEAssumption
  <2>2. got' \in Seq(Words) /\ Len(got') = 0 /\ Len(script') = 0
    BY <1>1, EmptySeq
  <2> QED
    BY <2>1, <2>2, SMT DEF BoundsInv
<1>8. FlagsInv'
  <2>1. /\ config = [ret |-> config.ret, words |-> config.words,
                     clean |-> config.clean]
        /\ config.ret \in Results /\ config.clean \in BOOLEAN
    BY DEF EntityInv, FlagsInv
  <2>2. \/ config' = config
        \/ \E w : \E ret \in {"OK", "INVALID"} :
              config' = [config EXCEPT !.words = w, !.ret = ret]
    <3>1. CASE UNCHANGED config
      BY <3>1
    <3>2. CASE BcCheck
      <4> DEFINE n == SizeWords(got[1])
      <4>1. PICK ret \in (IF BcChecks(n) THEN {"OK"} ELSE {})
                         \cup (IF BcFails(n) THEN {"INVALID"} ELSE {}) :
              config' = [config EXCEPT !.words = Copied(Config(n)), !.ret = ret]
        BY <3>2, Zenon DEF BcCheck
      <4>2. ret \in {"OK", "INVALID"}
        BY <4>1, Zenon
      <4> QED
        BY <4>1, <4>2, Zenon
    <3> QED
      BY <3>1, <3>2, Zenon DEF Leave
  <2>3. ASSUME NEW w, NEW ret \in {"OK", "INVALID"},
               config' = [config EXCEPT !.words = w, !.ret = ret]
        PROVE  /\ config' = [ret |-> config'.ret, words |-> config'.words,
                             clean |-> config'.clean]
               /\ config'.ret \in Results /\ config'.clean \in BOOLEAN
    <3>1. config' = [ret |-> ret, words |-> w, clean |-> config.clean]
      BY <2>1, <2>3, ConfigExcept
    <3>2. config'.ret = ret /\ config'.words = w /\ config'.clean = config.clean
      BY <3>1, SMT
    <3>3. ret \in Results
      BY Zenon DEF Results, Store!Errors
    <3> QED
      BY <2>1, <3>1, <3>2, <3>3, Zenon
  <2>4. /\ config' = [ret |-> config'.ret, words |-> config'.words,
                      clean |-> config'.clean]
        /\ config'.ret \in Results /\ config'.clean \in BOOLEAN
    BY <2>1, <2>2, <2>3, Zenon
  <2> QED
    BY <1>1, <1>2, <2>4, Zenon DEF EntityInv, FlagsInv
<1> QED
  BY <1>5, <1>6, <1>7, <1>8 DEF EntityInv

(* What a driver call returns: a word if and only if it is a READ that     *)
(* succeeds.                                                               *)
LEMMA CanReturnFacts ==
    ASSUME NEW ret, NEW data, NEW s, Store!CanReturn(ret, data, s), op.ndx = 0
    PROVE  /\ op.cmd = "READ" /\ ret = "OK" => data \in Words
           /\ op.cmd = "READ" => ret \in {"OK", "NOTREADY"}
           /\ op.cmd # "READ" => data = None
           /\ op.cmd = "READ" /\ ret = "OK" =>
                /\ status = "OPEN" /\ (clean => taken)
                /\ clean => data = latched
           /\ ret = "OK" /\ op.cmd \in {"ENABLE", "DISABLE"} =>
                status = "OPEN" /\ (clean => taken)
           /\ op.cmd \in {"READ", "WRITE", "ENABLE", "DISABLE"} => s = status
           /\ op.cmd = "Init" /\ ret # "EXISTS" => ret = "OK" /\ s = "INITIALISED"
           /\ op.cmd = "Open" =>
                \/ status \in {"CLOSED", "INITIALISED"} /\ ret = "OK" /\ s = "OPEN"
                \/ status \notin {"CLOSED", "INITIALISED"} /\ ret = "NOTREADY"
                   /\ s = status
           /\ op.cmd = "Shutdown" => s # "OPEN"
           /\ op.cmd \in {"READ", "WRITE", "ENABLE", "DISABLE"} /\ status # "OPEN"
                => ret = "NOTREADY"
BY SMT DEF Store!CanReturn, Store!Issued, Store!OnWire, Store!Programs

(* The operations of the scripts are on EEPROM 0. *)
LEMMA OpIndex ==
    ASSUME NEW o \in AllOps
    PROVE  o.ndx = 0 /\ o.cmd \in {"READ", "WRITE", "ENABLE", "DISABLE",
                                   "Init", "Open", "Shutdown"}
BY OpFields, SMT DEF AllOps, ReadOps, WriteOps, DriverOps,
                     Init_, Open_, Shut_, Enable_, Disable_

(* What is known of a Return step. *)
LEMMA ReturnFacts ==
    ASSUME EntityInv, NEW ret \in Store!Errors, NEW data \in Words \cup {None},
           Return(ret, data)
    PROVE  /\ op # NoOp /\ op' = NoOp /\ ret # "EXISTS" /\ op.ndx = 0
           /\ op.cmd \in {"READ", "WRITE", "ENABLE", "DISABLE",
                          "Init", "Open", "Shutdown"}
           /\ Store!CanReturn(ret, data, status')
           /\ UNCHANGED <<mem, wen, pending>>
           /\ UNCHANGED <<req, calls, bc_initialised, enabler, lost>>
           /\ script # <<>> /\ script # <<NoOp>> /\ calls # <<>>
           /\ Current = Head(calls)
           /\ BcNow <=> IsBcGet(Head(calls))
           /\ got' = IF ret = "OK" /\ data # None THEN Append(got, data) ELSE got
<1>1. /\ op # NoOp /\ op' = NoOp /\ ret # "EXISTS"
      /\ Store!CanReturn(ret, data, status')
      /\ UNCHANGED <<mem, wen, pending>>
      /\ UNCHANGED <<req, calls, bc_initialised, enabler, lost>>
      /\ got' = IF ret = "OK" /\ data # None THEN Append(got, data) ELSE got
  BY Zenon DEF Return, Store!Return
<1>2. script # <<>> /\ script # <<NoOp>> /\ op \in AllOps
  BY <1>1, OpFacts
<1>3. calls # <<>>
  BY <1>2, ScriptFacts
<1> QED
  BY <1>1, <1>2, <1>3, OpIndex, Zenon DEF BcNow, Current

(* The word is the last of got. *)
LEMMA AppendWord ==
    ASSUME NEW s \in Seq(Words), NEW w \in Words
    PROVE  /\ Append(s, w) \in Seq(Words) /\ Append(s, w) # <<>>
           /\ Len(Append(s, w)) = Len(s) + 1
           /\ Append(s, w)[Len(s) + 1] = w
           /\ \A i \in 1 .. Len(s) : Append(s, w)[i] = s[i]
<1>1. /\ Append(s, w) \in Seq(Words)
      /\ Len(Append(s, w)) = Len(s) + 1
      /\ Append(s, w)[Len(s) + 1] = w
      /\ \A i \in 1 .. Len(s) : Append(s, w)[i] = s[i]
  BY AppendProperties
<1>2. Len(s) + 1 # 0
  BY LenProperties, SMT
<1>3. Append(s, w) # <<>>
  BY <1>1, <1>2, EmptySeq
<1> QED
  BY <1>1, <1>3

(* bcGet's next call returns: it fails, learns the size, or reads a word.  *)
LEMMA BcReturn ==
    ASSUME EntityInv, NEW ret \in Store!Errors, NEW data \in Words \cup {None},
           Return(ret, data), BcNow
    PROVE  LET size == SizeWords(data)
           IN  \/ /\ ret = "NOTREADY" /\ script' = <<NoOp>> /\ got' = got
                  /\ config' = [ret |-> ret, words |-> config.words,
                                clean |-> (config.clean /\ clean)]
               \/ /\ ret = "OK" /\ data \in Words /\ got = <<>> /\ got' = <<data>>
                  /\ op = ReadOp(BcBase + 2) /\ config.ret = "None"
                  /\ \/ /\ size > BcMax /\ script' = <<NoOp>>
                        /\ config' = [ret |-> "INVALID", words |-> config.words,
                                      clean |-> (config.clean /\ clean)]
                     \/ /\ size <= BcMax /\ script' = Remaining(size, 1)
                        /\ config' = [ret |-> "None", words |-> config.words,
                                      clean |-> (config.clean /\ clean)]
               \/ /\ ret = "OK" /\ data \in Words /\ got # <<>>
                  /\ got' = Append(got, data) /\ config.ret = "None"
                  /\ SizeWords(got[1]) <= BcMax
                  /\ Len(got) <= SizeWords(got[1])
                  /\ op = ReadOp(BcBase + Len(got) - 1)
                  /\ script' = Remaining(SizeWords(got[1]), Len(got) + 1)
                  /\ config' = [ret |-> "None", words |-> config.words,
                                clean |-> (config.clean /\ clean)]
<1> DEFINE size == SizeWords(data)
           sized == got = <<>> /\ ret = "OK"
           cl == config.clean /\ clean
<1>1. /\ op # NoOp /\ Store!CanReturn(ret, data, status') /\ op.ndx = 0
      /\ script # <<>> /\ script # <<NoOp>> /\ IsBcGet(Current)
      /\ got' = IF ret = "OK" /\ data # None THEN Append(got, data) ELSE got
  BY ReturnFacts
<1>2. /\ script' = IF ret # "OK" THEN <<NoOp>>
                        ELSE IF sized /\ ~TooLarge(size)
                          THEN Append(BcReads(size), NoOp) ELSE Tail(script)
      /\ config' = [config EXCEPT
                                !.clean = @ /\ clean,
                                !.ret = IF ret # "OK" THEN ret
                                        ELSE IF sized /\ TooLarge(size)
                                          THEN "INVALID" ELSE @]
  BY <1>1, Zenon DEF Return
<1>3. op.cmd = "READ" /\ op = Head(script)
  BY <1>1, OpFacts
<1>4. /\ ret = "OK" => data \in Words /\ data # None
      /\ ret \in {"OK", "NOTREADY"}
  BY <1>1, <1>3, CanReturnFacts, EEAssumption, Zenon
<1>5. ASSUME NEW x, x = IF ret # "OK" THEN ret
                        ELSE IF sized /\ TooLarge(size)
                          THEN "INVALID" ELSE config.ret
      PROVE  config' = [ret |-> x, words |-> config.words, clean |-> cl]
  <2>1. config = [ret |-> config.ret, words |-> config.words,
                  clean |-> config.clean]
    BY DEF EntityInv, FlagsInv
  <2>2. config' = [config EXCEPT !.clean = cl, !.ret = x]
    BY <1>2, <1>5, Zenon
  <2> HIDE DEF cl
  <2> QED
    BY <2>1, <2>2, ConfigExcept
<1> HIDE DEF cl
<1>6. CASE ret # "OK"
  <2>1. script' = <<NoOp>> /\ got' = got
    BY <1>1, <1>2, <1>6, Zenon
  <2>2. config' = [ret |-> ret, words |-> config.words, clean |-> cl]
    BY <1>5, <1>6, Zenon
  <2> QED
    BY <1>4, <1>6, <2>1, <2>2, Zenon DEF cl
<1>7. ASSUME ret = "OK" PROVE BcScript /\ got' = Append(got, data) /\ data \in Words
  BY <1>1, <1>4, <1>7, Zenon DEF EntityInv, ScriptInv
<1>8. CASE ret = "OK" /\ got = <<>>
  <2>1. script = <<ReadOp(BcBase + 2), NoOp>> /\ config.ret = "None"
    BY <1>1, <1>7, <1>8, Zenon DEF BcScript
  <2>2. op = ReadOp(BcBase + 2) /\ Tail(script) = <<NoOp>>
    BY <1>3, <2>1, SMT
  <2>3. got' = <<data>>
    BY <1>7, <1>8, AppendTuples, Zenon
  <2>4. size \in Nat /\ BcMax \in Nat
    BY <1>7, <1>8, SizeType, EEAssumption
  <2>5. Append(BcReads(size), NoOp) = Remaining(size, 1)
    BY <2>4, BcReadsValue
  <2>6. TooLarge(size) <=> size > BcMax
    BY DEF TooLarge
  <2> HIDE DEF size
  <2>7. size > BcMax \/ size <= BcMax
    BY <2>4, SMT
  <2>8. CASE size > BcMax
    <3>1. script' = <<NoOp>>
      BY <1>2, <1>8, <2>2, <2>6, <2>8, Zenon
    <3>2. config' = [ret |-> "INVALID", words |-> config.words, clean |-> cl]
      BY <1>5, <1>8, <2>6, <2>8, Zenon
    <3> QED
      BY <1>7, <1>8, <2>1, <2>2, <2>3, <2>8, <3>1, <3>2, Zenon DEF cl, size
  <2>9. CASE size <= BcMax
    <3>0. ~(size > BcMax)
      BY <2>4, <2>9, SMT
    <3>1. script' = Remaining(size, 1)
      BY <1>2, <1>8, <2>5, <2>6, <3>0, Zenon
    <3>2. config' = [ret |-> "None", words |-> config.words, clean |-> cl]
      BY <1>5, <1>8, <2>1, <2>6, <3>0, Zenon
    <3> QED
      BY <1>7, <1>8, <2>1, <2>2, <2>3, <2>9, <3>1, <3>2, Zenon DEF cl, size
  <2> QED
    BY <2>7, <2>8, <2>9
<1>9. CASE ret = "OK" /\ got # <<>>
  <2>1. /\ config.ret = "None" /\ SizeWords(got[1]) <= BcMax
        /\ Len(got) <= SizeWords(got[1]) + 1
        /\ script = Remaining(SizeWords(got[1]), Len(got))
    BY <1>1, <1>7, <1>9, Zenon DEF BcScript
  <2>2. PICK n \in Nat, k \in Nat :
            n = SizeWords(got[1]) /\ k = Len(got) /\ n <= BcMax /\ k \in 1 .. n + 1
    BY <1>9, <2>1, GotFacts, SMT DEF EntityInv
  <2>3. k # n + 1
    BY <1>1, <2>1, <2>2, RemainingStep, Zenon
  <2>4. k <= n
    BY <2>2, <2>3, SMT
  <2>5. op = ReadOp(BcBase + k - 1) /\ Tail(script) = Remaining(n, k + 1)
    BY <1>3, <2>1, <2>2, <2>4, RemainingStep, Zenon
  <2>6. script' = Tail(script)
    BY <1>2, <1>9, Zenon
  <2>7. config' = [ret |-> "None", words |-> config.words, clean |-> cl]
    BY <1>5, <1>9, <2>1, Zenon
  <2> QED
    BY <1>7, <1>9, <2>1, <2>2, <2>4, <2>5, <2>6, <2>7, Zenon DEF cl
<1> QED
  BY <1>6, <1>8, <1>9

(* The other methods' next call returns. *)
LEMMA OtherReturn ==
    ASSUME EntityInv, NEW ret \in Store!Errors, NEW data \in Words \cup {None},
           Return(ret, data), ~BcNow
    PROVE  /\ config' = config
           /\ ret # "OK" => script' = <<NoOp>>
           /\ ret = "OK" => script' = Tail(script)
           /\ script \in Rests(Head(calls), req)
           /\ script' \in Rests(Head(calls), req)
           /\ ~(Head(calls) = "bcInit" /\ bc_initialised)
           /\ Head(calls) = "bcInit" \/ req \in Request
<1>1. ~IsBcGet(Current) /\ ~IsBcGet(Head(calls)) /\ calls # <<>>
      /\ script # <<>> /\ script # <<NoOp>>
  BY ReturnFacts
<1>2. /\ config' = config
      /\ ret # "OK" => script' = <<NoOp>>
      /\ ret = "OK" => script' = Tail(script)
  BY <1>1, Zenon DEF Return
<1>3. /\ script \in Rests(Head(calls), req)
      /\ ~(Head(calls) = "bcInit" /\ bc_initialised)
  BY <1>1 DEF EntityInv, ScriptInv
<1>4. Head(calls) = "bcInit" \/ req \in Request
  BY <1>1, RequestFacts
<1>5. script' \in Rests(Head(calls), req)
  BY <1>1, <1>2, <1>3, <1>4, RestsStep, Zenon
<1> QED
  BY <1>2, <1>3, <1>4, <1>5

(* Return keeps EntityInv: a call fewer is left, or, after the size, as    *)
(* many as fit data[].                                                     *)
LEMMA EntityReturn ==
    ASSUME EntityInv, NEW ret \in Store!Errors, NEW data \in Words \cup {None},
           Return(ret, data)
    PROVE  EntityInv'
<1>1. /\ op # NoOp /\ op' = NoOp
      /\ UNCHANGED <<req, calls, bc_initialised, enabler, lost>>
      /\ script # <<>> /\ script # <<NoOp>> /\ calls # <<>>
      /\ Current = Head(calls) /\ (BcNow <=> IsBcGet(Head(calls)))
      /\ got' = IF ret = "OK" /\ data # None THEN Append(got, data) ELSE got
  BY ReturnFacts
<1>2. IsBcGet(Head(calls))' <=> IsBcGet(Head(calls))
  BY <1>1 DEF IsBcGet
<1>3. /\ got \in Seq(Words) /\ Len(script) <= BcMax + 1
      /\ Len(got) + Len(script) <= BcMax + 2
      /\ BcMax \in Nat /\ Len(got) \in Nat /\ Len(script) \in Nat /\ Len(script) >= 1
  BY <1>1, ScriptFacts, EEAssumption, LenProperties DEF EntityInv, BoundsInv
<1>4. <<NoOp>> # <<>> /\ Len(<<NoOp>>) = 1
  BY SMT
<1>5. CASE ~BcNow
  <2>1. /\ config' = config
        /\ ret # "OK" => script' = <<NoOp>>
        /\ ret = "OK" => script' = Tail(script)
        /\ script' \in Rests(Head(calls), req)
        /\ ~(Head(calls) = "bcInit" /\ bc_initialised)
        /\ Head(calls) = "bcInit" \/ req \in Request
    BY <1>5, OtherReturn
  <2>2. script' # <<>>
    BY <2>1, RestsStep
  <2>3. CallsInv'
    BY <1>1, <2>2 DEF EntityInv, CallsInv
  <2>4. ScriptInv'
    BY <1>1, <1>2, <1>5, <2>1 DEF ScriptInv, BcNow
  <2>5. BoundsInv'
    <3>1. CASE ret # "OK"
      <4>1. got' = got /\ Len(script') = 1
        BY <1>1, <1>4, <2>1, <3>1, Zenon
      <4> QED
        BY <1>3, <4>1, SMT DEF BoundsInv
    <3>2. CASE ret = "OK"
      <4>1. Len(script') = Len(script) - 1
        BY <1>1, <2>1, <3>2, ScriptFacts, Zenon
      <4>2. /\ got' \in Seq(Words)
            /\ Len(got') = Len(got) \/ Len(got') = Len(got) + 1
        BY <1>1, <1>3, AppendWord, Zenon
      <4> QED
        BY <1>3, <4>1, <4>2, SMT DEF BoundsInv
    <3> QED
      BY <3>1, <3>2
  <2>6. FlagsInv'
    BY <1>1, <2>1 DEF EntityInv, FlagsInv
  <2> QED
    BY <2>3, <2>4, <2>5, <2>6 DEF EntityInv
<1>6. CASE BcNow
  <2> DEFINE size == SizeWords(data)
             cl == config.clean /\ clean
  <2>1. ASSUME NEW q \in Results,
               config' = [ret |-> q, words |-> config.words, clean |-> cl]
        PROVE  FlagsInv' /\ config'.ret = q
    <3>1. cl \in BOOLEAN
      BY Zenon
    <3> HIDE DEF cl
    <3>2. config'.ret = q /\ config'.words = config.words /\ config'.clean = cl
      BY <2>1, SMT
    <3>3. config' = [ret |-> config'.ret, words |-> config'.words,
                     clean |-> config'.clean]
      BY <2>1, <3>2, Zenon
    <3> QED
      BY <1>1, <3>1, <3>2, <3>3, Zenon DEF EntityInv, FlagsInv
  <2>2. "None" \in Results /\ "INVALID" \in Results /\ ret \in Results
        /\ "NOTREADY" # "None" /\ "INVALID" # "None"
    BY Zenon DEF Results, Store!Errors
  <2> HIDE DEF cl
  <2>3. CASE /\ ret = "NOTREADY" /\ script' = <<NoOp>> /\ got' = got
             /\ config' = [ret |-> ret, words |-> config.words, clean |-> cl]
    <3>1. FlagsInv' /\ config'.ret # "None"
      BY <2>1, <2>2, <2>3, Zenon
    <3>2. CallsInv'
      BY <1>1, <1>4, <2>3 DEF EntityInv, CallsInv
    <3>3. ScriptInv'
      BY <1>1, <1>2, <1>6, <2>3, <3>1, Zenon DEF ScriptInv, BcNow, BcScript
    <3>4. BoundsInv'
      BY <1>3, <1>4, <2>3, SMT DEF BoundsInv
    <3> QED
      BY <3>1, <3>2, <3>3, <3>4 DEF EntityInv
  <2>4. CASE /\ data \in Words /\ got = <<>> /\ got' = <<data>>
             /\ size > BcMax /\ script' = <<NoOp>>
             /\ config' = [ret |-> "INVALID", words |-> config.words, clean |-> cl]
    <3>1. FlagsInv' /\ config'.ret # "None"
      BY <2>1, <2>2, <2>4, Zenon
    <3>2. CallsInv'
      BY <1>1, <1>4, <2>4 DEF EntityInv, CallsInv
    <3>3. ScriptInv'
      BY <1>1, <1>2, <1>6, <2>4, <3>1, Zenon DEF ScriptInv, BcNow, BcScript
    <3>4. BoundsInv'
      <4>1. got' \in Seq(Words) /\ Len(got') = 1 /\ Len(script') = 1
        BY <1>4, <2>4, SMT
      <4> QED
        BY <1>3, <4>1, EEAssumption, SMT DEF BoundsInv
    <3> QED
      BY <3>1, <3>2, <3>3, <3>4 DEF EntityInv
  <2>5. CASE /\ data \in Words /\ got = <<>> /\ got' = <<data>>
             /\ size <= BcMax /\ script' = Remaining(size, 1)
             /\ config' = [ret |-> "None", words |-> config.words, clean |-> cl]
    <3>1. FlagsInv' /\ config'.ret = "None"
      BY <2>1, <2>2, <2>5, Zenon
    <3>2. PICK n \in Nat : n = size /\ n <= BcMax /\ 1 \in 1 .. n + 1 /\ 1 <= n + 1
      <4>1. size \in Nat
        BY <2>5, SizeType
      <4> HIDE DEF size
      <4> QED
        BY <2>5, <4>1, SMT
    <3>3. script' # <<>> /\ Len(script') = n + 2 - 1
      BY <2>5, <3>2, RemainingSeq, RemainingStep, Zenon
    <3>4. CallsInv'
      BY <1>1, <3>3 DEF EntityInv, CallsInv
    <3>5. got' # <<>> /\ got'[1] = data /\ Len(got') = 1 /\ got' \in Seq(Words)
      BY <2>5, SMT
    <3>6. BcScript'
      BY <2>5, <3>1, <3>2, <3>5, Zenon DEF BcScript
    <3>7. ScriptInv'
      BY <1>1, <1>2, <1>6, <3>6, Zenon DEF ScriptInv, BcNow
    <3>8. BoundsInv'
      BY <1>3, <3>2, <3>3, <3>5, SMT DEF BoundsInv
    <3> QED
      BY <3>1, <3>4, <3>7, <3>8 DEF EntityInv
  <2>6. CASE /\ data \in Words /\ got # <<>> /\ got' = Append(got, data)
             /\ SizeWords(got[1]) <= BcMax
             /\ Len(got) <= SizeWords(got[1])
             /\ script' = Remaining(SizeWords(got[1]), Len(got) + 1)
             /\ config' = [ret |-> "None", words |-> config.words, clean |-> cl]
    <3>1. FlagsInv' /\ config'.ret = "None"
      BY <2>1, <2>2, <2>6, Zenon
    <3>2. PICK n \in Nat, k \in Nat :
            /\ n = SizeWords(got[1]) /\ k = Len(got) /\ n <= BcMax
            /\ k + 1 \in 1 .. n + 1 /\ k + 1 <= n + 1 /\ 1 \in 1 .. k
      BY <2>6, GotFacts, SMT DEF EntityInv
    <3>3. script' # <<>> /\ Len(script') = n + 2 - (k + 1)
      BY <2>6, <3>2, RemainingSeq, RemainingStep, Zenon
    <3>4. CallsInv'
      BY <1>1, <3>3 DEF EntityInv, CallsInv
    <3>5. /\ got' # <<>> /\ got'[1] = got[1] /\ Len(got') = k + 1
          /\ got' \in Seq(Words)
      BY <1>3, <2>6, <3>2, AppendWord, Zenon
    <3>6. BcScript'
      BY <2>6, <3>1, <3>2, <3>5, Zenon DEF BcScript
    <3>7. ScriptInv'
      BY <1>1, <1>2, <1>6, <3>6, Zenon DEF ScriptInv, BcNow
    <3>8. BoundsInv'
      BY <1>3, <3>2, <3>3, <3>5, SMT DEF BoundsInv
    <3> QED
      BY <3>1, <3>4, <3>7, <3>8 DEF EntityInv
  <2> QED
    BY <1>6, <2>3, <2>4, <2>5, <2>6, BcReturn, Zenon DEF cl
<1> QED
  BY <1>5, <1>6

(* Every step keeps EntityInv. *)
LEMMA EntityStep ==
    ASSUME EntityInv, [Next]_vars
    PROVE  EntityInv'
<1>1. CASE UNCHANGED vars
  BY <1>1, EntityKept DEF vars, store
<1>2. ASSUME NEW r \in Requests, Serve(r) PROVE EntityInv'
  BY <1>2, EntityServe
<1>3. CASE Settle
  BY <1>3, EntityKept DEF Settle, Store!Settle
<1>4. ASSUME NEW ret \in Store!Errors, NEW data \in Words \cup {None},
             Return(ret, data)
      PROVE  EntityInv'
  BY <1>4, EntityReturn
<1> QED
  BY <1>1, <1>2, <1>3, <1>4, EntityEnter, EntityDriver, EntityTake, EntityLeave,
     EntityDone DEF Next

(* The structure of the requests: what a request has still to run is the   *)
(* end of what its ioctl or call runs, the driver call in progress is the  *)
(* next of its method's script, and bcGet reads the size and no more words *)
(* than it names and data[] holds.                                         *)
THEOREM EntityCorrect == Spec => []EntityInv
<1>1. EntityInv /\ [Next]_vars => EntityInv'
  BY EntityStep
<1> QED
  BY <1>1, EntityInitial, PTL DEF Spec

----------------------------------------------------------------------------
(* The driver under the entity, with what EepromStoreProofs proves of it. *)
SP == INSTANCE EepromStoreProofs WITH Ops <- AllOps

(* The driver's contract holds of these operations. *)
LEMMA StoreReady == SP!StoreAssumption
<1>1. /\ AllOps \subseteq SP!Operation
  BY OpTypes, Zenon DEF AllOps, Store!Operation, SP!Operation, Store!Commands,
                        SP!Commands, Store!Controls, SP!Controls
<1>2. NoOp \notin SP!Operation /\ None \notin Words /\ None \notin SP!Memory
      /\ ErasedWord \in Words
  BY EEAssumption, Zenon DEF Store!Operation, SP!Operation, Store!Commands,
                        SP!Commands, Store!Controls, SP!Controls,
                        Store!Memory, SP!Memory
<1> QED
  BY <1>1, <1>2 DEF SP!StoreAssumption

(* Every step of the entity is a step of the driver, or none. *)
LEMMA StoreStepped ==
    ASSUME EntityInv, [Next]_vars
    PROVE  [SP!Next]_(SP!vars)
<1>1. CASE UNCHANGED store
  BY <1>1 DEF store, SP!vars
<1>2. CASE Driver
  <2>1. Head(script) \in AllOps
    BY <1>2, EntityDriver
  <2>2. SP!Call(Head(script))
    BY <1>2 DEF Driver, Store!Call, SP!Call, Store!NoAnswer, SP!NoAnswer
  <2> QED
    BY <2>1, <2>2 DEF SP!Next
<1>3. CASE Take
  <2>1. SP!Take
    BY <1>3 DEF Take, Store!Take, SP!Take, Store!Issued, SP!Issued, Store!OnWire,
                SP!OnWire, Store!Programs, SP!Programs, Store!NewContents,
                SP!NewContents
  <2> QED
    BY <2>1 DEF SP!Next
<1>4. CASE Settle
  <2>1. SP!Settle
    BY <1>4 DEF Settle, Store!Settle, SP!Settle
  <2> QED
    BY <2>1 DEF SP!Next
<1>5. ASSUME NEW ret \in Store!Errors, NEW data \in Words \cup {None},
             Return(ret, data)
      PROVE  SP!Next
  <2>1. PICK s \in Store!Statuses : Store!Return(ret, data, s)
    BY <1>5, Zenon DEF Return
  <2>2. SP!Return(ret, data, s)
    BY <2>1, Zenon DEF Store!Return, SP!Return, Store!CanReturn, SP!CanReturn,
                Store!Issued, SP!Issued, Store!OnWire, SP!OnWire,
                Store!Programs, SP!Programs
  <2>3. ret \in SP!Errors /\ s \in SP!Statuses
    BY <2>1, Zenon DEF Store!Errors, SP!Errors, Store!Statuses, SP!Statuses
  <2> QED
    BY <2>2, <2>3, Zenon DEF SP!Next
<1>6. CASE UNCHANGED vars
  BY <1>1, <1>6 DEF vars
<1>7. ASSUME NEW r \in Requests, Serve(r) PROVE UNCHANGED store
  BY <1>7 DEF Serve
<1>8. ASSUME Enter \/ Leave \/ Done PROVE UNCHANGED store
  BY <1>8 DEF Enter, Leave, Done
<1> QED
  BY <1>1, <1>2, <1>3, <1>4, <1>5, <1>6, <1>7, <1>8, Zenon DEF Next

(* And it begins as the driver does. *)
LEMMA StoreBegins == Init => SP!Init
BY EEAssumption DEF Init, Store!Init, SP!Init, Store!NoAnswer, SP!NoAnswer,
                    Store!Memory, SP!Memory

(* The entity, whatever ioctls and calls it serves, uses the EEPROM driver *)
(* within its contract: what it does to the driver is a behaviour of       *)
(* EepromStore, so that what is proved of that holds under the entity too. *)
THEOREM StoreRefined == Spec => SP!Spec
<1>1. EntityInv /\ [Next]_vars => [SP!Next]_(SP!vars)
  BY StoreStepped
<1> QED
  BY <1>1, EntityCorrect, StoreBegins, PTL DEF Spec, SP!Spec

(* The driver's state is as the contract says. *)
BaseInv == EntityInv /\ SP!TypeOK /\ SP!StoreInv

(* BaseInv is inductive. *)
LEMMA BaseStep ==
    ASSUME BaseInv, [Next]_vars
    PROVE  BaseInv'
<1>1. [SP!Next]_(SP!vars)
  BY StoreStepped DEF BaseInv
<1>2. SP!TypeOK'
  BY <1>1, StoreReady, SP!TypeStep DEF BaseInv
<1>3. SP!StoreInv'
  BY <1>1, StoreReady, SP!StoreStep DEF BaseInv
<1> QED
  BY <1>2, <1>3, EntityStep DEF BaseInv

(* It holds at the beginning. *)
LEMMA BaseInitial == Init => BaseInv
<1> SUFFICES ASSUME Init PROVE BaseInv
  OBVIOUS
<1>1. SP!Init
  BY StoreBegins
<1>2. SP!NoAnswer = [op |-> NoOp, ret |-> "OK", data |-> None, clean |-> TRUE]
      /\ SP!NoAnswer.op = NoOp
  BY SMT DEF SP!NoAnswer
<1>3. SP!TypeOK
  <2>1. SP!NoAnswer \in SP!Answer
    BY SMT DEF SP!NoAnswer, SP!Answer, SP!Errors
  <2> QED
    BY <1>1, <2>1, Zenon DEF SP!Init, SP!TypeOK, SP!Statuses
<1>4. SP!StoreInv
  BY <1>1, <1>2 DEF SP!Init, SP!StoreInv, SP!LatchInv, SP!RunningInv, SP!AnsweredInv
<1> QED
  BY <1>3, <1>4, EntityInitial DEF BaseInv

(* The entity's structure and the driver's contract hold together. *)
THEOREM BaseCorrect == Spec => []BaseInv
<1>1. BaseInv /\ [Next]_vars => BaseInv'
  BY BaseStep
<1> QED
  BY <1>1, BaseInitial, PTL DEF Spec

(* The variables have their types: at most four methods of a request run,  *)
(* and a method reads at most the size word and the words that data[] of   *)
(* bcGet holds, whatever size the EEPROM names.                            *)
THEOREM TypeCorrect == Spec => []TypeOK
<1>1. ASSUME BaseInv PROVE TypeOK
  <2>1. Store!TypeOK
    BY <1>1, Zenon DEF BaseInv, Store!TypeOK, SP!TypeOK, Store!Statuses, SP!Statuses,
         Store!Operation, SP!Operation, Store!Commands, SP!Commands,
         Store!Controls, SP!Controls, Store!Memory, SP!Memory, Store!Answer,
         SP!Answer, Store!Errors, SP!Errors
  <2>2. /\ req \in Requests \cup {ReadBoardConfig, None}
        /\ Len(script) <= BcMax + 1 /\ got \in Seq(Words)
        /\ bc_initialised \in BOOLEAN /\ lost \in BOOLEAN
        /\ config.ret \in Store!Errors \cup {"None"} /\ config.clean \in BOOLEAN
        /\ enabler \in {"none", "ioctl", "internal"}
    BY <1>1 DEF BaseInv, EntityInv, CallsInv, BoundsInv, FlagsInv, Results
  <2>3. Len(calls) <= 4
    <3>1. CASE calls = <<>>
      BY <3>1, SMT
    <3>2. CASE calls # <<>>
      <4>1. calls \in CallsOf(req)
        BY <1>1, <3>2, RequestFacts DEF BaseInv
      <4>2. /\ Len(<<>>) = 0 /\ \A x : Len(<<x>>) = 1
            /\ \A x, y : Len(<<x, y>>) = 2 /\ \A z : Len(<<x, y, z>>) = 3
        BY SMT
      <4>3. 0 <= 4 /\ 1 <= 4 /\ 2 <= 4 /\ 3 <= 4
        BY SMT
      <4>4. \A r, c : c \in CallsOf(r) => Len(c) \in {0, 1, 2, 3}
        <5> SUFFICES ASSUME NEW r, NEW c \in CallsOf(r)
                     PROVE  Len(c) \in {0, 1, 2, 3}
          OBVIOUS
        <5>1. \/ c = <<>> \/ \E x : c = <<x>>
              \/ \E x, y : c = <<x, y>> \/ \E z : c = <<x, y, z>>
          BY Zenon DEF CallsOf
        <5> QED
          BY <4>2, <5>1, Zenon
      <4> QED
        BY <4>1, <4>3, <4>4, Zenon
    <3> QED
      BY <3>1, <3>2
  <2>4. Len(got) <= BcMax + 1
    <3>0. BcMax \in Nat /\ Len(got) \in Nat
      BY <2>2, EEAssumption, LenProperties
    <3>1. CASE script = <<>>
      <4>1. got = <<>>
        BY <1>1, <3>1 DEF BaseInv, EntityInv, CallsInv
      <4>2. Len(got) = 0
        BY <4>1, SMT
      <4> QED
        BY <3>0, <4>2, SMT
    <3>2. CASE script # <<>>
      <4>1. /\ Len(script) \in Nat /\ Len(script) >= 1
            /\ Len(got) + Len(script) <= BcMax + 2
        BY <1>1, <3>2, ScriptFacts DEF BaseInv, EntityInv, BoundsInv
      <4> QED
        BY <3>0, <4>1, SMT
    <3> QED
      BY <3>1, <3>2
  <2> QED
    BY <2>1, <2>2, <2>3, <2>4 DEF TypeOK
<1> QED
  BY <1>1, BaseCorrect, PTL

----------------------------------------------------------------------------
(* While the write-enable latch is set by an ioctl, that ioctl is still    *)
(* running, the chip is idle, and the DISABLE of its INIT is still to come *)
(* and cannot fail: Init makes the driver ready to be opened, Open opens   *)
(* it, and a chip that is idle takes the command.                          *)
DisableToCome ==
    \/ script = <<>>
    \/ script = <<Init_, Open_, Disable_, NoOp>>
    \/ script = <<Open_, Disable_, NoOp>> /\ status = "INITIALISED"
    \/ /\ script = <<Disable_, NoOp>> /\ status = "OPEN"
       /\ op # NoOp => clean

Armed ==
    /\ pending = None
    /\ req \in Request /\ req.who = "ioctl" /\ req.attr = "control"
    /\ \/ calls = <<"WRITE", "INIT", "SHUTDOWN">>
       \/ calls = <<"INIT", "SHUTDOWN">> /\ DisableToCome

EnableInv ==
    /\ wen => enabler # "none"
    /\ wen /\ enabler = "ioctl" => Armed

(* After a control ioctl the driver is closed, but for an INIT that is     *)
(* running, and bcGet, which reads through it, gets no word.               *)
LostInv ==
    /\ ~bc_initialised =>
         req = ReadBoardConfig /\ calls = <<"bcInit", "bcGet">>
    /\ lost => bc_initialised
    /\ lost /\ status = "OPEN" => Current = "INIT"
    /\ Current = "SHUTDOWN" /\ script = <<NoOp>> => status # "OPEN"
    /\ lost /\ req = ReadBoardConfig =>
         config.ret \in {"None", "NOTREADY"} /\ got = <<>>

(* What bcGet has read so far without meeting a busy chip is in the chip,  *)
(* which is idle and stays so; and so is what it has answered.             *)
ReadSoFar ==
    /\ pending = None
    /\ got[1] = mem[BcBase + 2]
    /\ \A i \in 1 .. Len(got) - 1 : got[i + 1] = mem[BcBase + i - 1]

Answered ==
    \A i \in 1..BcConfig :
        config.words[i] = IF i = 5 /\ config.words[4] = 0 THEN Unnamed
                          ELSE IF i <= SizeWords(mem[BcBase + 2])
                            THEN mem[BcBase + i - 1] ELSE 0

GenuineInv ==
    /\ BcNow /\ config.clean /\ got # <<>> => ReadSoFar
    /\ config.ret = "OK" => calls = <<>>
    /\ config.ret = "OK" /\ config.clean => pending = None /\ Answered

(* The tuples that the scripts and the methods of a control ioctl are. *)
LEMMA TupleFacts ==
    /\ \A x, y : /\ <<x, y>> # <<>> /\ <<x, y>> # <<NoOp>>
                 /\ Head(<<x, y>>) = x /\ Tail(<<x, y>>) = <<y>>
    /\ \A x, y, z : /\ <<x, y, z>> # <<>> /\ <<x, y, z>> # <<NoOp>>
                    /\ Head(<<x, y, z>>) = x /\ Tail(<<x, y, z>>) = <<y, z>>
    /\ \A w, x, y, z : /\ <<w, x, y, z>> # <<>> /\ <<w, x, y, z>> # <<NoOp>>
                       /\ Head(<<w, x, y, z>>) = w
                       /\ Tail(<<w, x, y, z>>) = <<x, y, z>>
    /\ <<NoOp>> # <<>> /\ Head(<<NoOp>>) = NoOp
    /\ Head(<<"WRITE", "INIT", "SHUTDOWN">>) = "WRITE"
    /\ Head(<<"INIT", "SHUTDOWN">>) = "INIT"
    /\ Tail(<<"WRITE", "INIT", "SHUTDOWN">>) = <<"INIT", "SHUTDOWN">>
    /\ Head(<<Init_, Open_, Disable_, NoOp>>) = Init_
    /\ Tail(<<Init_, Open_, Disable_, NoOp>>) = <<Open_, Disable_, NoOp>>
    /\ Head(<<Open_, Disable_, NoOp>>) = Open_
    /\ Tail(<<Open_, Disable_, NoOp>>) = <<Disable_, NoOp>>
    /\ Head(<<Shut_, NoOp>>) = Shut_ /\ <<Shut_, NoOp>> # <<NoOp>>
<1>1. \A x, y : /\ <<x, y>> # <<>> /\ <<x, y>> # <<NoOp>>
                 /\ Head(<<x, y>>) = x /\ Tail(<<x, y>>) = <<y>>
  BY SMT
<1>2. \A x, y, z : /\ <<x, y, z>> # <<>> /\ <<x, y, z>> # <<NoOp>>
                    /\ Head(<<x, y, z>>) = x /\ Tail(<<x, y, z>>) = <<y, z>>
  BY SMT
<1>3. \A w, x, y, z : /\ <<w, x, y, z>> # <<>> /\ <<w, x, y, z>> # <<NoOp>>
                       /\ Head(<<w, x, y, z>>) = w
                       /\ Tail(<<w, x, y, z>>) = <<x, y, z>>
  BY SMT
<1>4. <<NoOp>> # <<>> /\ Head(<<NoOp>>) = NoOp
  BY SMT
<1>5. /\ Head(<<"WRITE", "INIT", "SHUTDOWN">>) = "WRITE"
      /\ Tail(<<"WRITE", "INIT", "SHUTDOWN">>) = <<"INIT", "SHUTDOWN">>
  BY <1>2
<1>6. Head(<<"INIT", "SHUTDOWN">>) = "INIT"
  BY <1>1
<1>7. /\ Head(<<Init_, Open_, Disable_, NoOp>>) = Init_
      /\ Tail(<<Init_, Open_, Disable_, NoOp>>) = <<Open_, Disable_, NoOp>>
  BY <1>3
<1>8. /\ Head(<<Open_, Disable_, NoOp>>) = Open_
      /\ Tail(<<Open_, Disable_, NoOp>>) = <<Disable_, NoOp>>
  BY <1>2
<1>9. Head(<<Shut_, NoOp>>) = Shut_ /\ <<Shut_, NoOp>> # <<NoOp>>
  BY <1>1
<1> QED
  BY <1>1, <1>2, <1>3, <1>4, <1>5, <1>6, <1>7, <1>8, <1>9

(* In an ioctl that has armed the latch no bcGet runs, and its methods are *)
(* WRITE, or INIT.                                                         *)
LEMMA ArmedFacts ==
    ASSUME Armed
    PROVE  /\ calls # <<>> /\ ~BcNow /\ ~IsBcGet(Head(calls))
           /\ Current = Head(calls) /\ Head(calls) \in {"WRITE", "INIT"}
           /\ req # None /\ req # ReadBoardConfig
<1>1. calls # <<>> /\ Head(calls) \in {"WRITE", "INIT"}
  <2>1. calls \in {<<"WRITE", "INIT", "SHUTDOWN">>, <<"INIT", "SHUTDOWN">>}
    BY Zenon DEF Armed
  <2> QED
    BY <2>1, SMT
<1>2. req # None /\ req # ReadBoardConfig
  BY EEAssumption, BootIsNoRequest DEF Armed
<1>3. ~IsBcGet(Head(calls))
  <2>1. "control" # "bc" /\ "bcGet" \notin {"WRITE", "INIT"}
    BY SMT
  <2> QED
    BY <1>1, <2>1, Zenon DEF Armed, IsBcGet
<1> QED
  BY <1>1, <1>2, <1>3 DEF BcNow, Current

(* Taking a command keeps EnableInv. *)
LEMMA EnableTake ==
    ASSUME BaseInv, EnableInv, Take
    PROVE  EnableInv'
<1>1. /\ op # NoOp /\ pending = None /\ status = "OPEN"
      /\ UNCHANGED <<req, calls, script, status, op, clean>>
      /\ enabler' = IF op.cmd = "ENABLE" THEN req.who ELSE enabler
      /\ pending' = IF Store!Programs(op) /\ wen THEN Store!NewContents ELSE None
      /\ wen' = IF op.cmd \in {"ENABLE", "DISABLE"} THEN op.cmd = "ENABLE" ELSE wen
  BY DEF Take, Store!Take, Store!Issued
<1>2. op \in AllOps /\ script # <<>>
  BY <1>1, OpFacts DEF BaseInv
<1>3. calls # <<>>
  BY <1>2, ScriptFacts DEF BaseInv
<1>4. op.cmd \in {"READ", "WRITE", "ENABLE", "DISABLE", "Init", "Open", "Shutdown"}
  BY <1>2, OpIndex
<1>5. op.cmd # "WRITE" => pending' = None
  <2>1. Store!Programs(op) => op.cmd = "WRITE"
    BY <1>4, SMT DEF Store!Programs
  <2> QED
    BY <1>1, <2>1, Zenon
<1>6. CASE op.cmd = "ENABLE"
  <2>1. ~BcNow
    BY <1>1, <1>6, OpFacts, SMT DEF BaseInv
  <2>2. req \in Request /\ req.attr # "access" /\ Head(calls) = "WRITE"
    BY <1>1, <1>6, <2>1, OpFacts DEF BaseInv
  <2>3. req.who \in {"ioctl", "internal"} /\ req.attr = "control"
        /\ req # ReadBoardConfig
    BY <1>3, <2>2, BootIsNoRequest, RequestFacts, SMT DEF BaseInv
  <2>4. ASSUME req.who = "ioctl" PROVE calls = <<"WRITE", "INIT", "SHUTDOWN">>
    <3>1. calls \in CallsOf(req)
      BY <1>3, RequestFacts DEF BaseInv
    <3>2. calls \in {<<"WRITE", "INIT", "SHUTDOWN">>, <<"INIT", "SHUTDOWN">>,
                     <<"SHUTDOWN">>, <<>>}
      BY <2>3, <2>4, <3>1, Zenon DEF CallsOf
    <3>3. Head(<<"INIT", "SHUTDOWN">>) # "WRITE" /\ Head(<<"SHUTDOWN">>) # "WRITE"
      BY SMT
    <3> QED
      BY <1>3, <2>2, <3>2, <3>3, Zenon
  <2>5. enabler' = req.who /\ pending' = None
    BY <1>1, <1>5, <1>6, Zenon
  <2>6. enabler' # "none"
    BY <2>3, <2>5, SMT
  <2>7. enabler' = "ioctl" => Armed'
    BY <1>1, <2>2, <2>3, <2>4, <2>5, Zenon DEF Armed
  <2> QED
    BY <2>6, <2>7 DEF EnableInv
<1>7. CASE op.cmd = "DISABLE"
  <2>1. ~wen'
    BY <1>1, <1>7, Zenon
  <2> QED
    BY <2>1 DEF EnableInv
<1>8. CASE op.cmd = "WRITE"
  <2>1. wen' = wen /\ enabler' = enabler
    BY <1>1, <1>8, Zenon
  <2>2. ~BcNow
    BY <1>1, <1>8, OpFacts, SMT DEF BaseInv
  <2>3. req.attr = "access"
    BY <1>1, <1>8, <2>2, OpFacts DEF BaseInv
  <2>4. ~Armed
    BY <2>3, SMT DEF Armed
  <2> QED
    BY <2>1, <2>4 DEF EnableInv
<1>9. CASE op.cmd \notin {"ENABLE", "DISABLE", "WRITE"}
  <2>1. wen' = wen /\ enabler' = enabler /\ pending' = None
    BY <1>1, <1>5, <1>9, Zenon
  <2>2. Armed => Armed'
    BY <1>1, <2>1 DEF Armed, DisableToCome
  <2> QED
    BY <2>1, <2>2 DEF EnableInv
<1> QED
  BY <1>6, <1>7, <1>8, <1>9, Zenon

(* The scripts that begin with a method of one script only. *)
LEMMA EnterScript ==
    ASSUME Enter
    PROVE  /\ Head(calls) = "INIT" => script' = <<Init_, Open_, Disable_, NoOp>>
           /\ Head(calls) = "SHUTDOWN" => script' = <<Shut_, NoOp>>
<1>1. script' = Append(Script(Head(calls)), NoOp)
  BY DEF Enter
<1>2. CASE Head(calls) = "INIT"
  <2>1. Script(Head(calls)) = ControlInit
    BY <1>2, Zenon DEF Script
  <2> QED
    BY <1>1, <1>2, <2>1, AppendTuples, Zenon DEF ControlInit, Init_, Open_, Disable_
<1>3. CASE Head(calls) = "SHUTDOWN"
  <2>1. Script(Head(calls)) = ControlShutdown
    BY <1>3, Zenon DEF Script
  <2> QED
    BY <1>1, <1>3, <2>1, AppendTuples, Zenon DEF ControlShutdown, Shut_
<1> QED
  BY <1>2, <1>3

(* The return of a driver call keeps EnableInv: INIT comes to its DISABLE, *)
(* and that has taken effect when it returns.                              *)
LEMMA EnableReturn ==
    ASSUME BaseInv, EnableInv, NEW ret \in Store!Errors,
           NEW data \in Words \cup {None}, Return(ret, data)
    PROVE  EnableInv'
<1>1. /\ op # NoOp /\ op' = NoOp /\ ret # "EXISTS" /\ op.ndx = 0
      /\ Store!CanReturn(ret, data, status')
      /\ UNCHANGED <<mem, wen, pending>>
      /\ UNCHANGED <<req, calls, enabler>>
      /\ script # <<>> /\ script # <<NoOp>>
  BY ReturnFacts DEF BaseInv
<1>2. SUFFICES ASSUME wen, enabler = "ioctl" PROVE Armed'
  BY <1>1 DEF EnableInv
<1>3. Armed
  BY <1>2 DEF EnableInv
<1>4. CASE calls = <<"WRITE", "INIT", "SHUTDOWN">>
  BY <1>1, <1>3, <1>4 DEF Armed
<1>5. CASE calls = <<"INIT", "SHUTDOWN">> /\ DisableToCome
  <2>1. /\ ret # "OK" => script' = <<NoOp>>
        /\ ret = "OK" => script' = Tail(script)
    BY <1>3, ArmedFacts, OtherReturn DEF BaseInv
  <2>2. op = Head(script)
    BY <1>1, OpFacts DEF BaseInv
  <2>3. SUFFICES DisableToCome'
    BY <1>1, <1>3, <1>5 DEF Armed
  <2>4. /\ op.cmd = "Init" => ret = "OK" /\ status' = "INITIALISED"
        /\ op.cmd = "Open" /\ status = "INITIALISED" => ret = "OK" /\ status' = "OPEN"
        /\ op.cmd = "DISABLE" /\ status = "OPEN" /\ clean => taken
    <3>1. op.cmd = "DISABLE" /\ status = "OPEN" => ret = "OK"
      BY <1>1, SMT DEF Store!CanReturn, Store!Issued, Store!Programs
    <3> QED
      BY <1>1, <3>1, CanReturnFacts, SMT
  <2>5. Init_.cmd = "Init" /\ Open_.cmd = "Open" /\ Disable_.cmd = "DISABLE"
    BY OpFields DEF Init_, Open_, Disable_
  <2>6. CASE script = <<Init_, Open_, Disable_, NoOp>>
    <3>1. op = Init_ /\ Tail(script) = <<Open_, Disable_, NoOp>>
      BY <2>2, <2>6, TupleFacts, Zenon
    <3> QED
      BY <2>1, <2>4, <2>5, <3>1, Zenon DEF DisableToCome
  <2>7. CASE script = <<Open_, Disable_, NoOp>> /\ status = "INITIALISED"
    <3>1. op = Open_ /\ Tail(script) = <<Disable_, NoOp>>
      BY <2>2, <2>7, TupleFacts, Zenon
    <3> QED
      BY <1>1, <2>1, <2>4, <2>5, <2>7, <3>1, Zenon DEF DisableToCome
  <2>8. CASE script = <<Disable_, NoOp>> /\ status = "OPEN" /\ (op # NoOp => clean)
    <3>1. op = Disable_ /\ clean /\ taken
      BY <1>1, <2>2, <2>4, <2>5, <2>8, TupleFacts, Zenon
    <3>2. wen = (op.cmd = "ENABLE")
      BY <1>1, <2>5, <3>1, Zenon DEF BaseInv, SP!StoreInv, SP!RunningInv
    <3>3. ~wen
      BY <2>5, <3>1, <3>2, Zenon
    <3> QED
      BY <1>2, <3>3
  <2> QED
    BY <1>1, <1>5, <2>6, <2>7, <2>8 DEF DisableToCome
<1> QED
  BY <1>3, <1>4, <1>5 DEF Armed

(* Every step keeps EnableInv. *)
LEMMA EnableStep ==
    ASSUME BaseInv, EnableInv, [Next]_vars
    PROVE  EnableInv'
<1>1. CASE UNCHANGED vars
  BY <1>1 DEF EnableInv, Armed, DisableToCome, vars, store, entity
<1>2. ASSUME NEW r \in Requests, Serve(r) PROVE EnableInv'
  <2>1. req = None /\ UNCHANGED <<wen, enabler>>
    BY <1>2 DEF Serve, store
  <2>2. ~Armed
    BY <2>1, ArmedFacts
  <2> QED
    BY <2>1, <2>2 DEF EnableInv
<1>3. CASE Enter
  <2>1. /\ script = <<>>
        /\ UNCHANGED <<wen, enabler, pending, req, calls, status, op, clean>>
    BY <1>3 DEF Enter, store
  <2>2. calls = <<"INIT", "SHUTDOWN">> => script' = <<Init_, Open_, Disable_, NoOp>>
    BY <1>3, EnterScript, TupleFacts, Zenon
  <2>3. Armed => Armed'
    BY <2>1, <2>2 DEF Armed, DisableToCome
  <2> QED
    BY <2>1, <2>3 DEF EnableInv
<1>4. CASE Driver
  <2>1. /\ UNCHANGED <<wen, enabler, pending, req, calls, script, status>>
        /\ clean' = (pending = None)
    BY <1>4 DEF Driver, entity, Store!Call
  <2>2. Armed => Armed'
    BY <2>1, Zenon DEF Armed, DisableToCome
  <2> QED
    BY <2>1, <2>2 DEF EnableInv
<1>5. CASE Settle
  <2>1. pending # None /\ UNCHANGED <<wen, enabler>>
    BY <1>5 DEF Settle, Store!Settle, entity
  <2> QED
    BY <2>1 DEF EnableInv, Armed
<1>6. CASE Leave
  <2>1. /\ script = <<NoOp>> /\ script' = <<>> /\ calls' = Tail(calls)
        /\ UNCHANGED <<wen, enabler, pending, req>>
    BY <1>6 DEF Leave, store
  <2>2. ~DisableToCome
    BY <2>1, TupleFacts, Zenon DEF DisableToCome
  <2>3. calls = <<"WRITE", "INIT", "SHUTDOWN">> => calls' = <<"INIT", "SHUTDOWN">>
    BY <2>1, TupleFacts, Zenon
  <2>4. Armed => Armed'
    BY <2>1, <2>2, <2>3 DEF Armed, DisableToCome
  <2> QED
    BY <2>1, <2>4 DEF EnableInv
<1>7. CASE Done
  <2>1. calls = <<>> /\ UNCHANGED <<wen, enabler>>
    BY <1>7 DEF Done, store
  <2>2. ~Armed
    BY <2>1, ArmedFacts
  <2> QED
    BY <2>1, <2>2 DEF EnableInv
<1>8. ASSUME NEW ret \in Store!Errors, NEW data \in Words \cup {None},
             Return(ret, data)
      PROVE  EnableInv'
  BY <1>8, EnableReturn
<1> QED
  BY <1>1, <1>2, <1>3, <1>4, <1>5, <1>6, <1>7, <1>8, EnableTake DEF Next

(* No ioctl programs a word that code of the BSP process did not enable.   *)
THEOREM UnaidedCorrect == Spec => IoctlNeverProgramsUnaided
<1> DEFINE Step == pending' # pending /\ pending' # None /\ req.who = "ioctl"
                     => enabler = "internal"
           Inv == BaseInv /\ EnableInv
<1>1. Init => Inv
  <2>1. Init => EnableInv
    BY DEF Init, Store!Init, EnableInv
  <2> QED
    BY <2>1, BaseInitial
<1>2. Inv /\ [Next]_vars => Inv'
  BY BaseStep, EnableStep
<1>3. Inv /\ [Next]_vars => [Step]_vars
  <2> SUFFICES ASSUME BaseInv, EnableInv, [Next]_vars, pending' # pending,
                      pending' # None
               PROVE  enabler = "internal"
    OBVIOUS
  <2>1. CASE UNCHANGED store
    BY <2>1 DEF store
  <2>2. CASE Take
    <3>1. /\ op # NoOp /\ Store!Programs(op) /\ wen
      BY <2>2 DEF Take, Store!Take, Store!Issued
    <3>2. op \in AllOps
      BY <3>1, OpFacts DEF BaseInv
    <3>3. op.cmd = "WRITE"
      BY <3>1, <3>2, OpIndex, SMT DEF Store!Programs
    <3>4. ~BcNow
      BY <3>1, <3>3, OpFacts, SMT DEF BaseInv
    <3>5. req.attr = "access"
      BY <3>1, <3>3, <3>4, OpFacts DEF BaseInv
    <3>6. ~Armed
      BY <3>5, SMT DEF Armed
    <3>7. enabler \in {"none", "ioctl", "internal"}
      BY DEF BaseInv, EntityInv, FlagsInv
    <3> QED
      BY <3>1, <3>6, <3>7, Zenon DEF EnableInv
  <2>3. CASE Settle
    BY <2>3 DEF Settle, Store!Settle
  <2>4. CASE Driver
    BY <2>4 DEF Driver, Store!Call
  <2>5. ASSUME NEW ret, NEW data, Return(ret, data) PROVE FALSE
    BY <2>5, Zenon DEF Return, Store!Return
  <2>6. ASSUME NEW r \in Requests, Serve(r) PROVE UNCHANGED store
    BY <2>6 DEF Serve
  <2>7. ASSUME Enter \/ Leave \/ Done PROVE UNCHANGED store
    BY <2>7 DEF Enter, Leave, Done
  <2>8. CASE UNCHANGED vars
    BY <2>1, <2>8 DEF vars
  <2> QED
    BY <2>1, <2>2, <2>3, <2>4, <2>5, <2>6, <2>7, <2>8, Zenon DEF Next
<1> QED
  BY <1>1, <1>2, <1>3, PTL DEF Spec, IoctlNeverProgramsUnaided

----------------------------------------------------------------------------
(* The return of a driver call keeps LostInv: only INIT, and bcInit when   *)
(* nothing is initialised yet, open the driver, and SHUTDOWN closes it.    *)
LEMMA LostReturn ==
    ASSUME BaseInv, LostInv, NEW ret \in Store!Errors,
           NEW data \in Words \cup {None}, Return(ret, data)
    PROVE  LostInv'
<1>1. /\ op # NoOp /\ ret # "EXISTS" /\ op.ndx = 0
      /\ op.cmd \in {"READ", "WRITE", "ENABLE", "DISABLE",
                     "Init", "Open", "Shutdown"}
      /\ Store!CanReturn(ret, data, status')
      /\ UNCHANGED <<req, calls, bc_initialised, lost>>
      /\ script # <<>> /\ script # <<NoOp>> /\ calls # <<>>
      /\ Current = Head(calls) /\ (BcNow <=> IsBcGet(Head(calls)))
      /\ got' = IF ret = "OK" /\ data # None THEN Append(got, data) ELSE got
  BY ReturnFacts DEF BaseInv
<1>2. Current' = Current
  BY <1>1 DEF Current
<1>3. ASSUME lost' /\ status' = "OPEN" PROVE Current = "INIT"
  <2>1. lost /\ bc_initialised
    BY <1>1, <1>3 DEF LostInv
  <2>2. CASE status = "OPEN"
    BY <2>1, <2>2 DEF LostInv
  <2>3. CASE status # "OPEN"
    <3>1. op.cmd = "Open"
      BY <1>1, <1>3, <2>3, CanReturnFacts, SMT
    <3>2. ~BcNow
      BY <1>1, <3>1, OpFacts, SMT DEF BaseInv
    <3>3. Head(calls) = "INIT"
      BY <1>1, <2>1, <3>1, <3>2, OpFacts, Zenon DEF BaseInv
    <3> QED
      BY <1>1, <3>3
  <2> QED
    BY <2>2, <2>3
<1>4. ASSUME Current = "SHUTDOWN" PROVE status' # "OPEN"
  <2>1. ~BcNow
    <3>1. req # ReadBoardConfig /\ req.attr # "bc"
      BY <1>1, <1>4, RequestFacts, SMT DEF BaseInv
    <3> QED
      BY <1>1, <1>4, <3>1, SMT DEF IsBcGet
  <2>2. script \in {<<Shut_, NoOp>>, <<NoOp>>}
    <3>1. script \in Rests("SHUTDOWN", req)
      BY <1>1, <1>4, <2>1, OtherReturn DEF BaseInv
    <3> QED
      BY <3>1, Zenon DEF Rests
  <2>3. op = Head(script)
    BY <1>1, OpFacts DEF BaseInv
  <2>4. op = Shut_
    BY <1>1, <2>2, <2>3, TupleFacts, Zenon
  <2>5. op.cmd = "Shutdown"
    BY <2>4, OpFields DEF Shut_
  <2> QED
    BY <1>1, <2>5, CanReturnFacts
<1>5. ASSUME lost, req = ReadBoardConfig
      PROVE  config'.ret \in {"None", "NOTREADY"} /\ got' = <<>>
  <2>1. config.ret \in {"None", "NOTREADY"} /\ got = <<>>
    BY <1>5 DEF LostInv
  <2>2. status # "OPEN"
    <3>1. Current \in {"bcInit", "bcGet"}
      BY <1>1, <1>5, RequestFacts DEF BaseInv
    <3> QED
      BY <1>5, <3>1, SMT DEF LostInv
  <2>3. CASE BcNow
    <3>1. ret = "NOTREADY"
      BY <1>1, <2>2, <2>3, OpFacts, CanReturnFacts, SMT DEF BaseInv
    <3>2. /\ got' = got
          /\ config' = [ret |-> ret, words |-> config.words,
                        clean |-> (config.clean /\ clean)]
      <4>1. ret # "OK"
        BY <3>1, SMT
      <4> QED
        BY <2>3, <4>1, BcReturn, Zenon DEF BaseInv
    <3>3. config'.ret = ret
      BY <3>2, Zenon
    <3> QED
      BY <2>1, <3>1, <3>2, <3>3
  <2>4. CASE ~BcNow
    <3>1. config' = config
      BY <2>4, OtherReturn DEF BaseInv
    <3>2. op.cmd # "READ"
      <4>1. req \notin Request
        BY <1>5, BootIsNoRequest
      <4> QED
        BY <1>1, <2>4, <4>1, OpFacts, SMT DEF BaseInv
    <3>3. data = None
      BY <1>1, <3>2, CanReturnFacts
    <3> QED
      BY <1>1, <2>1, <3>1, <3>3, Zenon
  <2> QED
    BY <2>3, <2>4
<1> QED
  BY <1>1, <1>2, <1>3, <1>4, <1>5, Zenon DEF LostInv

(* The end of a method keeps LostInv. *)
LEMMA LostLeave ==
    ASSUME BaseInv, LostInv, Leave
    PROVE  LostInv'
<1>1. /\ script = <<NoOp>> /\ script' = <<>> /\ got' = <<>>
      /\ UNCHANGED <<status, req>>
      /\ calls' = Tail(calls)
      /\ bc_initialised' = (bc_initialised \/ Current = "bcInit")
      /\ lost' = IF Current = "INIT" THEN FALSE
                 ELSE IF Current = "SHUTDOWN" /\ req.who = "ioctl" THEN TRUE
                 ELSE lost
      /\ ~(IsBcGet(Current) /\ config.ret = "None") => config' = config
  BY DEF Leave, store
<1>2. script # <<>> /\ calls # <<>> /\ Current = Head(calls)
  BY <1>1, TupleFacts, ScriptFacts, RequestFacts, Zenon DEF BaseInv
<1>3. bc_initialised'
  <2>1. CASE bc_initialised
    BY <1>1, <2>1, Zenon
  <2>2. CASE ~bc_initialised
    <3>1. calls = <<"bcInit", "bcGet">>
      BY <2>2 DEF LostInv
    <3>2. Current = "bcInit"
      BY <1>2, <3>1, SMT
    <3> QED
      BY <1>1, <3>2, Zenon
  <2> QED
    BY <2>1, <2>2
<1>4. lost' => status # "OPEN"
  <2>1. CASE Current = "INIT"
    BY <1>1, <2>1, Zenon
  <2>2. CASE Current = "SHUTDOWN"
    BY <1>1, <2>2 DEF LostInv
  <2>3. CASE Current # "INIT" /\ Current # "SHUTDOWN"
    BY <1>1, <2>3, Zenon DEF LostInv
  <2> QED
    BY <2>1, <2>2, <2>3
<1>5. script' # <<NoOp>>
  BY <1>1, TupleFacts
<1>6. ASSUME lost', req = ReadBoardConfig
      PROVE  config'.ret \in {"None", "NOTREADY"}
  <2>1. Current \in {"bcInit", "bcGet"}
    BY <1>2, <1>6, RequestFacts DEF BaseInv
  <2>2. Current # "INIT" /\ Current # "SHUTDOWN"
    BY <2>1, SMT
  <2>3. lost
    BY <1>1, <1>6, <2>2, Zenon
  <2>4. config.ret \in {"None", "NOTREADY"} /\ got = <<>>
    BY <1>6, <2>3 DEF LostInv
  <2>5. IsBcGet(Current) => config.ret # "None"
    <3>1. IsBcGet(Current) => BcScript
      BY <1>2 DEF BaseInv, EntityInv, ScriptInv, BcNow
    <3> QED
      BY <1>1, <2>4, <3>1, TupleFacts, Zenon DEF BcScript
  <2> QED
    BY <1>1, <2>4, <2>5
<1> QED
  BY <1>1, <1>3, <1>4, <1>5, <1>6, Zenon DEF LostInv

(* Every step keeps LostInv. *)
LEMMA LostStep ==
    ASSUME BaseInv, LostInv, [Next]_vars
    PROVE  LostInv'
<1>0. "INIT" # "none" /\ "SHUTDOWN" # "none"
  BY SMT
<1>1. ASSUME UNCHANGED <<status, req, calls, script, got, bc_initialised, lost, config>>
      PROVE  LostInv'
  BY <1>1 DEF LostInv, Current
<1>2. CASE UNCHANGED vars
  BY <1>1, <1>2 DEF vars, store, entity
<1>3. ASSUME NEW r \in Requests, Serve(r) PROVE LostInv'
  <2>1. /\ req = None /\ req' = r /\ config' = NoConfig
        /\ UNCHANGED <<status, script, got, bc_initialised, lost>>
    BY <1>3 DEF Serve, store
  <2>2. calls = <<>> /\ script = <<>> /\ got = <<>> /\ Current = "none"
    BY <2>1 DEF BaseInv, EntityInv, CallsInv, Current
  <2>3. bc_initialised
    <3>1. req # ReadBoardConfig
      BY <2>1, EEAssumption
    <3> QED
      BY <3>1 DEF LostInv
  <2>4. lost => status # "OPEN"
    BY <1>0, <2>2, Zenon DEF LostInv
  <2>5. NoConfig.ret = "None"
    BY SMT DEF NoConfig
  <2>6. script' # <<NoOp>>
    BY <2>1, <2>2, TupleFacts
  <2> QED
    BY <2>1, <2>2, <2>3, <2>4, <2>5, <2>6, Zenon DEF LostInv
<1>4. CASE Enter
  <2>1. /\ calls # <<>> /\ got = <<>>
        /\ config' = IF IsBcGet(Head(calls)) THEN [NoConfig EXCEPT !.clean = TRUE]
                                             ELSE config
        /\ UNCHANGED <<status, req, calls, got, bc_initialised, lost>>
    BY <1>4 DEF Enter, store
  <2>2. Current' = Current /\ Current = Head(calls)
    BY <2>1 DEF Current
  <2>3. Current = "SHUTDOWN" => script' # <<NoOp>>
    BY <1>4, <2>2, EnterScript, TupleFacts, Zenon
  <2>4. config'.ret = "None" \/ config' = config
    <3>1. [NoConfig EXCEPT !.clean = TRUE].ret = "None"
      BY SMT DEF NoConfig
    <3> QED
      BY <2>1, <3>1, Zenon
  <2> QED
    BY <2>1, <2>2, <2>3, <2>4, Zenon DEF LostInv
<1>5. CASE Driver
  BY <1>1, <1>5 DEF Driver, entity, Store!Call
<1>6. CASE Take
  BY <1>1, <1>6 DEF Take, Store!Take
<1>7. CASE Settle
  BY <1>1, <1>7 DEF Settle, Store!Settle, entity
<1>8. CASE Done
  <2>1. /\ calls = <<>> /\ req' = None
        /\ UNCHANGED <<status, calls, script, got, bc_initialised, lost, config>>
    BY <1>8 DEF Done, store
  <2>2. bc_initialised
    <3>1. <<>> # <<"bcInit", "bcGet">>
      BY SMT
    <3> QED
      BY <2>1, <3>1 DEF LostInv
  <2>3. Current' = Current
    BY <2>1 DEF Current
  <2>4. None # ReadBoardConfig
    BY EEAssumption
  <2> QED
    BY <2>1, <2>2, <2>3, <2>4, Zenon DEF LostInv
<1>9. ASSUME NEW ret \in Store!Errors, NEW data \in Words \cup {None},
             Return(ret, data)
      PROVE  LostInv'
  BY <1>9, LostReturn
<1> QED
  BY <1>2, <1>3, <1>4, <1>5, <1>6, <1>7, <1>8, <1>9, LostLeave DEF Next

(* After a control ioctl the driver is not open between requests, and      *)
(* bspReadBoardConfig fails with NOTREADY, until INIT runs alone.          *)
THEOREM ServiceCorrect == Spec => []ControlIoctlEndsService
<1> DEFINE Inv == BaseInv /\ LostInv
<1>1. Init => Inv
  <2>1. Init => LostInv
    <3> SUFFICES ASSUME Init PROVE LostInv
      OBVIOUS
    <3>1. /\ req = ReadBoardConfig /\ calls = <<"bcInit", "bcGet">>
          /\ script = <<>> /\ lost = FALSE
      BY DEF Init
    <3>2. script # <<NoOp>>
      BY <3>1, TupleFacts
    <3> QED
      BY <3>1, <3>2, Zenon DEF LostInv
  <2> QED
    BY <2>1, BaseInitial
<1>2. Inv /\ [Next]_vars => Inv'
  BY BaseStep, LostStep
<1>3. Inv => ControlIoctlEndsService
  <2> SUFFICES ASSUME BaseInv, LostInv PROVE ControlIoctlEndsService
    OBVIOUS
  <2>1. req = None => Current = "none"
    BY DEF BaseInv, EntityInv, CallsInv, Current
  <2>2. "none" # "INIT"
    BY SMT
  <2> QED
    BY <2>1, <2>2, Zenon DEF LostInv, ControlIoctlEndsService
<1> QED
  BY <1>1, <1>2, <1>3, PTL DEF Spec

----------------------------------------------------------------------------
(* A READ that found the chip idle returns the word in it. *)
LEMMA CleanRead ==
    ASSUME BaseInv, NEW ret \in Store!Errors, NEW data \in Words \cup {None},
           Return(ret, data), ret = "OK", op.cmd = "READ", clean
    PROVE  data = mem[op.addr] /\ pending = None
<1>1. op # NoOp /\ op.ndx = 0 /\ Store!CanReturn(ret, data, status')
  BY ReturnFacts DEF BaseInv
<1>2. taken /\ data = latched
  BY <1>1, CanReturnFacts
<1>3. latched = mem[op.addr] /\ pending = None
  BY <1>1, <1>2 DEF BaseInv, SP!StoreInv, SP!RunningInv
<1> QED
  BY <1>2, <1>3

(* The return of a driver call keeps GenuineInv. *)
LEMMA GenuineReturn ==
    ASSUME BaseInv, GenuineInv, NEW ret \in Store!Errors,
           NEW data \in Words \cup {None}, Return(ret, data)
    PROVE  GenuineInv'
<1>1. /\ op # NoOp /\ UNCHANGED <<mem, wen, pending>>
      /\ UNCHANGED <<req, calls>> /\ calls # <<>> /\ script # <<>>
      /\ BcNow <=> IsBcGet(Head(calls))
  BY ReturnFacts DEF BaseInv
<1>2. config.ret # "OK"
  BY <1>1 DEF GenuineInv
<1>3. BcNow' => BcNow
  BY <1>1 DEF BcNow, IsBcGet
<1>4. CASE ~BcNow
  <2>1. config' = config
    BY <1>4, OtherReturn DEF BaseInv
  <2> QED
    BY <1>2, <1>3, <1>4, <2>1 DEF GenuineInv
<1>5. CASE BcNow
  <2> DEFINE cl == config.clean /\ clean
  <2>1. op.cmd = "READ"
    BY <1>1, <1>5, OpFacts DEF BaseInv
  <2>2. ASSUME NEW q,
               config' = [ret |-> q, words |-> config.words, clean |-> cl]
        PROVE  config'.ret = q /\ (config'.clean => config.clean /\ clean)
    <3> HIDE DEF cl
    <3>1. config'.ret = q /\ config'.clean = cl
      BY <2>2, SMT
    <3> QED
      BY <3>1, Zenon DEF cl
  <2> HIDE DEF cl
  <2>3. SUFFICES /\ config'.ret # "OK"
                 /\ config'.clean /\ got' # <<>> => ReadSoFar'
    BY Zenon DEF GenuineInv
  <2>4. "NOTREADY" # "OK" /\ "INVALID" # "OK" /\ "None" # "OK"
    BY SMT
  <2>5. CASE /\ ret = "NOTREADY" /\ got' = got
             /\ config' = [ret |-> ret, words |-> config.words, clean |-> cl]
    <3>1. config'.ret = ret /\ (config'.clean => config.clean)
      BY <2>2, <2>5
    <3>2. config'.clean /\ got' # <<>> => ReadSoFar
      BY <1>5, <2>5, <3>1 DEF GenuineInv
    <3>3. ReadSoFar => ReadSoFar'
      BY <1>1, <2>5 DEF ReadSoFar
    <3> QED
      BY <2>4, <2>5, <3>1, <3>2, <3>3, Zenon
  <2>6. ASSUME NEW q \in {"INVALID", "None"}, ret = "OK", got' = <<data>>,
               op = ReadOp(BcBase + 2),
               config' = [ret |-> q, words |-> config.words, clean |-> cl]
        PROVE  /\ config'.ret # "OK"
               /\ config'.clean /\ got' # <<>> => ReadSoFar'
    <3>1. config'.ret = q /\ (config'.clean => clean)
      BY <2>2, <2>6
    <3>2. op.addr = BcBase + 2
      BY <2>6, OpFields
    <3>3. config'.clean => data = mem[BcBase + 2] /\ pending = None
      BY <2>1, <2>6, <3>1, <3>2, CleanRead
    <3>4. got'[1] = data /\ Len(got') = 1
      BY <2>6, SMT
    <3>5. 1 .. 1 - 1 = {}
      BY SMT
    <3>6. config'.clean => ReadSoFar'
      BY <1>1, <3>3, <3>4, <3>5 DEF ReadSoFar
    <3> QED
      BY <2>4, <3>1, <3>6, Zenon
  <2>7. CASE /\ ret = "OK" /\ data \in Words /\ got # <<>>
             /\ got' = Append(got, data)
             /\ op = ReadOp(BcBase + Len(got) - 1)
             /\ config' = [ret |-> "None", words |-> config.words, clean |-> cl]
    <3>1. config'.ret = "None" /\ (config'.clean => config.clean /\ clean)
      BY <2>2, <2>7
    <3>2. op.addr = BcBase + Len(got) - 1
      BY <2>7, OpFields
    <3>3. config'.clean => /\ data = mem[BcBase + Len(got) - 1] /\ pending = None
                           /\ ReadSoFar
      BY <1>5, <2>1, <2>7, <3>1, <3>2, CleanRead DEF GenuineInv
    <3>4. PICK k \in Nat : k = Len(got) /\ k >= 1 /\ got \in Seq(Words)
      BY <2>7, GotFacts DEF BaseInv, EntityInv, BoundsInv
    <3>5. /\ Len(got') = k + 1 /\ got'[k + 1] = data
          /\ \A i \in 1 .. k : got'[i] = got[i]
      BY <2>7, <3>4, AppendWord, Zenon
    <3>6. ASSUME config'.clean PROVE ReadSoFar'
      <4>1. got'[1] = mem[BcBase + 2] /\ pending = None
        BY <3>3, <3>4, <3>5, <3>6, SMT DEF ReadSoFar
      <4>2. ASSUME NEW i \in 1 .. k PROVE got'[i + 1] = mem[BcBase + i - 1]
        <5>1. CASE i = k
          BY <3>3, <3>4, <3>5, <3>6, <5>1
        <5>2. CASE i # k
          <6>1. i + 1 \in 1 .. k /\ i \in 1 .. k - 1
            BY <3>4, <5>2, SMT
          <6> QED
            BY <3>3, <3>4, <3>5, <3>6, <6>1, Zenon DEF ReadSoFar
        <5> QED
          BY <5>1, <5>2
      <4>3. Len(got') - 1 = k
        BY <3>4, <3>5, SMT
      <4> QED
        BY <1>1, <4>1, <4>2, <4>3, Zenon DEF ReadSoFar
    <3> QED
      BY <2>4, <3>1, <3>6, Zenon
  <2> QED
    BY <1>5, <2>5, <2>6, <2>7, BcReturn, Zenon DEF BaseInv, cl
<1> QED
  BY <1>4, <1>5

(* What bcGet copies out of data[]: the words, and for version 0 the       *)
(* vendor that it had not got yet.                                         *)
LEMMA CopiedValue ==
    ASSUME NEW c \in [1 .. BcMax -> Nat]
    PROVE  \A i \in 1 .. BcConfig :
             Copied(c)[i] = IF i = 5 /\ Copied(c)[4] = 0 THEN Unnamed ELSE c[i]
<1> DEFINE d == SubSeq(c, 1, BcConfig)
<1>0. BcConfig \in Nat /\ BcMax \in Nat /\ 4 < BcConfig /\ BcConfig <= BcMax
  BY EEAssumption
<1>1. c \in Seq(Nat) /\ Len(c) = BcMax
  BY <1>0, SMT
<1>2. /\ d \in Seq(Nat) /\ Len(d) = BcConfig
      /\ \A i \in 1 .. BcConfig : d[i] = c[i]
  BY <1>0, <1>1, SMT
<1>3. 4 \in 1 .. BcConfig /\ 5 \in 1 .. BcConfig /\ 4 # 5
  BY <1>0, SMT
<1>4. DOMAIN d = 1 .. BcConfig
  BY <1>2, LenProperties
<1>5. Copied(c) = IF d[4] = 0 THEN [d EXCEPT ![5] = Unnamed] ELSE d
  BY DEF Copied
<1> HIDE DEF d
<1>6. d = [i \in 1 .. BcConfig |-> d[i]]
  BY <1>2, <1>4
<1> QED
  BY <1>2, <1>3, <1>5, <1>6

(* A configuration that bcGet has read whole is the one in the chip. *)
LEMMA GenuineWords ==
    ASSUME BaseInv, ReadSoFar, got # <<>>, SizeWords(got[1]) <= BcMax,
           Len(got) = SizeWords(got[1]) + 1
    PROVE  LET w == Copied(Config(SizeWords(got[1])))
           IN  \A i \in 1..BcConfig :
                 w[i] = IF i = 5 /\ w[4] = 0 THEN Unnamed
                        ELSE IF i <= SizeWords(mem[BcBase + 2])
                          THEN mem[BcBase + i - 1] ELSE 0
<1>1. PICK n \in Nat : n = SizeWords(got[1])
  BY GotFacts DEF BaseInv, EntityInv
<1>2. /\ BcConfig \in Nat /\ BcMax \in Nat /\ BcConfig <= BcMax
      /\ Words \subseteq Nat
  BY EEAssumption
<1>3. got \in Seq(Words) /\ Len(got) = n + 1 /\ n <= BcMax
  BY <1>1 DEF BaseInv, EntityInv, BoundsInv
<1>4. n = SizeWords(mem[BcBase + 2])
  BY <1>1 DEF ReadSoFar
<1>5. \A i \in 1 .. n : got[i + 1] = mem[BcBase + i - 1] /\ got[i + 1] \in Nat
  <2>1. Len(got) - 1 = n
    BY <1>3, SMT
  <2>2. \A i \in 1 .. n : got[i + 1] = mem[BcBase + i - 1]
    BY <2>1 DEF ReadSoFar
  <2>3. ASSUME NEW i \in 1 .. n PROVE got[i + 1] \in Nat
    <3>1. i + 1 \in 1 .. Len(got)
      BY <1>3, SMT
    <3> QED
      BY <1>2, <1>3, <3>1, ElementOfSeq, Zenon
  <2> QED
    BY <2>2, <2>3
<1>6. Config(n) \in [1 .. BcMax -> Nat]
  BY <1>2, <1>3, <1>5, SMT DEF Config
<1>7. \A i \in 1 .. BcMax :
        Config(n)[i] = IF i <= n THEN mem[BcBase + i - 1] ELSE 0
  BY <1>3, <1>5, SMT DEF Config
<1>8. \A i \in 1 .. BcConfig : i \in 1 .. BcMax
  BY <1>2, SMT
<1>9. PICK w : w = Copied(Config(n))
  OBVIOUS
<1>10. \A i \in 1 .. BcConfig :
         w[i] = IF i = 5 /\ w[4] = 0 THEN Unnamed ELSE Config(n)[i]
  BY <1>6, <1>9, CopiedValue
<1>11. \A i \in 1 .. BcConfig :
         w[i] = IF i = 5 /\ w[4] = 0 THEN Unnamed
                ELSE IF i <= n THEN mem[BcBase + i - 1] ELSE 0
  BY <1>7, <1>8, <1>10, Zenon
<1> QED
  BY <1>1, <1>4, <1>9, <1>11

(* The end of a method keeps GenuineInv: bcGet has read all the words.     *)
LEMMA GenuineLeave ==
    ASSUME BaseInv, GenuineInv, Leave
    PROVE  GenuineInv'
<1>1. /\ script = <<NoOp>> /\ script' = <<>> /\ calls' = Tail(calls)
      /\ UNCHANGED <<mem, pending>>
      /\ IF IsBcGet(Current) /\ config.ret = "None"
           THEN BcCheck ELSE UNCHANGED config
  BY DEF Leave, store
<1>2. script # <<>> /\ calls # <<>> /\ Current = Head(calls)
  BY <1>1, TupleFacts, ScriptFacts, RequestFacts, Zenon DEF BaseInv
<1>3. ~BcNow'
  BY <1>1 DEF BcNow
<1>4. CASE UNCHANGED config
  <2>1. config.ret # "OK"
    BY <1>2 DEF GenuineInv
  <2> QED
    BY <1>3, <1>4, <2>1 DEF GenuineInv
<1>5. CASE IsBcGet(Current) /\ config.ret = "None" /\ BcCheck
  <2> DEFINE n == SizeWords(got[1])
  <2>1. PICK ret : config' = [config EXCEPT !.words = Copied(Config(n)), !.ret = ret]
    BY <1>5, Zenon DEF BcCheck
  <2>2. config = [ret |-> config.ret, words |-> config.words, clean |-> config.clean]
    BY DEF BaseInv, EntityInv, FlagsInv
  <2>3. PICK w : w = Copied(Config(n))
    OBVIOUS
  <2>4. config' = [ret |-> ret, words |-> w, clean |-> config.clean]
    BY <2>1, <2>2, <2>3, ConfigExcept
  <2>5. config'.words = w /\ config'.clean = config.clean
    BY <2>4, Zenon
  <2>6. BcNow /\ BcScript
    BY <1>2, <1>5 DEF BaseInv, EntityInv, ScriptInv, BcNow
  <2>7. /\ got # <<>> /\ n <= BcMax /\ Len(got) <= n + 1
        /\ script = Remaining(n, Len(got))
    BY <1>1, <1>5, <2>6, TupleFacts, Zenon DEF BcScript
  <2>8. Len(got) = n + 1
    <3>1. PICK j \in Nat, k \in Nat : j = n /\ k = Len(got) /\ k \in 1 .. j + 1
      BY <2>7, GotFacts, SMT DEF BaseInv, EntityInv
    <3>2. j <= BcMax /\ Len(Remaining(j, k)) = 1
      <4>1. Len(<<NoOp>>) = 1
        BY SMT
      <4> QED
        BY <1>1, <2>7, <3>1, <4>1
    <3>3. Len(Remaining(j, k)) = j + 2 - k
      BY <3>1, <3>2, RemainingSeq, Zenon
    <3> HIDE DEF n
    <3>4. k = j + 1
      <4>1. 1 = j + 2 - k
        BY <3>2, <3>3, Zenon
      <4> QED
        BY <4>1, SMT
    <3> QED
      BY <3>1, <3>4
  <2>9. config.clean => pending = None /\ Answered'
    <3> SUFFICES ASSUME config.clean PROVE pending = None /\ Answered'
      OBVIOUS
    <3>1. ReadSoFar
      BY <2>6, <2>7 DEF GenuineInv
    <3>2. \A i \in 1..BcConfig :
                 w[i] = IF i = 5 /\ w[4] = 0 THEN Unnamed
                        ELSE IF i <= SizeWords(mem[BcBase + 2])
                          THEN mem[BcBase + i - 1] ELSE 0
      BY <2>3, <2>7, <2>8, <3>1, GenuineWords, Zenon
    <3>3. Answered'
      BY <1>1, <2>5, <3>2, Zenon DEF Answered, SizeWords
    <3> QED
      BY <3>1, <3>3 DEF ReadSoFar
  <2>10. Tail(calls) = <<>>
    <3>1. calls \in CallsOf(req) /\ req \in Request \cup {ReadBoardConfig}
      BY <1>2, RequestFacts DEF BaseInv
    <3>2. CASE req = ReadBoardConfig
      <4>1. calls \in {<<"bcInit", "bcGet">>, <<"bcGet">>, <<>>}
        BY <3>1, <3>2, Zenon DEF CallsOf
      <4>2. Head(calls) = "bcGet"
        BY <1>2, <1>5, <3>2 DEF IsBcGet
      <4>3. Head(<<"bcInit", "bcGet">>) # "bcGet" /\ Tail(<<"bcGet">>) = <<>>
        BY SMT
      <4> QED
        BY <1>2, <4>1, <4>2, <4>3, Zenon
    <3>3. CASE req # ReadBoardConfig
      <4>1. req.attr = "bc"
        <5>1. Head(calls) # "bcGet"
          BY <1>2, <3>3, RequestFacts, SMT DEF BaseInv
        <5> QED
          BY <1>2, <1>5, <3>3, <5>1 DEF IsBcGet
      <4>2. calls \in {<<"READ">>, <<>>}
        BY <3>1, <3>3, <4>1, Zenon DEF CallsOf
      <4>3. Tail(<<"READ">>) = <<>>
        BY SMT
      <4> QED
        BY <1>2, <4>2, <4>3, Zenon
    <3> QED
      BY <3>2, <3>3
  <2> QED
    BY <1>1, <1>3, <2>5, <2>9, <2>10, Zenon DEF GenuineInv
<1> QED
  BY <1>1, <1>4, <1>5, Zenon

(* Every step keeps GenuineInv. *)
LEMMA GenuineStep ==
    ASSUME BaseInv, GenuineInv, [Next]_vars
    PROVE  GenuineInv'
<1>0. "None" # "OK"
  BY SMT
<1>1. ASSUME UNCHANGED <<mem, pending, entity>> PROVE GenuineInv'
  BY <1>1 DEF GenuineInv, ReadSoFar, Answered, BcNow, IsBcGet, entity
<1>2. CASE UNCHANGED vars
  BY <1>1, <1>2 DEF vars, store
<1>3. ASSUME NEW r \in Requests, Serve(r) PROVE GenuineInv'
  <2>1. req = None /\ config' = NoConfig /\ script' = script
    BY <1>3 DEF Serve
  <2>2. script = <<>>
    BY <2>1 DEF BaseInv, EntityInv, CallsInv
  <2>3. NoConfig.ret = "None"
    BY SMT DEF NoConfig
  <2> QED
    BY <1>0, <2>1, <2>2, <2>3 DEF GenuineInv, BcNow
<1>4. CASE Enter
  <2>1. /\ calls # <<>> /\ got' = <<>>
        /\ config' = IF IsBcGet(Head(calls)) THEN [NoConfig EXCEPT !.clean = TRUE]
                                             ELSE config
    BY <1>4 DEF Enter
  <2>2. [NoConfig EXCEPT !.clean = TRUE].ret = "None"
    BY SMT DEF NoConfig
  <2>3. config'.ret # "OK"
    BY <1>0, <2>1, <2>2, Zenon DEF GenuineInv
  <2> QED
    BY <2>1, <2>3 DEF GenuineInv
<1>5. CASE Driver
  BY <1>1, <1>5 DEF Driver, Store!Call
<1>6. CASE Take
  <2>1. /\ op # NoOp /\ pending = None
        /\ pending' = IF Store!Programs(op) /\ wen THEN Store!NewContents ELSE None
        /\ UNCHANGED <<mem, req, calls, script, got, config>>
    BY <1>6 DEF Take, Store!Take, Store!Issued
  <2>2. calls # <<>>
    BY <2>1, OpFacts, ScriptFacts DEF BaseInv
  <2>3. config'.ret # "OK"
    BY <2>1, <2>2 DEF GenuineInv
  <2>4. BcNow => pending' = None
    <3>1. BcNow => ~Store!Programs(op)
      <4>1. BcNow => op.cmd = "READ"
        BY <2>1, OpFacts DEF BaseInv
      <4> QED
        BY <4>1, SMT DEF Store!Programs
    <3> QED
      BY <2>1, <3>1, Zenon
  <2>5. BcNow' <=> BcNow
    BY <2>1 DEF BcNow, IsBcGet
  <2>6. ReadSoFar /\ pending' = None => ReadSoFar'
    BY <2>1 DEF ReadSoFar
  <2> QED
    BY <2>1, <2>3, <2>4, <2>5, <2>6 DEF GenuineInv
<1>7. CASE Settle
  <2>1. pending # None /\ UNCHANGED entity
    BY <1>7 DEF Settle, Store!Settle
  <2>2. ~ReadSoFar
    BY <2>1 DEF ReadSoFar
  <2> QED
    BY <2>1, <2>2 DEF GenuineInv, BcNow, IsBcGet, entity
<1>8. CASE Done
  <2>1. /\ calls = <<>> /\ UNCHANGED <<mem, pending, calls, script, got, config>>
    BY <1>8 DEF Done, store
  <2>2. script = <<>>
    BY <2>1 DEF BaseInv, EntityInv, CallsInv
  <2> QED
    BY <2>1, <2>2 DEF GenuineInv, BcNow, Answered
<1>9. ASSUME NEW ret \in Store!Errors, NEW data \in Words \cup {None},
             Return(ret, data)
      PROVE  GenuineInv'
  BY <1>9, GenuineReturn
<1> QED
  BY <1>2, <1>3, <1>4, <1>5, <1>6, <1>7, <1>8, <1>9, GenuineLeave DEF Next

(* A configuration that bcGet accepts, read without meeting a chip that is *)
(* busy behind the driver's back, is the one in the chip, for any CRC.     *)
THEOREM GenuineCorrect == Spec => []BcReadGenuine
<1> DEFINE Inv == BaseInv /\ GenuineInv
<1>1. Init => Inv
  <2>1. Init => GenuineInv
    <3> SUFFICES ASSUME Init PROVE GenuineInv
      OBVIOUS
    <3>1. script = <<>> /\ config = NoConfig
      BY DEF Init
    <3>2. NoConfig.ret # "OK"
      BY SMT DEF NoConfig
    <3> QED
      BY <3>1, <3>2 DEF GenuineInv, BcNow
  <2> QED
    BY <2>1, BaseInitial
<1>2. Inv /\ [Next]_vars => Inv'
  BY BaseStep, GenuineStep
<1>3. Inv => BcReadGenuine
  BY DEF GenuineInv, Answered, BcReadGenuine
<1> QED
  BY <1>1, <1>2, <1>3, PTL DEF Spec
============================================================================
