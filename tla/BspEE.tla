------------------------------- MODULE BspEE -------------------------------
(***************************************************************************)
(* The EE entity (entities/ee/bsp_ee.c) and the board configuration        *)
(* (libraries/bc) on top of the word store that the EEPROM driver          *)
(* promises.  A request is an ioctl of /dev/bsp, which runs the method it  *)
(* names and, falling through, the methods below it, or one method that    *)
(* code of the BSP process calls through bsp*Internal, or                  *)
(* bspReadBoardConfig, which runs at boot.  A method is a script of driver *)
(* calls that ends at the first error.  The client may use EE: BspServer   *)
(* shows that no other gets this far.  GPIO is registered, as main()       *)
(* serves no request otherwise, so that eepromDrvInit does not fail.       *)
(***************************************************************************)
EXTENDS Integers, Sequences

CONSTANTS Addrs, Words, ErasedWord, NoOp, None,
          Images,    \* the contents the EEPROM may have at boot
          Requests,  \* the requests that are made
          BcBase,    \* the address of the board configuration (0x1C)
          BcMax,     \* the words of data[] in bcGet (0x24)
          BcConfig,  \* the words of them in a BC_CONFIG (0x14)
          Unnamed,   \* the vendor of a version 0 configuration (0x5521)
          Crc(_)     \* the CRC of a sequence of words, as two words

VARIABLES status, op, clean, taken, mem, wen, pending, latched, answer,
          req,            \* the request being served, or None
          calls,          \* the methods it has still to run
          script,         \* the driver calls that the method has still to make
          got,            \* the words the method has read
          bc_initialised,
          config,         \* the last answer of bcGet
          enabler,        \* who set the write-enable latch
          lost            \* a control ioctl ended, and no INIT after it alone

store == <<status, op, clean, taken, mem, wen, pending, latched, answer>>
entity == <<req, calls, script, got, bc_initialised, config, enabler, lost>>
vars == <<store, entity>>

ReadOp(a) == [cmd |-> "READ", ndx |-> 0, addr |-> a, data |-> ErasedWord]
DriverOp(c) == [ReadOp(BcBase) EXCEPT !.cmd = c]
WriteOp(a, w) == [cmd |-> "WRITE", ndx |-> 0, addr |-> a, data |-> w]
Store == INSTANCE EepromStore WITH
            Ops <- {ReadOp(a) : a \in Addrs}
                   \cup {WriteOp(a, w) : a \in Addrs, w \in Words}
                   \cup {DriverOp(c) : c \in {"Init", "Open", "Shutdown",
                                              "ENABLE", "DISABLE"}}

Request == [who : {"ioctl", "internal"}, attr : {"access", "control", "bc"},
            method : {"READ", "WRITE", "INIT", "SHUTDOWN"},
            addr : Addrs, data : Words, sizeOk : BOOLEAN]
ReadBoardConfig == [who |-> "boot"]

ASSUME EEAssumption ==
    /\ Images \subseteq [Addrs -> Words] /\ Images # {}
    /\ Requests \subseteq Request \cup {ReadBoardConfig}
    /\ Words \subseteq Nat /\ {ErasedWord, Unnamed} \subseteq Words
    /\ BcBase \in Nat /\ BcMax \in Nat /\ BcConfig \in Nat
    /\ BcBase .. BcBase + BcMax - 1 \subseteq Addrs
    /\ 4 < BcConfig /\ BcConfig <= BcMax
    /\ NoOp \notin Store!Operation
    /\ None \notin Words \cup Store!Memory \cup Request \cup {ReadBoardConfig}

NoConfig == [ret |-> "None", words |-> <<>>, clean |-> FALSE]

Init ==
    /\ Store!Init /\ mem \in Images
    /\ req = ReadBoardConfig /\ calls = <<"bcInit", "bcGet">>
    /\ script = <<>> /\ got = <<>>
    /\ bc_initialised = FALSE /\ config = NoConfig
    /\ enabler = "none" /\ lost = FALSE

----------------------------------------------------------------------------
Methods == [access  |-> {"READ", "WRITE"},
            control |-> {"WRITE", "INIT", "SHUTDOWN"},
            bc      |-> {"READ"}]

(* The places of the cases in the switch, none of which ends in a break. *)
Cases == [READ |-> 1, WRITE |-> 2, INIT |-> 3, SHUTDOWN |-> 4]
OnlyOwnCase(r) == {r.method}   \* mutant: the cases of the switch break
FallThrough(r) ==
    IF r.who = "ioctl" THEN {m \in DOMAIN Cases : Cases[m] >= Cases[r.method]}
                       ELSE {r.method}

(* bspMethodRead and bspMethodWrite check the size, INIT and SHUTDOWN not. *)
Runs(r, m) == /\ m \in FallThrough(r) \cap Methods[r.attr]
              /\ m \in {"READ", "WRITE"} => r.sizeOk
Called(r) ==
    IF r = ReadBoardConfig THEN <<"bcInit", "bcGet">>
    ELSE LET Case(m) == IF Runs(r, m) THEN <<m>> ELSE <<>>
         IN  Case("READ") \o Case("WRITE") \o Case("INIT") \o Case("SHUTDOWN")

BcInitAlways == <<DriverOp("Init"), DriverOp("Open")>>   \* mutant: no guard
BcInit == IF bc_initialised THEN <<>>
                            ELSE <<DriverOp("Init"), DriverOp("Open")>>

AccessRead == <<ReadOp(req.addr)>>
AccessWrite == <<WriteOp(req.addr, req.data)>>
ControlWrite == IF req.data = 1 THEN <<DriverOp("ENABLE")>>
                ELSE IF req.data = 2 THEN <<DriverOp("DISABLE")>> ELSE <<>>
ControlInit == <<DriverOp("Init"), DriverOp("Open"), DriverOp("DISABLE")>>
ControlShutdown == <<DriverOp("Shutdown")>>
BcSize == <<ReadOp(BcBase + 2)>>
IsBcGet(m) == m = "bcGet" \/ (req # ReadBoardConfig /\ req.attr = "bc")

Script(m) ==
    CASE m = "bcInit"   -> BcInit
      [] m = "bcGet"    -> BcSize
      [] m = "READ"     -> IF req.attr = "bc" THEN BcSize ELSE AccessRead
      [] m = "WRITE"    -> IF req.attr = "access" THEN AccessWrite
                                                  ELSE ControlWrite
      [] m = "INIT"     -> ControlInit
      [] m = "SHUTDOWN" -> ControlShutdown

(* bcGet: the size is read first, then that many words.  The CRC runs over *)
(* data[2] to data[n], one word more than was read: a zero, or, behind a   *)
(* full data[], whatever follows it.                                       *)
SizeWords(w) == w \div 2
TooLargeByOne(n) == n > BcMax + 1   \* mutant: one word too many accepted
TooLarge(n) == n > BcMax
BcReads(n) == [i \in 1..n |-> ReadOp(BcBase + i - 1)]
Config(n) == [i \in 1..BcMax |-> IF i <= n THEN got[i + 1] ELSE 0]
CopiedUnnamed(c) == [SubSeq(c, 1, BcConfig) EXCEPT ![5] = Unnamed]   \* mutant
Copied(c) == LET d == SubSeq(c, 1, BcConfig)
             IN  IF d[4] = 0 THEN [d EXCEPT ![5] = Unnamed] ELSE d
CrcInput(n, beyond) ==
    SubSeq(Append(Config(n), beyond), 3, n + 1)
BcChecks(n) == \E x \in IF n = BcMax THEN Words ELSE {0} :
                   Crc(CrcInput(n, x)) = <<Config(n)[1], Config(n)[2]>>
BcFails(n)  == \E x \in IF n = BcMax THEN Words ELSE {0} :
                   Crc(CrcInput(n, x)) # <<Config(n)[1], Config(n)[2]>>

----------------------------------------------------------------------------
Serve(r) ==
    /\ req = None
    /\ req' = r
    /\ calls' = Called(r)
    /\ config' = NoConfig
    /\ UNCHANGED <<store, script, got, bc_initialised, enabler, lost>>

Current == IF calls = <<>> THEN "none" ELSE Head(calls)

(* The method at the head of calls begins. *)
Enter ==
    /\ req # None /\ calls # <<>> /\ script = <<>> /\ got = <<>>
    /\ script' = Append(Script(Head(calls)), NoOp)
    /\ config' = IF IsBcGet(Head(calls)) THEN [NoConfig EXCEPT !.clean = TRUE]
                                         ELSE config
    /\ UNCHANGED <<store, req, calls, got, bc_initialised, enabler, lost>>

Driver ==
    /\ op = NoOp /\ script # <<>> /\ Head(script) # NoOp
    /\ Store!Call(Head(script))
    /\ UNCHANGED entity

Take ==
    /\ Store!Take
    /\ enabler' = IF op.cmd = "ENABLE" THEN req.who ELSE enabler
    /\ UNCHANGED <<req, calls, script, got, bc_initialised, config, lost>>

Settle == Store!Settle /\ UNCHANGED entity

(* A driver call returns; an error ends the method.  After the size, bcGet *)
(* goes on to read the words, unless it is too large.                      *)
Return(ret, data) ==
    /\ op # NoOp
    /\ \E s \in Store!Statuses : Store!Return(ret, data, s)
    /\ ret # "EXISTS"
    /\ LET size == SizeWords(data)
           sized == IsBcGet(Current) /\ got = <<>> /\ ret = "OK"
       IN  /\ script' = IF ret # "OK" THEN <<NoOp>>
                        ELSE IF sized /\ ~TooLarge(size)
                          THEN Append(BcReads(size), NoOp) ELSE Tail(script)
           /\ config' = IF ~IsBcGet(Current) THEN config
                        ELSE [config EXCEPT
                                !.clean = @ /\ clean,
                                !.ret = IF ret # "OK" THEN ret
                                        ELSE IF sized /\ TooLarge(size)
                                          THEN "INVALID" ELSE @]
    /\ got' = IF ret = "OK" /\ data # None THEN Append(got, data) ELSE got
    /\ UNCHANGED <<req, calls, bc_initialised, enabler, lost>>

(* bcGet has read all the words and checks their CRC; config is filled,    *)
(* whatever the outcome.  A size of no words makes the CRC run away.       *)
BcCheck ==
    LET n == SizeWords(got[1])
    IN  /\ n > 0
        /\ config' \in
             {[config EXCEPT !.words = Copied(Config(n)), !.ret = ret] :
                 ret \in (IF BcChecks(n) THEN {"OK"} ELSE {})
                         \cup (IF BcFails(n) THEN {"INVALID"} ELSE {})}

Leave ==
    /\ op = NoOp /\ script = <<NoOp>>
    /\ script' = <<>> /\ got' = <<>>
    /\ IF IsBcGet(Current) /\ config.ret = "None"
         THEN BcCheck ELSE UNCHANGED config
    /\ bc_initialised' = (bc_initialised \/ Current = "bcInit")
    /\ lost' = IF Current = "INIT" THEN FALSE
               ELSE IF Current = "SHUTDOWN" /\ req.who = "ioctl" THEN TRUE
               ELSE lost
    /\ calls' = Tail(calls)
    /\ UNCHANGED <<store, req, enabler>>

Done ==
    /\ req # None /\ calls = <<>>
    /\ req' = None
    /\ UNCHANGED <<store, calls, script, got, bc_initialised, config,
                   enabler, lost>>

Next ==
    \/ \E r \in Requests : Serve(r)
    \/ Enter \/ Driver \/ Take \/ Settle \/ Leave \/ Done
    \/ \E ret \in Store!Errors, data \in Words \cup {None} : Return(ret, data)

Spec == Init /\ [][Next]_vars

----------------------------------------------------------------------------
(* Type invariant of the entity; a method never reads more than data[]     *)
(* holds and the size before it.                                           *)
TypeOK ==
    /\ Store!TypeOK
    /\ req \in Requests \cup {ReadBoardConfig, None}
    /\ Len(calls) <= 4 /\ Len(script) <= BcMax + 1
    /\ got \in Seq(Words) /\ Len(got) <= BcMax + 1
    /\ bc_initialised \in BOOLEAN /\ lost \in BOOLEAN
    /\ config.ret \in Store!Errors \cup {"None"} /\ config.clean \in BOOLEAN
    /\ enabler \in {"none", "ioctl", "internal"}

(* bspEE_bc_read: a configuration that bcGet accepts, read while the chip  *)
(* was not busy with a write that had timed out, is the one in the chip,   *)
(* all of it from one moment: the words as they are now, cut at the size   *)
(* they name, with the vendor filled in for version 0.                     *)
BcReadGenuine ==
    config.ret = "OK" /\ config.clean /\ op = NoOp =>
      \A i \in 1..BcConfig :
        config.words[i] = IF i = 5 /\ config.words[4] = 0 THEN Unnamed
                          ELSE IF i <= SizeWords(mem[BcBase + 2])
                            THEN mem[BcBase + i - 1] ELSE 0

(* An ioctl never gets a word programmed by itself: the ENABLE of one      *)
(* ioctl falls through to the DISABLE of INIT, so that a programming cycle *)
(* that an ioctl starts was enabled by code of the BSP process, also after *)
(* writes that timed out and left the chip deaf to a DISABLE.              *)
IoctlNeverProgramsUnaided ==
    [][pending' # pending /\ pending' # None /\ req.who = "ioctl"
         => enabler = "internal"]_vars

(* Every ioctl of "control" falls through to SHUTDOWN, and bcInit does not *)
(* open the driver again while bc_initialised is set: after such an ioctl  *)
(* the driver is not open between requests, and bspReadBoardConfig fails,  *)
(* until code of the BSP process runs INIT alone.                          *)
ControlIoctlEndsService ==
    /\ lost /\ req = None => status # "OPEN"
    /\ lost /\ req = ReadBoardConfig /\ config.ret # "None"
         => config.ret = "NOTREADY"
============================================================================
