--------------------------- MODULE EepromProofs ---------------------------
(***************************************************************************)
(* That the driver of Eeprom, access by access, and the chip at its pins   *)
(* are the store of words that EepromStore promises, for any widths of     *)
(* addresses and words and any limit on the polls.                         *)
(***************************************************************************)
EXTENDS Eeprom, SequenceTheorems, TLAPS

(* The number of bits in a command. *)
Width(o) == IF o.cmd = "WRITE" THEN 3 + AddrBits + DataBits ELSE 3 + AddrBits

(* A sequence that is a function is a sequence of its range. *)
LEMMA FunctionSeq ==
    ASSUME NEW n \in Nat, NEW S, NEW f \in [1 .. n -> S]
    PROVE  f \in Seq(S) /\ Len(f) = n
BY SMT

(* The heads of the five commands. *)
LEMMA Heads ==
    ASSUME NEW a \in Bit, NEW b \in Bit
    PROVE  /\ <<1, a, b>> \in Seq(Bit) /\ Len(<<1, a, b>>) = 3
           /\ <<1, a, b>>[1] = 1 /\ <<1, a, b>>[2] = a /\ <<1, a, b>>[3] = b
BY SMT DEF Bit

(* The heads of the control commands. *)
LEMMA ControlHeads ==
    ASSUME NEW a \in Bit, NEW b \in Bit
    PROVE  /\ <<1, 0, 0, a, b>> \in Seq(Bit) /\ Len(<<1, 0, 0, a, b>>) = 5
           /\ <<1, 0, 0, a, b>>[1] = 1 /\ <<1, 0, 0, a, b>>[2] = 0
           /\ <<1, 0, 0, a, b>>[3] = 0 /\ <<1, 0, 0, a, b>>[4] = a
           /\ <<1, 0, 0, a, b>>[5] = b
BY SMT DEF Bit

(* A head followed by bits. *)
LEMMA Joined ==
    ASSUME NEW h \in Seq(Bit), NEW t \in Seq(Bit)
    PROVE  /\ h \o t \in Seq(Bit)
           /\ Len(h \o t) = Len(h) + Len(t)
           /\ \A i \in 1 .. Len(h) : (h \o t)[i] = h[i]
           /\ \A i \in 1 .. Len(t) : (h \o t)[Len(h) + i] = t[i]
<1>1. Len(h) \in Nat /\ Len(t) \in Nat
  BY LenProperties
<1>2. /\ h \o t \in Seq(Bit)
      /\ Len(h \o t) = Len(h) + Len(t)
      /\ \A i \in 1 .. Len(h) + Len(t) :
            (h \o t)[i] = IF i <= Len(h) THEN h[i] ELSE t[i - Len(h)]
  BY ConcatProperties
<1> QED BY <1>1, <1>2, SMT

(* The same for accesses. *)
LEMMA JoinedAccesses ==
    ASSUME NEW h \in Seq(Pins), NEW t \in Seq(Pins)
    PROVE  /\ h \o t \in Seq(Pins)
           /\ Len(h \o t) = Len(h) + Len(t)
           /\ \A i \in 1 .. Len(h) : (h \o t)[i] = h[i]
           /\ \A i \in 1 .. Len(t) : (h \o t)[Len(h) + i] = t[i]
<1>1. Len(h) \in Nat /\ Len(t) \in Nat
  BY LenProperties
<1>2. /\ h \o t \in Seq(Pins)
      /\ Len(h \o t) = Len(h) + Len(t)
      /\ \A i \in 1 .. Len(h) + Len(t) :
            (h \o t)[i] = IF i <= Len(h) THEN h[i] ELSE t[i - Len(h)]
  BY ConcatProperties
<1> QED BY <1>1, <1>2, SMT

(* A start bit, an opcode and an address: the fields of the command. *)
Addressed(a, b, addr) == <<1, a, b>> \o addr

(* A command with an address, field by field. *)
LEMMA Fields ==
    ASSUME NEW a \in Bit, NEW b \in Bit, NEW addr \in Addrs
    PROVE  /\ Addressed(a, b, addr) \in Seq(Bit)
           /\ Len(Addressed(a, b, addr)) = 3 + AddrBits
           /\ Addressed(a, b, addr)[1] = 1
           /\ Addressed(a, b, addr)[2] = a
           /\ Addressed(a, b, addr)[3] = b
           /\ \A i \in 1 .. AddrBits : Addressed(a, b, addr)[3 + i] = addr[i]
<1>1. AddrBits \in Nat
  BY WidthAssumption
<1>2. addr \in Seq(Bit) /\ Len(addr) = AddrBits
  BY <1>1, FunctionSeq DEF Addrs
<1>3. PICK h \in Seq(Bit) : h = <<1, a, b>>
  BY Heads
<1>4. Len(h) = 3 /\ h[1] = 1 /\ h[2] = a /\ h[3] = b
  BY <1>3, Heads
<1>5. PICK c : c = h \o addr /\ c = Addressed(a, b, addr)
  BY <1>3 DEF Addressed
<1>j. /\ h \o addr \in Seq(Bit)
      /\ Len(h \o addr) = Len(h) + Len(addr)
      /\ \A i \in 1 .. Len(h) : (h \o addr)[i] = h[i]
      /\ \A i \in 1 .. Len(addr) : (h \o addr)[Len(h) + i] = addr[i]
  BY <1>2, Joined, Zenon
<1>6. /\ c \in Seq(Bit) /\ Len(c) = 3 + AddrBits
      /\ \A i \in 1 .. 3 : c[i] = h[i]
      /\ \A i \in 1 .. AddrBits : c[3 + i] = addr[i]
  BY <1>j, <1>2, <1>4, <1>5, Zenon
<1>7. /\ c[1] = 1 /\ c[2] = a /\ c[3] = b
  BY <1>4, <1>6, SMT
<1> QED
  BY <1>5, <1>6, <1>7, Zenon

(* What the chip makes of a sequence that begins with the address. *)
LEMMA AddrFound ==
    ASSUME NEW addr \in Addrs, NEW c,
           \A i \in 1 .. AddrBits : c[3 + i] = addr[i]
    PROVE  AddrOf(c) = addr
BY SMT DEF AddrOf, Addrs

(* And of one that goes on with the data. *)
LEMMA DataFound ==
    ASSUME NEW data \in Words, NEW c,
           \A i \in 1 .. DataBits : c[3 + AddrBits + i] = data[i]
    PROVE  DataOf(c) = data
BY SMT DEF DataOf, Words

(* READ: the opcode and the address. *)
LEMMA ReadCommand ==
    ASSUME NEW o \in Store!Operation, o.cmd = "READ"
    PROVE  LET c == CommandBits(o)
           IN  /\ c \in Seq(Bit) /\ Len(c) = Width(o) /\ c[1] = 1
               /\ c[2] = 1 /\ c[3] = 0
               /\ \A i \in 1 .. AddrBits : c[3 + i] = o.addr[i]
<1>1. o.addr \in Addrs
  BY DEF Store!Operation
<1>2. CommandBits(o) = Addressed(1, 0, o.addr) /\ Width(o) = 3 + AddrBits
  BY DEF CommandBits, Width, Addressed
<1>4. PICK c : c = Addressed(1, 0, o.addr)
  OBVIOUS
<1>5. /\ c \in Seq(Bit) /\ Len(c) = 3 + AddrBits /\ c[1] = 1
      /\ c[2] = 1 /\ c[3] = 0
      /\ \A i \in 1 .. AddrBits : c[3 + i] = o.addr[i]
  BY <1>1, <1>4, Fields, Zenon DEF Bit
<1> QED
  BY <1>2, <1>4, <1>5, Zenon

(* WRITE: the opcode, the address and the data. *)
LEMMA WriteCommand ==
    ASSUME NEW o \in Store!Operation, o.cmd = "WRITE"
    PROVE  LET c == CommandBits(o)
           IN  /\ c \in Seq(Bit) /\ Len(c) = Width(o) /\ c[1] = 1
               /\ c[2] = 0 /\ c[3] = 1
               /\ \A i \in 1 .. AddrBits : c[3 + i] = o.addr[i]
               /\ \A i \in 1 .. DataBits : c[3 + AddrBits + i] = o.data[i]
<1>1. o.addr \in Addrs /\ o.data \in Words
  BY DEF Store!Operation
<1>2. AddrBits \in Nat /\ DataBits \in Nat
  BY WidthAssumption
<1>3. o.data \in Seq(Bit) /\ Len(o.data) = DataBits
  BY <1>1, <1>2, FunctionSeq DEF Words
<1>4. PICK h : h = Addressed(0, 1, o.addr)
  OBVIOUS
<1>5. /\ h \in Seq(Bit) /\ Len(h) = 3 + AddrBits /\ h[1] = 1
      /\ h[2] = 0 /\ h[3] = 1
      /\ \A i \in 1 .. AddrBits : h[3 + i] = o.addr[i]
  BY <1>1, <1>4, Fields, Zenon DEF Bit
<1>6. CommandBits(o) = h \o o.data /\ Width(o) = 3 + AddrBits + DataBits
  BY <1>4 DEF CommandBits, Width, Addressed
<1>7. PICK c : c = h \o o.data
  OBVIOUS
<1>j. /\ h \o o.data \in Seq(Bit)
      /\ Len(h \o o.data) = Len(h) + Len(o.data)
      /\ \A i \in 1 .. Len(h) : (h \o o.data)[i] = h[i]
      /\ \A i \in 1 .. Len(o.data) : (h \o o.data)[Len(h) + i] = o.data[i]
  BY <1>3, <1>5, Joined, Zenon
<1>8. /\ c \in Seq(Bit) /\ Len(c) = 3 + AddrBits + DataBits
      /\ \A i \in 1 .. 3 + AddrBits : c[i] = h[i]
      /\ \A i \in 1 .. DataBits : c[3 + AddrBits + i] = o.data[i]
  BY <1>j, <1>3, <1>5, <1>7, Zenon
<1>9. /\ c[1] = 1 /\ c[2] = 0 /\ c[3] = 1
      /\ \A i \in 1 .. AddrBits : c[3 + i] = o.addr[i]
  BY <1>2, <1>5, <1>8, SMT
<1> QED
  BY <1>6, <1>7, <1>8, <1>9

(* The two bits that tell the control commands apart. *)
ControlBits(o) == IF o.cmd = "ERASE" THEN <<1, 0>>
                  ELSE IF o.cmd = "ENABLE" THEN <<1, 1>> ELSE <<0, 0>>

(* ERAL, EWEN and EWDS: the opcode and those two bits. *)
LEMMA ControlCommand ==
    ASSUME NEW o \in Store!Operation, o.cmd \in {"ERASE", "ENABLE", "DISABLE"}
    PROVE  LET c == CommandBits(o)
           IN  /\ c \in Seq(Bit) /\ Len(c) = Width(o) /\ c[1] = 1
               /\ c[2] = 0 /\ c[3] = 0
               /\ c[4] = ControlBits(o)[1] /\ c[5] = ControlBits(o)[2]
<1>1. AddrBits - 2 \in Nat /\ AddrBits \in Nat
  BY WidthAssumption, SMT
<1>2. Zeros(AddrBits - 2) \in [1 .. AddrBits - 2 -> Bit]
  BY SMT DEF Zeros, Bit
<1>3. PICK z \in Seq(Bit) : z = Zeros(AddrBits - 2) /\ Len(z) = AddrBits - 2
  BY <1>1, <1>2, FunctionSeq
<1>4. PICK a \in Bit, b \in Bit : ControlBits(o) = <<a, b>>
  BY DEF ControlBits, Bit
<1>5. CommandBits(o) = <<1, 0, 0, a, b>> \o z /\ Width(o) = 3 + AddrBits
  BY <1>3, <1>4 DEF CommandBits, Width, ControlBits
<1>6. PICK h \in Seq(Bit) : h = <<1, 0, 0, a, b>>
  BY ControlHeads
<1>7. /\ Len(h) = 5 /\ h[1] = 1 /\ h[2] = 0 /\ h[3] = 0
      /\ h[4] = a /\ h[5] = b
  BY <1>6, ControlHeads
<1>8. PICK c : c = h \o z
  OBVIOUS
<1>j. /\ h \o z \in Seq(Bit)
      /\ Len(h \o z) = Len(h) + Len(z)
      /\ \A i \in 1 .. Len(h) : (h \o z)[i] = h[i]
      /\ \A i \in 1 .. Len(z) : (h \o z)[Len(h) + i] = z[i]
  BY Joined, Zenon
<1>9. /\ c \in Seq(Bit) /\ Len(c) = 5 + (AddrBits - 2)
      /\ \A i \in 1 .. 5 : c[i] = h[i]
  BY <1>j, <1>3, <1>7, <1>8, Zenon
<1>10. /\ c[1] = 1 /\ c[2] = 0 /\ c[3] = 0 /\ c[4] = a /\ c[5] = b
       /\ Len(c) = 3 + AddrBits
  BY <1>1, <1>7, <1>9, SMT
<1>11. ControlBits(o)[1] = a /\ ControlBits(o)[2] = b
  BY <1>4
<1> QED
  BY <1>5, <1>6, <1>8, <1>9, <1>10, <1>11

(* What the commands have in common. *)
LEMMA CommandShape ==
    ASSUME NEW o \in Store!Operation, Store!OnWire(o)
    PROVE  /\ CommandBits(o) \in Seq(Bit)
           /\ Len(CommandBits(o)) = Width(o)
           /\ CommandBits(o)[1] = 1
           /\ o.cmd # "READ" => CommandBits(o)[2] = 0
           /\ Width(o) \in Nat /\ Width(o) >= 5
<1>1. Width(o) \in Nat /\ Width(o) >= 5
  BY WidthAssumption, SMT DEF Width
<1> QED
  BY <1>1, ReadCommand, WriteCommand, ControlCommand, Zenon DEF Store!OnWire

----------------------------------------------------------------------------
(* The accesses of the programs, by their places. *)
LEMMA BitPlaces ==
    ASSUME NEW q \in Nat
    PROVE  /\ (4 * q + 1 + 3) \div 4 = q + 1 /\ (4 * q + 1 - 1) % 4 = 0
           /\ (4 * q + 2 + 3) \div 4 = q + 1 /\ (4 * q + 2 - 1) % 4 = 1
           /\ (4 * q + 3 + 3) \div 4 = q + 1 /\ (4 * q + 3 - 1) % 4 = 2
           /\ (4 * q + 4 + 3) \div 4 = q + 1 /\ (4 * q + 4 - 1) % 4 = 3
BY SMT

(* The four accesses that send a bit, and the four that read one. *)
LEMMA BitAccesses ==
    /\ \A b : /\ SendBit(b)[1] = <<"SK", 0>> /\ SendBit(b)[2] = <<"CS", 1>>
              /\ SendBit(b)[3] = <<"DO", b>> /\ SendBit(b)[4] = <<"SK", 1>>
    /\ ReadBit[1] = <<"SK", 0>> /\ ReadBit[2] = <<"CS", 1>>
    /\ ReadBit[3] = <<"SK", 1>> /\ ReadBit[4] = <<"DI", 0>>
BY DEF SendBit, ReadBit, SetSK, SetCS, SetDO, Sample

(* Every access is one of Pins. *)
LEMMA AccessTypes ==
    ASSUME NEW b \in Bit, NEW j \in 1 .. 4
    PROVE  SendBit(b)[j] \in Pins /\ ReadBit[j] \in Pins
<1>1. j = 1 \/ j = 2 \/ j = 3 \/ j = 4
  BY SMT
<1>2. /\ <<"SK", 0>> \in Pins /\ <<"CS", 1>> \in Pins /\ <<"DO", b>> \in Pins
      /\ <<"SK", 1>> \in Pins /\ <<"DI", 0>> \in Pins
  BY DEF Pins, Bit
<1> QED
  BY <1>1, <1>2, BitAccesses, Zenon

(* SendBits, access by access. *)
LEMMA SendPlaces ==
    ASSUME NEW bits \in Seq(Bit)
    PROVE  /\ SendBits(bits) \in Seq(Pins)
           /\ Len(SendBits(bits)) = 4 * Len(bits)
           /\ \A q \in 0 .. Len(bits) - 1 :
                 /\ SendBits(bits)[4 * q + 1] = <<"SK", 0>>
                 /\ SendBits(bits)[4 * q + 2] = <<"CS", 1>>
                 /\ SendBits(bits)[4 * q + 3] = <<"DO", bits[q + 1]>>
                 /\ SendBits(bits)[4 * q + 4] = <<"SK", 1>>
<1>1. Len(bits) \in Nat
  BY LenProperties
<1>2. PICK n \in Nat : n = 4 * Len(bits)
  BY <1>1, SMT
<1>3. SendBits(bits) = [k \in 1 .. n |->
                          SendBit(bits[(k + 3) \div 4])[1 + ((k - 1) % 4)]]
  BY <1>2 DEF SendBits
<1>4. ASSUME NEW k \in 1 .. n
      PROVE  SendBit(bits[(k + 3) \div 4])[1 + ((k - 1) % 4)] \in Pins
  <2>1. (k + 3) \div 4 \in 1 .. Len(bits) /\ 1 + ((k - 1) % 4) \in 1 .. 4
    BY <1>1, <1>2, SMT
  <2>2. bits[(k + 3) \div 4] \in Bit
    BY <2>1, ElementOfSeq, Zenon
  <2> QED
    BY <2>1, <2>2, AccessTypes, Zenon
<1>5. SendBits(bits) \in [1 .. n -> Pins]
  BY <1>3, <1>4, Zenon
<1>6. SendBits(bits) \in Seq(Pins) /\ Len(SendBits(bits)) = n
  BY <1>5, FunctionSeq, Zenon
<1>7. ASSUME NEW q \in 0 .. Len(bits) - 1
      PROVE  /\ SendBits(bits)[4 * q + 1] = <<"SK", 0>>
             /\ SendBits(bits)[4 * q + 2] = <<"CS", 1>>
             /\ SendBits(bits)[4 * q + 3] = <<"DO", bits[q + 1]>>
             /\ SendBits(bits)[4 * q + 4] = <<"SK", 1>>
  <2>1. /\ q \in Nat
        /\ 4 * q + 1 \in 1 .. n /\ 4 * q + 2 \in 1 .. n
        /\ 4 * q + 3 \in 1 .. n /\ 4 * q + 4 \in 1 .. n
    BY <1>1, <1>2, SMT
  <2>a. \A k \in 1 .. n : SendBits(bits)[k] =
                            SendBit(bits[(k + 3) \div 4])[1 + ((k - 1) % 4)]
    BY <1>3, Zenon
  <2>b1. SendBits(bits)[4 * q + 1] = SendBit(bits[q + 1])[1 + 0]
    BY <2>1, <2>a, BitPlaces
  <2>b2. SendBits(bits)[4 * q + 2] = SendBit(bits[q + 1])[1 + 1]
    BY <2>1, <2>a, BitPlaces
  <2>b3. SendBits(bits)[4 * q + 3] = SendBit(bits[q + 1])[1 + 2]
    BY <2>1, <2>a, BitPlaces
  <2>b4. SendBits(bits)[4 * q + 4] = SendBit(bits[q + 1])[1 + 3]
    BY <2>1, <2>a, BitPlaces
  <2>3. 1 + 0 = 1 /\ 1 + 1 = 2 /\ 1 + 2 = 3 /\ 1 + 3 = 4
    BY SMT
  <2> QED
    BY <2>b1, <2>b2, <2>b3, <2>b4, <2>3, BitAccesses, Zenon
<1> QED
  BY <1>2, <1>6, <1>7

(* ReadBits, access by access. *)
LEMMA ReadPlaces ==
    /\ ReadBits(DataBits) \in Seq(Pins)
    /\ Len(ReadBits(DataBits)) = 4 * DataBits
    /\ \A q \in 0 .. DataBits - 1 :
          /\ ReadBits(DataBits)[4 * q + 1] = <<"SK", 0>>
          /\ ReadBits(DataBits)[4 * q + 2] = <<"CS", 1>>
          /\ ReadBits(DataBits)[4 * q + 3] = <<"SK", 1>>
          /\ ReadBits(DataBits)[4 * q + 4] = <<"DI", 0>>
<1>1. PICK n \in Nat : n = 4 * DataBits
  BY WidthAssumption, SMT
<1>2. ReadBits(DataBits) = [k \in 1 .. n |-> ReadBit[1 + ((k - 1) % 4)]]
  BY <1>1 DEF ReadBits
<1>3. ASSUME NEW k \in 1 .. n PROVE ReadBit[1 + ((k - 1) % 4)] \in Pins
  <2>1. 1 + ((k - 1) % 4) \in 1 .. 4 /\ 0 \in Bit
    BY <1>1, SMT DEF Bit
  <2> QED
    BY <2>1, AccessTypes, Zenon
<1>4. ReadBits(DataBits) \in [1 .. n -> Pins]
  BY <1>2, <1>3, Zenon
<1>5. ReadBits(DataBits) \in Seq(Pins) /\ Len(ReadBits(DataBits)) = n
  BY <1>4, FunctionSeq, Zenon
<1>6. ASSUME NEW q \in 0 .. DataBits - 1
      PROVE  /\ ReadBits(DataBits)[4 * q + 1] = <<"SK", 0>>
             /\ ReadBits(DataBits)[4 * q + 2] = <<"CS", 1>>
             /\ ReadBits(DataBits)[4 * q + 3] = <<"SK", 1>>
             /\ ReadBits(DataBits)[4 * q + 4] = <<"DI", 0>>
  <2>1. /\ q \in Nat
        /\ 4 * q + 1 \in 1 .. n /\ 4 * q + 2 \in 1 .. n
        /\ 4 * q + 3 \in 1 .. n /\ 4 * q + 4 \in 1 .. n
    BY <1>1, WidthAssumption, SMT
  <2>a. \A k \in 1 .. n : ReadBits(DataBits)[k] =
                            ReadBit[1 + ((k - 1) % 4)]
    BY <1>2, Zenon
  <2>b1. ReadBits(DataBits)[4 * q + 1] = ReadBit[1 + 0]
    BY <2>1, <2>a, BitPlaces
  <2>b2. ReadBits(DataBits)[4 * q + 2] = ReadBit[1 + 1]
    BY <2>1, <2>a, BitPlaces
  <2>b3. ReadBits(DataBits)[4 * q + 3] = ReadBit[1 + 2]
    BY <2>1, <2>a, BitPlaces
  <2>b4. ReadBits(DataBits)[4 * q + 4] = ReadBit[1 + 3]
    BY <2>1, <2>a, BitPlaces
  <2>3. 1 + 0 = 1 /\ 1 + 1 = 2 /\ 1 + 2 = 3 /\ 1 + 3 = 4
    BY SMT
  <2> QED
    BY <2>b1, <2>b2, <2>b3, <2>b4, <2>3, BitAccesses, Zenon
<1> QED
  BY <1>1, <1>5, <1>6

(* FinishCommand, access by access. *)
LEMMA FinishPlaces ==
    /\ FinishCommand \in Seq(Pins) /\ Len(FinishCommand) = 8
    /\ FinishCommand[1] = <<"SK", 0>> /\ FinishCommand[2] = <<"CS", 0>>
    /\ FinishCommand[3] = <<"DO", 0>> /\ FinishCommand[4] = <<"SK", 0>>
    /\ FinishCommand[5] = <<"SK", 1>> /\ FinishCommand[6] = <<"SK", 0>>
    /\ FinishCommand[7] = <<"SK", 1>> /\ FinishCommand[8] = <<"SK", 0>>
<1>1. PICK a, b, c, d : /\ a = <<"SK", 0>> /\ b = <<"CS", 0>>
                        /\ c = <<"DO", 0>> /\ d = <<"SK", 1>>
  OBVIOUS
<1>2. a \in Pins /\ b \in Pins /\ c \in Pins /\ d \in Pins
  BY <1>1 DEF Pins, Bit
<1>3. FinishCommand = <<a, b, c, a, d, a, d, a>>
  BY <1>1 DEF FinishCommand, SetSK, SetCS, SetDO
<1>4. /\ FinishCommand \in Seq(Pins) /\ Len(FinishCommand) = 8
      /\ FinishCommand[1] = a /\ FinishCommand[2] = b
      /\ FinishCommand[3] = c /\ FinishCommand[4] = a
      /\ FinishCommand[5] = d /\ FinishCommand[6] = a
      /\ FinishCommand[7] = d /\ FinishCommand[8] = a
  BY <1>2, <1>3, SMT
<1> QED
  BY <1>1, <1>4, Zenon

(* Where FinishCommand starts in the program of a command. *)
Start(o) == IF o.cmd = "READ" THEN 4 * Width(o) + 4 * DataBits ELSE 4 * Width(o)

(* The program of a command, access by access: its bits, *)
Sends(o) ==
    \A q \in 0 .. Width(o) - 1 :
       /\ Program(o)[4 * q + 1] = <<"SK", 0>>
       /\ Program(o)[4 * q + 2] = <<"CS", 1>>
       /\ Program(o)[4 * q + 3] = <<"DO", CommandBits(o)[q + 1]>>
       /\ Program(o)[4 * q + 4] = <<"SK", 1>>

(* the bits read, *)
Reads(o) ==
    \A q \in 0 .. DataBits - 1 :
       /\ Program(o)[4 * Width(o) + (4 * q + 1)] = <<"SK", 0>>
       /\ Program(o)[4 * Width(o) + (4 * q + 2)] = <<"CS", 1>>
       /\ Program(o)[4 * Width(o) + (4 * q + 3)] = <<"SK", 1>>
       /\ Program(o)[4 * Width(o) + (4 * q + 4)] = <<"DI", 0>>

(* and its end. *)
Finishes(o) ==
    \A j \in 1 .. 8 : Program(o)[Start(o) + j] = FinishCommand[j]

(* All of these hold of the program of every command. *)
LEMMA ProgramPlaces ==
    ASSUME NEW o \in Store!Operation, Store!OnWire(o)
    PROVE  /\ Program(o) \in Seq(Pins)
           /\ Len(Program(o)) = Start(o) + 8 /\ Start(o) \in Nat
           /\ Sends(o) /\ Finishes(o)
           /\ o.cmd = "READ" => Reads(o)
<1>1. PICK c \in Seq(Bit) : c = CommandBits(o) /\ Len(c) = Width(o)
  BY CommandShape
<1>2. PICK w \in Nat : w = Width(o) /\ w >= 5
  BY CommandShape
<1>3. PICK s \in Seq(Pins) :
        /\ s = SendBits(c) /\ Len(s) = 4 * w
        /\ \A q \in 0 .. w - 1 :
              /\ s[4 * q + 1] = <<"SK", 0>> /\ s[4 * q + 2] = <<"CS", 1>>
              /\ s[4 * q + 3] = <<"DO", c[q + 1]>> /\ s[4 * q + 4] = <<"SK", 1>>
  <2>1. Len(c) = w
    BY <1>1, <1>2
  <2>2. /\ SendBits(c) \in Seq(Pins) /\ Len(SendBits(c)) = 4 * Len(c)
        /\ \A q \in 0 .. Len(c) - 1 :
              /\ SendBits(c)[4 * q + 1] = <<"SK", 0>>
              /\ SendBits(c)[4 * q + 2] = <<"CS", 1>>
              /\ SendBits(c)[4 * q + 3] = <<"DO", c[q + 1]>>
              /\ SendBits(c)[4 * q + 4] = <<"SK", 1>>
    BY SendPlaces, Zenon
  <2> QED
    BY <2>1, <2>2, Zenon
<1>4. PICK f \in Seq(Pins) : f = FinishCommand /\ Len(f) = 8
  BY FinishPlaces
<1>5. PICK p : p = Program(o)
  OBVIOUS
<1>7. CASE o.cmd # "READ"
  <2>1. p = s \o f /\ Start(o) = 4 * w
    BY <1>1, <1>2, <1>3, <1>4, <1>5, <1>7 DEF Program, Start, Store!OnWire
  <2>2. 4 * w \in Nat /\ 8 \in Nat
    BY SMT
  <2>a. /\ s \o f \in Seq(Pins) /\ Len(s \o f) = Len(s) + Len(f)
        /\ \A i \in 1 .. Len(s) : (s \o f)[i] = s[i]
        /\ \A i \in 1 .. Len(f) : (s \o f)[Len(s) + i] = f[i]
    BY JoinedAccesses, Zenon
  <2>3. /\ p \in Seq(Pins) /\ Len(p) = 4 * w + 8
        /\ \A i \in 1 .. 4 * w : p[i] = s[i]
        /\ \A i \in 1 .. 8 : p[4 * w + i] = f[i]
    BY <2>a, <2>1, <1>3, <1>4, Zenon
  <2>4. ASSUME NEW q \in 0 .. w - 1
        PROVE  /\ p[4 * q + 1] = <<"SK", 0>> /\ p[4 * q + 2] = <<"CS", 1>>
               /\ p[4 * q + 3] = <<"DO", c[q + 1]>>
               /\ p[4 * q + 4] = <<"SK", 1>>
    <3>1. /\ 4 * q + 1 \in 1 .. 4 * w /\ 4 * q + 2 \in 1 .. 4 * w
          /\ 4 * q + 3 \in 1 .. 4 * w /\ 4 * q + 4 \in 1 .. 4 * w
      BY SMT
    <3> QED
      BY <3>1, <2>3, <1>3, Zenon
  <2>5. Sends(o)
    BY <2>4, <1>1, <1>2, <1>5, Zenon DEF Sends
  <2>6. Finishes(o)
    BY <2>1, <2>3, <1>4, <1>5, Zenon DEF Finishes
  <2> QED
    BY <1>5, <1>7, <2>1, <2>2, <2>3, <2>5, <2>6, Zenon
<1>8. CASE o.cmd = "READ"
  <2>1. PICK r \in Seq(Pins) :
          /\ r = ReadBits(DataBits) /\ Len(r) = 4 * DataBits
          /\ \A q \in 0 .. DataBits - 1 :
                /\ r[4 * q + 1] = <<"SK", 0>> /\ r[4 * q + 2] = <<"CS", 1>>
                /\ r[4 * q + 3] = <<"SK", 1>> /\ r[4 * q + 4] = <<"DI", 0>>
    BY ReadPlaces
  <2>2. PICK u : u = s \o r
    OBVIOUS
  <2>3. p = u \o f /\ Start(o) = 4 * w + 4 * DataBits
    BY <1>1, <1>2, <1>3, <1>4, <1>5, <1>8, <2>1, <2>2 DEF Program, Start
  <2>4. /\ 4 * w \in Nat /\ 8 \in Nat /\ 4 * DataBits \in Nat
        /\ 4 * w + 4 * DataBits \in Nat
    BY WidthAssumption, SMT
  <2>a. /\ s \o r \in Seq(Pins) /\ Len(s \o r) = Len(s) + Len(r)
        /\ \A i \in 1 .. Len(s) : (s \o r)[i] = s[i]
        /\ \A i \in 1 .. Len(r) : (s \o r)[Len(s) + i] = r[i]
    BY JoinedAccesses, Zenon
  <2>5. /\ u \in Seq(Pins) /\ Len(u) = 4 * w + 4 * DataBits
        /\ \A i \in 1 .. 4 * w : u[i] = s[i]
        /\ \A i \in 1 .. 4 * DataBits : u[4 * w + i] = r[i]
    BY <2>a, <2>1, <2>2, <1>3, Zenon
  <2>b. /\ u \o f \in Seq(Pins) /\ Len(u \o f) = Len(u) + Len(f)
        /\ \A i \in 1 .. Len(u) : (u \o f)[i] = u[i]
        /\ \A i \in 1 .. Len(f) : (u \o f)[Len(u) + i] = f[i]
    BY <2>5, JoinedAccesses, Zenon
  <2>6. /\ p \in Seq(Pins) /\ Len(p) = 4 * w + 4 * DataBits + 8
        /\ \A i \in 1 .. 4 * w + 4 * DataBits : p[i] = u[i]
        /\ \A i \in 1 .. 8 : p[4 * w + 4 * DataBits + i] = f[i]
    BY <2>b, <2>3, <2>5, <1>4, Zenon
  <2>7. ASSUME NEW q \in 0 .. w - 1
        PROVE  /\ p[4 * q + 1] = <<"SK", 0>> /\ p[4 * q + 2] = <<"CS", 1>>
               /\ p[4 * q + 3] = <<"DO", c[q + 1]>>
               /\ p[4 * q + 4] = <<"SK", 1>>
    <3>1. /\ 4 * q + 1 \in 1 .. 4 * w /\ 4 * q + 2 \in 1 .. 4 * w
          /\ 4 * q + 3 \in 1 .. 4 * w /\ 4 * q + 4 \in 1 .. 4 * w
      BY SMT
    <3>2. \A i \in 1 .. 4 * w : p[i] = s[i]
      <4>1. ASSUME NEW i \in 1 .. 4 * w PROVE i \in 1 .. 4 * w + 4 * DataBits
        BY WidthAssumption, SMT
      <4> QED
        BY <4>1, <2>5, <2>6, Zenon
    <3> QED
      BY <3>1, <3>2, <1>3, Zenon
  <2>8. ASSUME NEW q \in 0 .. DataBits - 1
        PROVE  /\ p[4 * w + (4 * q + 1)] = <<"SK", 0>>
               /\ p[4 * w + (4 * q + 2)] = <<"CS", 1>>
               /\ p[4 * w + (4 * q + 3)] = <<"SK", 1>>
               /\ p[4 * w + (4 * q + 4)] = <<"DI", 0>>
    <3>1. /\ 4 * q + 1 \in 1 .. 4 * DataBits /\ 4 * q + 2 \in 1 .. 4 * DataBits
          /\ 4 * q + 3 \in 1 .. 4 * DataBits /\ 4 * q + 4 \in 1 .. 4 * DataBits
      BY WidthAssumption, SMT
    <3>2. \A i \in 1 .. 4 * DataBits : p[4 * w + i] = r[i]
      <4>1. ASSUME NEW i \in 1 .. 4 * DataBits
            PROVE  4 * w + i \in 1 .. 4 * w + 4 * DataBits
        BY WidthAssumption, SMT
      <4> QED
        BY <4>1, <2>5, <2>6, Zenon
    <3> QED
      BY <3>1, <3>2, <2>1, Zenon
  <2>9. Sends(o)
    BY <2>7, <1>1, <1>2, <1>5, Zenon DEF Sends
  <2>10. Reads(o)
    BY <2>8, <1>2, <1>5, Zenon DEF Reads
  <2>11. Finishes(o)
    BY <2>3, <2>6, <1>4, <1>5, Zenon DEF Finishes
  <2> QED
    BY <1>5, <2>3, <2>4, <2>6, <2>9, <2>10, <2>11, Zenon
<1> QED
  BY <1>7, <1>8

----------------------------------------------------------------------------
(* What the chip is, and what an access of a pin does to it. *)
Chip == [sk : Bit, cs : Bit, d : Bit, mode : {"off", "cmd", "read", "status"},
         shift : Seq(Bit), out : Seq(Bit), mem : Store!Memory, wen : BOOLEAN,
         pending : Store!Memory \cup {None}, latched : Words \cup {None},
         reporting : BOOLEAN]

(* Two chips hold the same. *)
SameStore(x, c) == /\ x.mem = c.mem /\ x.wen = c.wen
                   /\ x.pending = c.pending /\ x.latched = c.latched

(* Two chips are in the same place of the same command. *)
SameCommand(x, c) == x.mode = c.mode /\ x.shift = c.shift /\ x.out = c.out

(* Changing one field of a chip. *)
LEMMA LinePins ==
    ASSUME NEW c \in Chip, NEW v \in Bit
    PROVE  /\ [c EXCEPT !.d = v] \in Chip
           /\ [c EXCEPT !.d = v].d = v
           /\ [c EXCEPT !.d = v].sk = c.sk /\ [c EXCEPT !.d = v].cs = c.cs
           /\ SameStore([c EXCEPT !.d = v], c)
           /\ SameCommand([c EXCEPT !.d = v], c)
           /\ [c EXCEPT !.sk = v] \in Chip
           /\ [c EXCEPT !.sk = v].sk = v
           /\ [c EXCEPT !.sk = v].d = c.d /\ [c EXCEPT !.sk = v].cs = c.cs
           /\ SameStore([c EXCEPT !.sk = v], c)
           /\ SameCommand([c EXCEPT !.sk = v], c)
           /\ [c EXCEPT !.latched = None] \in Chip
           /\ [c EXCEPT !.latched = None].latched = None
           /\ [c EXCEPT !.latched = None].sk = c.sk
           /\ [c EXCEPT !.latched = None].cs = c.cs
           /\ [c EXCEPT !.latched = None].d = c.d
           /\ [c EXCEPT !.latched = None].mem = c.mem
           /\ [c EXCEPT !.latched = None].wen = c.wen
           /\ [c EXCEPT !.latched = None].pending = c.pending
           /\ SameCommand([c EXCEPT !.latched = None], c)
BY SMT DEF Chip, SameStore, SameCommand

(* Changing a field to a value of its type. *)
LEMMA Changed ==
    ASSUME NEW c \in Chip
    PROVE  /\ \A v \in Bit : [c EXCEPT !.sk = v] \in Chip
           /\ \A v \in Bit : [c EXCEPT !.cs = v] \in Chip
           /\ \A v \in Seq(Bit) : [c EXCEPT !.shift = v] \in Chip
           /\ \A v \in Seq(Bit) : [c EXCEPT !.out = v] \in Chip
           /\ \A v \in {"off", "cmd", "read", "status"} :
                 [c EXCEPT !.mode = v] \in Chip
           /\ \A v \in BOOLEAN : [c EXCEPT !.wen = v] \in Chip
           /\ \A v \in BOOLEAN : [c EXCEPT !.reporting = v] \in Chip
           /\ \A v \in Store!Memory \cup {None} : [c EXCEPT !.pending = v] \in Chip
           /\ \A v \in Words \cup {None} : [c EXCEPT !.latched = v] \in Chip
BY SMT DEF Chip

(* CS rises. *)
LEMMA Selected ==
    ASSUME NEW c \in Chip, NEW x, x = ChipSelect(c)
    PROVE  /\ x \in Chip /\ x.cs = 1 /\ x.sk = c.sk /\ x.d = c.d
           /\ x.shift = << >> /\ x.out = c.out
           /\ x.mode = IF c.pending # None THEN "status" ELSE "cmd"
           /\ SameStore(x, c)
<1>1. PICK e \in Seq(Bit) : e = << >>
  BY EmptySeq
<1>2. PICK m \in {"cmd", "status"} : m = IF c.pending # None THEN "status" ELSE "cmd"
  BY Zenon
<1>3. x = [c EXCEPT !.cs = 1, !.shift = e, !.mode = m]
  BY <1>1, <1>2, Zenon DEF ChipSelect
<1>4. /\ x \in Chip /\ x.cs = 1 /\ x.sk = c.sk /\ x.d = c.d
      /\ x.shift = e /\ x.out = c.out /\ x.mode = m
      /\ SameStore(x, c)
  <2>1. 1 \in Bit
    BY DEF Bit
  <2>2. x.cs = 1 /\ x.sk = c.sk /\ x.d = c.d
    BY <1>3, SMT DEF Chip
  <2>3. x.shift = e /\ x.out = c.out /\ x.mode = m
    BY <1>3, SMT DEF Chip
  <2>4. SameStore(x, c)
    BY <1>3, SMT DEF Chip, SameStore
  <2>5. x \in Chip
    <3>1. PICK c1 \in Chip : c1 = [c EXCEPT !.cs = 1]
      BY <2>1, Changed
    <3>2. PICK c2 \in Chip : c2 = [c1 EXCEPT !.shift = e]
      BY Changed
    <3>3. PICK c3 \in Chip : c3 = [c2 EXCEPT !.mode = m]
      BY Changed
    <3>4. x = c3
      BY <1>3, <3>1, <3>2, <3>3
    <3> QED
      BY <3>4
  <2> QED
    BY <2>2, <2>3, <2>4, <2>5
<1> QED
  BY <1>1, <1>2, <1>4, Zenon

(* The fields that the chip finds in its shift register have their types. *)
LEMMA FieldTypes ==
    ASSUME NEW s \in Seq(Bit), Complete(s)
    PROVE  /\ AddrOf(s) \in Addrs
           /\ Len(s) >= 3 + AddrBits + DataBits => DataOf(s) \in Words
<1>1. Len(s) \in Nat /\ \A i \in 1 .. Len(s) : s[i] \in Bit
  BY LenProperties, ElementOfSeq
<1>2. AddrBits \in Nat /\ DataBits \in Nat
  BY WidthAssumption
<1>3. \A i \in 1 .. AddrBits : 3 + i \in 1 .. Len(s)
  BY <1>1, <1>2, SMT DEF Complete
<1>4. ASSUME Len(s) >= 3 + AddrBits + DataBits
      PROVE  \A i \in 1 .. DataBits : 3 + AddrBits + i \in 1 .. Len(s)
  BY <1>1, <1>2, <1>4, SMT
<1>5. AddrOf(s) \in Addrs
  BY <1>1, <1>3, Zenon DEF AddrOf, Addrs
<1>6. ASSUME Len(s) >= 3 + AddrBits + DataBits PROVE DataOf(s) \in Words
  BY <1>1, <1>4, <1>6, Zenon DEF DataOf, Words
<1> QED
  BY <1>5, <1>6

(* The erased contents are contents. *)
LEMMA Erased == ErasedWord \in Words /\ [a \in Addrs |-> ErasedWord] \in Store!Memory
<1>1. ErasedWord \in Words
  BY SMT DEF ErasedWord, Words, Bit
<1> QED
  BY <1>1, Zenon DEF Store!Memory

(* What the chip programs, and its latch, when CS falls. *)
Programmed(c) ==
    IF ~(Executes(c) \in {"WRITE", "ERASE"} /\ c.wen) THEN c.pending
    ELSE IF Executes(c) = "ERASE" THEN [a \in Addrs |-> ErasedWord]
    ELSE [c.mem EXCEPT ![AddrOf(c.shift)] = DataOf(c.shift)]
Enabled(c) == IF Executes(c) = "ENABLE" THEN TRUE
              ELSE IF Executes(c) = "DISABLE" THEN FALSE ELSE c.wen

(* CS falls. *)
LEMMA Deselected ==
    ASSUME NEW c \in Chip, NEW x, x = ChipDeselect(c)
    PROVE  /\ x \in Chip /\ x.cs = 0 /\ x.sk = c.sk /\ x.d = c.d
           /\ x.mode = "off" /\ x.shift = << >> /\ x.out = << >>
           /\ x.mem = c.mem /\ x.latched = c.latched
           /\ x.wen = Enabled(c) /\ x.pending = Programmed(c)
<1>1. PICK e \in Seq(Bit) : e = << >>
  BY EmptySeq
<1>2. /\ c.wen \in BOOLEAN /\ c.reporting \in BOOLEAN /\ c.shift \in Seq(Bit)
      /\ c.mem \in Store!Memory /\ c.pending \in Store!Memory \cup {None}
  BY DEF Chip
<1>3. PICK w \in BOOLEAN : w = Enabled(c)
  BY <1>2, Zenon DEF Enabled
<1>4. PICK r \in BOOLEAN :
        r = (c.reporting \/ (Executes(c) \in {"WRITE", "ERASE"} /\ c.wen))
  BY Zenon
<1>5. PICK p \in Store!Memory \cup {None} : p = Programmed(c)
  <2>1. CASE ~(Executes(c) \in {"WRITE", "ERASE"} /\ c.wen)
    BY <1>2, <2>1, Zenon DEF Programmed
  <2>2. CASE Executes(c) = "ERASE"
    BY <1>2, <2>2, Erased, Zenon DEF Programmed
  <2>3. CASE Executes(c) = "WRITE"
    <3>1. Complete(c.shift) /\ Len(c.shift) >= 3 + AddrBits + DataBits
      BY <2>3, Zenon DEF Executes
    <3>2. AddrOf(c.shift) \in Addrs /\ DataOf(c.shift) \in Words
      BY <1>2, <3>1, FieldTypes
    <3>3. [c.mem EXCEPT ![AddrOf(c.shift)] = DataOf(c.shift)] \in Store!Memory
      BY <1>2, <3>2 DEF Store!Memory
    <3> QED
      BY <1>2, <2>3, <3>3, Zenon DEF Programmed
  <2> QED
    BY <2>1, <2>2, <2>3
<1>6. x = [c EXCEPT !.cs = 0, !.mode = "off", !.shift = e, !.out = e,
                    !.wen = w, !.reporting = r, !.pending = p]
  BY <1>1, <1>3, <1>4, <1>5, Zenon DEF ChipDeselect, Programmed, Enabled
<1>7. /\ x.cs = 0 /\ x.sk = c.sk /\ x.d = c.d /\ x.mode = "off"
      /\ x.shift = e /\ x.out = e
  BY <1>6, SMT DEF Chip
<1>8. x.mem = c.mem /\ x.latched = c.latched /\ x.pending = p
  BY <1>6, SMT DEF Chip
<1>9. x.wen = w
  BY <1>6, SMT DEF Chip
<1>10. x \in Chip
  <2>1. 0 \in Bit
    BY DEF Bit
  <2>2. PICK c1 \in Chip : c1 = [c EXCEPT !.cs = 0]
    BY <2>1, Changed
  <2>3. PICK c2 \in Chip : c2 = [c1 EXCEPT !.mode = "off"]
    BY Changed
  <2>4. PICK c3 \in Chip : c3 = [c2 EXCEPT !.shift = e]
    BY Changed
  <2>5. PICK c4 \in Chip : c4 = [c3 EXCEPT !.out = e]
    BY Changed
  <2>6. PICK c5 \in Chip : c5 = [c4 EXCEPT !.wen = w]
    BY Changed
  <2>7. PICK c6 \in Chip : c6 = [c5 EXCEPT !.reporting = r]
    BY Changed
  <2>8. PICK c7 \in Chip : c7 = [c6 EXCEPT !.pending = p]
    BY Changed
  <2>9. x = c7
    BY <1>6, <2>2, <2>3, <2>4, <2>5, <2>6, <2>7, <2>8
  <2> QED
    BY <2>9
<1> QED
  BY <1>1, <1>3, <1>5, <1>7, <1>8, <1>9, <1>10, Zenon

(* The bits of a READ make the chip answer. *)
Answers(s) == Len(s) = 3 + AddrBits /\ OpcodeOf(s) = <<1, 0>>
Grown(c) == Append(c.shift, c.d)
Asked(c) == c.mem[AddrOf(Grown(c))]

(* SK rises while the chip shifts in a command. *)
LEMMA Shifted ==
    ASSUME NEW c \in Chip, NEW x, x = ChipClock(c),
           c.mode = "cmd", c.d = 1 \/ c.shift # << >>
    PROVE  /\ x \in Chip /\ x.sk = 1 /\ x.cs = c.cs /\ x.d = c.d
           /\ x.mem = c.mem /\ x.wen = c.wen /\ x.pending = c.pending
           /\ x.shift = Grown(c)
           /\ ~Answers(Grown(c)) => x.mode = "cmd" /\ x.latched = c.latched
           /\ Answers(Grown(c)) => x.mode = "read"
           /\ Answers(Grown(c)) => x.latched = Asked(c)
           /\ Answers(Grown(c)) => x.out = <<0>> \o Asked(c)
<1>1. /\ c.d \in Bit /\ c.shift \in Seq(Bit) /\ c.mem \in Store!Memory
      /\ c.latched \in Words \cup {None}
  BY DEF Chip
<1>2. PICK s \in Seq(Bit) : s = Grown(c)
  BY <1>1, AppendProperties DEF Grown
<1>3. ASSUME Answers(s) PROVE c.mem[AddrOf(s)] \in Words
  <2>a. Len(s) = 3 + AddrBits
    BY <1>3, Zenon DEF Answers
  <2>1. Complete(s)
    BY <2>a, WidthAssumption, SMT DEF Complete
  <2> QED
    BY <1>1, <1>2, <2>1, FieldTypes DEF Store!Memory
<1>4. \A w \in Words : <<0>> \o w \in Seq(Bit)
  <2> SUFFICES ASSUME NEW w \in Words PROVE <<0>> \o w \in Seq(Bit)
    OBVIOUS
  <2>1. w \in Seq(Bit)
    BY FunctionSeq, WidthAssumption DEF Words
  <2>2. <<0>> \in Seq(Bit)
    BY DEF Bit
  <2> QED
    BY <2>1, <2>2, Joined
<1>5. PICK o \in Seq(Bit) : o = IF Answers(s) THEN <<0>> \o c.mem[AddrOf(s)] ELSE << >>
  BY <1>3, <1>4, EmptySeq, Zenon
<1>6. PICK l \in Words \cup {None} : l = IF Answers(s) THEN c.mem[AddrOf(s)] ELSE c.latched
  BY <1>1, <1>3, Zenon
<1>7. PICK m \in {"cmd", "read"} : m = IF Answers(s) THEN "read" ELSE "cmd"
  BY Zenon
<1>8. x = [c EXCEPT !.sk = 1, !.shift = s, !.reporting = FALSE, !.mode = m,
                    !.out = o, !.latched = l]
  BY <1>2, <1>5, <1>6, <1>7, Zenon DEF ChipClock, Answers, Grown
<1>9. /\ x.sk = 1 /\ x.cs = c.cs /\ x.d = c.d /\ x.mem = c.mem
      /\ x.pending = c.pending
  BY <1>8, SMT DEF Chip
<1>10. x.wen = c.wen
  BY <1>8, SMT DEF Chip
<1>11. x.shift = s /\ x.mode = m /\ x.latched = l /\ x.out = o
  BY <1>8, SMT DEF Chip
<1>12. x \in Chip
  <2>1. 1 \in Bit /\ FALSE \in BOOLEAN
    BY DEF Bit
  <2>2. PICK c1 \in Chip : c1 = [c EXCEPT !.sk = 1]
    BY <2>1, Changed
  <2>3. PICK c2 \in Chip : c2 = [c1 EXCEPT !.shift = s]
    BY <1>2, Changed
  <2>4. PICK c3 \in Chip : c3 = [c2 EXCEPT !.reporting = FALSE]
    BY <2>1, Changed, Zenon
  <2>5. PICK c4 \in Chip : c4 = [c3 EXCEPT !.mode = m]
    BY Changed
  <2>6. PICK c5 \in Chip : c5 = [c4 EXCEPT !.out = o]
    BY Changed
  <2>7. PICK c6 \in Chip : c6 = [c5 EXCEPT !.latched = l]
    BY Changed
  <2>8. x = c6
    BY <1>8, <2>2, <2>3, <2>4, <2>5, <2>6, <2>7
  <2> QED
    BY <2>8
<1>13. Asked(c) = c.mem[AddrOf(s)]
  BY <1>2, Zenon DEF Asked
<1> QED
  BY <1>2, <1>5, <1>6, <1>7, <1>9, <1>10, <1>11, <1>12, <1>13, Zenon

(* SK rises while the chip shifts out a word. *)
LEMMA ShiftedOut ==
    ASSUME NEW c \in Chip, NEW x, x = ChipClock(c), c.mode = "read",
           Len(c.out) > 1
    PROVE  /\ x \in Chip /\ x.sk = 1 /\ x.cs = c.cs /\ x.d = c.d
           /\ SameStore(x, c) /\ x.mode = "read" /\ x.shift = c.shift
           /\ x.out = Tail(c.out)
<1>1. c.out \in Seq(Bit) /\ Len(c.out) \in Nat
  BY LenProperties DEF Chip
<1>2. c.out # << >>
  BY <1>1, EmptySeq
<1>3. PICK t \in Seq(Bit) : t = Tail(c.out)
  BY <1>1, <1>2, HeadTailProperties
<1>4. x = [c EXCEPT !.sk = 1, !.out = t]
  BY <1>3 DEF ChipClock
<1>5. /\ x.sk = 1 /\ x.cs = c.cs /\ x.d = c.d /\ x.mode = c.mode
      /\ x.shift = c.shift /\ x.out = t
  BY <1>4, SMT DEF Chip
<1>6. SameStore(x, c)
  BY <1>4, SMT DEF Chip, SameStore
<1>7. x \in Chip
  <2>1. 1 \in Bit
    BY DEF Bit
  <2>2. PICK c1 \in Chip : c1 = [c EXCEPT !.sk = 1]
    BY <2>1, Changed
  <2>3. PICK c2 \in Chip : c2 = [c1 EXCEPT !.out = t]
    BY Changed
  <2>4. x = c2
    BY <1>4, <2>2, <2>3
  <2> QED
    BY <2>4
<1> QED
  BY <1>3, <1>5, <1>6, <1>7

(* SK rises and the chip does not look at D. *)
LEMMA Ignored ==
    ASSUME NEW c \in Chip,
           \/ c.mode \in {"off", "status"}
           \/ c.mode = "cmd" /\ c.d = 0 /\ c.shift = << >>
    PROVE  ChipClock(c) = [c EXCEPT !.sk = 1]
BY SMT DEF ChipClock

----------------------------------------------------------------------------
(* The chip at all times: it is selected exactly while it is in a mode, it *)
(* looks at a command only when it is not programming, and a word that it  *)
(* shows or has latched is a sign that it has taken one.                   *)
ChipInv ==
    /\ chip \in Chip
    /\ chip.mode = "off" <=> chip.cs = 0
    /\ chip.mode \in {"cmd", "read"} => chip.pending = None
    /\ chip.mode = "read" => taken
    /\ ~taken => chip.latched = None
    /\ taken \in BOOLEAN

(* A step that the store does not see. *)
Quiet == SameStore(chip', chip) /\ taken' = taken

(* What an access leaves alone. *)
Frame == /\ at' = at + 1 /\ err' = err
         /\ UNCHANGED <<gpio, status, op, part, phase, polls, answer, clean>>

(* An access of an output pin, with GPIO there. *)
LEMMA Access ==
    ASSUME PinStep, gpio, NEW pin, NEW v, part[at + 1] = <<pin, v>>, pin # "DI"
    PROVE  /\ chip' = ChipPin(chip, pin, v)
           /\ taken' = \/ taken
                       \/ chip'.mode = "read"
                       \/ pin = "CS" /\ v = 0 /\ Executes(chip) # "nothing"
           /\ Frame /\ read' = read
<1>1. part[at + 1][1] = pin /\ part[at + 1][2] = v
  BY SMT
<1> QED
  BY <1>1, Zenon DEF PinStep, Frame

(* D is set. *)
LEMMA SetsD ==
    ASSUME ChipInv, PinStep, gpio, NEW v \in Bit, part[at + 1] = <<"DO", v>>
    PROVE  /\ Frame /\ read' = read /\ Quiet /\ ChipInv'
           /\ chip'.d = v /\ chip'.sk = chip.sk /\ chip'.cs = chip.cs
           /\ SameCommand(chip', chip)
<1>1. "DO" # "DI" /\ "DO" # "CS"
  OBVIOUS
<1>2. /\ chip' = ChipPin(chip, "DO", v) /\ Frame /\ read' = read
      /\ taken' = (taken \/ chip'.mode = "read")
  BY <1>1, Access, Zenon
<1>3. chip' = [chip EXCEPT !.d = v]
  BY <1>2 DEF ChipPin
<1>4. /\ chip' \in Chip /\ SameStore(chip', chip) /\ SameCommand(chip', chip)
      /\ chip'.d = v /\ chip'.sk = chip.sk /\ chip'.cs = chip.cs
  BY <1>3, LinePins, Zenon DEF ChipInv
<1>5. taken' = taken
  BY <1>2, <1>4, Zenon DEF ChipInv, SameCommand
<1>6. ChipInv'
  BY <1>4, <1>5, Zenon DEF ChipInv, SameCommand, SameStore
<1> QED
  BY <1>2, <1>4, <1>5, <1>6, Zenon DEF Quiet

(* SK is set, and is not a rise that the chip would look at. *)
LEMMA SetsSK ==
    ASSUME ChipInv, PinStep, gpio, NEW v \in Bit, part[at + 1] = <<"SK", v>>,
           \/ v = 0
           \/ chip.cs = 0
           \/ chip.mode = "status"
           \/ chip.mode = "cmd" /\ chip.d = 0 /\ chip.shift = << >>
    PROVE  /\ Frame /\ read' = read /\ Quiet /\ ChipInv'
           /\ chip'.sk = v /\ chip'.d = chip.d /\ chip'.cs = chip.cs
           /\ SameCommand(chip', chip)
<1>1. "SK" # "DI" /\ "SK" # "CS" /\ "SK" # "DO"
  OBVIOUS
<1>2. /\ chip' = ChipPin(chip, "SK", v) /\ Frame /\ read' = read
      /\ taken' = (taken \/ chip'.mode = "read")
  BY <1>1, Access, Zenon
<1>3. chip' = [chip EXCEPT !.sk = v]
  <2>1. CASE v = 1 /\ chip.sk = 0 /\ chip.cs = 1
    <3>1. chip' = ChipClock(chip)
      BY <1>1, <1>2, <2>1, Zenon DEF ChipPin
    <3>2. \/ chip.mode \in {"off", "status"}
          \/ chip.mode = "cmd" /\ chip.d = 0 /\ chip.shift = << >>
      BY <2>1 DEF ChipInv
    <3> QED
      BY <2>1, <3>1, <3>2, Ignored DEF ChipInv
  <2>2. CASE ~(v = 1 /\ chip.sk = 0 /\ chip.cs = 1)
    BY <1>1, <1>2, <2>2, Zenon DEF ChipPin
  <2> QED
    BY <2>1, <2>2
<1>4. /\ chip' \in Chip /\ SameStore(chip', chip) /\ SameCommand(chip', chip)
      /\ chip'.sk = v /\ chip'.d = chip.d /\ chip'.cs = chip.cs
  BY <1>3, LinePins, Zenon DEF ChipInv
<1>5. taken' = taken
  BY <1>2, <1>4, Zenon DEF ChipInv, SameCommand
<1>6. ChipInv'
  BY <1>4, <1>5, Zenon DEF ChipInv, SameCommand, SameStore
<1> QED
  BY <1>2, <1>4, <1>5, <1>6, Zenon DEF Quiet

(* CS is set to 1. *)
LEMMA Selects ==
    ASSUME ChipInv, PinStep, gpio, part[at + 1] = <<"CS", 1>>
    PROVE  /\ Frame /\ read' = read /\ Quiet /\ ChipInv'
           /\ chip'.cs = 1 /\ chip'.sk = chip.sk /\ chip'.d = chip.d
           /\ chip.cs = 1 => SameCommand(chip', chip)
           /\ chip.cs = 0 => /\ chip'.shift = << >>
                             /\ chip'.mode = IF chip.pending # None THEN "status"
                                                                    ELSE "cmd"
<1>1. "CS" # "DI" /\ "CS" # "DO" /\ 1 # 0
  OBVIOUS
<1>2. /\ chip' = ChipPin(chip, "CS", 1) /\ Frame /\ read' = read
      /\ taken' = (taken \/ chip'.mode = "read")
  BY <1>1, Access, Zenon
<1>3. CASE chip.cs = 1
  <2>1. chip' = chip
    BY <1>1, <1>2, <1>3, Zenon DEF ChipPin
  <2>2. taken' = taken
    BY <1>2, <2>1, Zenon DEF ChipInv
  <2> QED
    BY <1>1, <1>2, <1>3, <2>1, <2>2, Zenon DEF Quiet, SameStore, SameCommand, ChipInv
<1>4. CASE chip.cs = 0
  <2>1. chip' = ChipSelect(chip)
    BY <1>1, <1>2, <1>4, Zenon DEF ChipPin
  <2>2. /\ chip' \in Chip /\ chip'.cs = 1 /\ chip'.sk = chip.sk
        /\ chip'.d = chip.d /\ chip'.shift = << >>
        /\ chip'.mode = IF chip.pending # None THEN "status" ELSE "cmd"
        /\ SameStore(chip', chip)
    BY <2>1, Selected DEF ChipInv
  <2>3. chip'.mode \in {"status", "cmd"} /\ chip'.mode # "read" /\ chip'.mode # "off"
    BY <2>2
  <2>4. taken' = taken
    BY <1>2, <2>3, Zenon DEF ChipInv
  <2>5. chip'.mode = "cmd" => chip'.pending = None
    BY <2>2 DEF SameStore
  <2>6. ChipInv'
    BY <1>1, <2>2, <2>3, <2>4, <2>5, Zenon DEF ChipInv, SameStore
  <2> QED
    BY <1>1, <1>2, <1>4, <2>2, <2>4, <2>6, Zenon DEF Quiet
<1>5. chip.cs = 0 \/ chip.cs = 1
  BY DEF ChipInv, Chip, Bit
<1> QED
  BY <1>3, <1>4, <1>5

(* CS is set to 0, and nothing is executed. *)
LEMMA Drops ==
    ASSUME ChipInv, PinStep, gpio, part[at + 1] = <<"CS", 0>>,
           Executes(chip) = "nothing"
    PROVE  /\ Frame /\ read' = read /\ Quiet /\ ChipInv'
           /\ chip'.cs = 0 /\ chip'.sk = chip.sk /\ chip'.d = chip.d
<1>1. "CS" # "DI" /\ "CS" # "DO" /\ 0 # 1
  OBVIOUS
<1>2. /\ chip' = ChipPin(chip, "CS", 0) /\ Frame /\ read' = read
      /\ taken' = (taken \/ chip'.mode = "read")
  BY <1>1, Access, Zenon
<1>3. CASE chip.cs = 0
  <2>1. chip' = chip
    BY <1>1, <1>2, <1>3, Zenon DEF ChipPin
  <2>2. taken' = taken
    BY <1>2, <2>1, Zenon DEF ChipInv
  <2> QED
    BY <1>2, <1>3, <2>1, <2>2, Zenon DEF Quiet, SameStore, ChipInv
<1>4. CASE chip.cs # 0
  <2>1. chip' = ChipDeselect(chip)
    BY <1>1, <1>2, <1>4, Zenon DEF ChipPin
  <2>2. /\ chip' \in Chip /\ chip'.cs = 0 /\ chip'.sk = chip.sk
        /\ chip'.d = chip.d /\ chip'.mode = "off"
        /\ chip'.mem = chip.mem /\ chip'.latched = chip.latched
        /\ chip'.wen = Enabled(chip) /\ chip'.pending = Programmed(chip)
    BY <2>1, Deselected, Zenon DEF ChipInv
  <2>3. Enabled(chip) = chip.wen /\ Programmed(chip) = chip.pending
    BY DEF Enabled, Programmed
  <2>4. chip'.mode # "read" /\ chip'.mode # "cmd"
    BY <2>2
  <2>5. taken' = taken
    BY <1>2, <2>4, Zenon DEF ChipInv
  <2>6. ChipInv'
    BY <2>2, <2>4, <2>5, Zenon DEF ChipInv
  <2> QED
    BY <1>2, <2>2, <2>3, <2>5, <2>6, Zenon DEF Quiet, SameStore
<1> QED
  BY <1>3, <1>4

(* DI is sampled. *)
LEMMA Samples ==
    ASSUME ChipInv, PinStep, gpio, part[at + 1] = <<"DI", 0>>
    PROVE  /\ Frame /\ Quiet /\ ChipInv' /\ chip' = chip
           /\ \E b \in ChipOut(chip) : read' = Append(read, b)
<1>1. part[at + 1][1] = "DI"
  BY SMT
<1>2. /\ Frame /\ chip' = chip /\ taken' = taken
      /\ \E b \in ChipOut(chip) : read' = Append(read, b)
  BY <1>1, Zenon DEF PinStep, Frame
<1> QED
  BY <1>2, Zenon DEF Quiet, SameStore, ChipInv

----------------------------------------------------------------------------
(* A command on its way: what is known at each access of its program. *)
OnTheWire ==
    /\ op \in Store!Operation /\ Store!Issued /\ gpio
    /\ phase = "send" /\ part = Program(op) /\ clean \in BOOLEAN

(* The chip has got the first q bits, or was busy and gets none. *)
Heard(q) ==
    \/ chip.mode = "status" /\ ~clean
    \/ /\ chip.mode = "cmd" /\ Len(chip.shift) = q
       /\ \A i \in 1 .. q : chip.shift[i] = CommandBits(op)[i]

(* r accesses of bit q + 1 have been made. *)
Sending(q, r) ==
    /\ at = 4 * q + r /\ ~taken /\ read = << >>
    /\ clean => chip.pending = None
    /\ r # 0 => chip.sk = 0
    /\ r = 3 => chip.d = CommandBits(op)[q + 1]
    /\ IF q = 0 /\ r \in {0, 1} THEN chip.cs = 0 ELSE chip.cs = 1 /\ Heard(q)

(* The next access of a bit that is being sent. *)
LEMMA SendAccess ==
    ASSUME OnTheWire, NEW q \in 0 .. Width(op) - 1
    PROVE  /\ q \in Nat
           /\ at = 4 * q + 0 => part[at + 1] = <<"SK", 0>>
           /\ at = 4 * q + 1 => part[at + 1] = <<"CS", 1>>
           /\ at = 4 * q + 2 => part[at + 1] = <<"DO", CommandBits(op)[q + 1]>>
           /\ at = 4 * q + 3 => part[at + 1] = <<"SK", 1>>
<1>1. Store!OnWire(op) /\ op \in Store!Operation /\ part = Program(op)
  BY DEF OnTheWire, Store!Issued
<1>2. Width(op) \in Nat /\ q \in Nat
  BY <1>1, CommandShape, SMT
<1>3. Sends(op)
  BY <1>1, ProgramPlaces
<1>4. /\ part[4 * q + 1] = <<"SK", 0>>
      /\ part[4 * q + 2] = <<"CS", 1>>
      /\ part[4 * q + 3] = <<"DO", CommandBits(op)[q + 1]>>
      /\ part[4 * q + 4] = <<"SK", 1>>
  BY <1>1, <1>3, Zenon DEF Sends
<1>5. /\ at = 4 * q + 0 => at + 1 = 4 * q + 1
      /\ at = 4 * q + 1 => at + 1 = 4 * q + 2
      /\ at = 4 * q + 2 => at + 1 = 4 * q + 3
      /\ at = 4 * q + 3 => at + 1 = 4 * q + 4
  BY <1>2, SMT
<1> QED
  BY <1>2, <1>4, <1>5, Zenon

(* Nothing about the command changes when chip and clean do not. *)
LEMMA HeardKept ==
    ASSUME NEW q, Heard(q), SameCommand(chip', chip), Frame
    PROVE  Heard(q)'
BY DEF Heard, SameCommand, Frame

(* The first three accesses of a bit: SK low, *)
LEMMA SendLow ==
    ASSUME OnTheWire, ChipInv, PinStep, NEW q \in 0 .. Width(op) - 1, Sending(q, 0)
    PROVE  Frame /\ Quiet /\ ChipInv' /\ Sending(q, 1)'
<1>1. q \in Nat /\ at = 4 * q + 0 /\ part[at + 1] = <<"SK", 0>>
  BY SendAccess, Zenon DEF Sending
<1>2. /\ Frame /\ read' = read /\ Quiet /\ ChipInv' /\ chip'.sk = 0
      /\ chip'.d = chip.d /\ chip'.cs = chip.cs /\ SameCommand(chip', chip)
  <2>1. 0 \in Bit
    BY DEF Bit
  <2> QED
    BY <1>1, <2>1, SetsSK, Zenon DEF OnTheWire
<1>3. at' = 4 * q + 1
  BY <1>1, <1>2, SMT DEF Frame
<1>4. IF q = 0 THEN chip.cs = 0 ELSE chip.cs = 1 /\ Heard(q)
  BY DEF Sending
<1>5. IF q = 0 THEN chip'.cs = 0 ELSE chip'.cs = 1 /\ Heard(q)'
  BY <1>2, <1>4, HeardKept
<1>6. ~taken' /\ read' = << >> /\ (clean' => chip'.pending = None)
  BY <1>2, Zenon DEF Sending, Quiet, SameStore, Frame
<1> QED
  BY <1>2, <1>3, <1>5, <1>6 DEF Sending

(* CS high, *)
LEMMA SendSelect ==
    ASSUME OnTheWire, ChipInv, PinStep, NEW q \in 0 .. Width(op) - 1, Sending(q, 1)
    PROVE  Frame /\ Quiet /\ ChipInv' /\ Sending(q, 2)'
<1>1. q \in Nat /\ at = 4 * q + 1 /\ part[at + 1] = <<"CS", 1>>
  BY SendAccess, Zenon DEF Sending
<1>2. /\ Frame /\ read' = read /\ Quiet /\ ChipInv'
      /\ chip'.cs = 1 /\ chip'.sk = chip.sk /\ chip'.d = chip.d
      /\ chip.cs = 1 => SameCommand(chip', chip)
      /\ chip.cs = 0 => /\ chip'.shift = << >>
                        /\ chip'.mode = IF chip.pending # None THEN "status"
                                                               ELSE "cmd"
  BY <1>1, Selects, Zenon DEF OnTheWire
<1>3. at' = 4 * q + 2
  BY <1>1, <1>2, SMT DEF Frame
<1>4. Heard(q)'
  <2>1. CASE q = 0
    <3>1. chip.cs = 0 /\ (clean => chip.pending = None)
      BY <2>1 DEF Sending
    <3>2. /\ chip'.shift = << >>
          /\ chip'.mode = IF chip.pending # None THEN "status" ELSE "cmd"
      BY <1>2, <3>1
    <3>3. Len(chip'.shift) = q /\ 1 .. q = {}
      BY <2>1, <3>2, EmptySeq, SMT
    <3> QED
      BY <1>2, <3>1, <3>2, <3>3, Zenon DEF Heard, Frame
  <2>2. CASE q # 0
    BY <1>2, <2>2, HeardKept DEF Sending
  <2> QED
    BY <2>1, <2>2
<1>5. ~taken' /\ read' = << >> /\ (clean' => chip'.pending = None) /\ chip'.sk = 0
  <2>1. chip.sk = 0 /\ ~taken /\ read = << >> /\ (clean => chip.pending = None)
    BY DEF Sending
  <2> QED
    BY <1>2, <2>1, Zenon DEF Quiet, SameStore, Frame
<1> QED
  BY <1>2, <1>3, <1>4, <1>5 DEF Sending

(* and D. *)
LEMMA SendData ==
    ASSUME OnTheWire, ChipInv, PinStep, NEW q \in 0 .. Width(op) - 1, Sending(q, 2)
    PROVE  Frame /\ Quiet /\ ChipInv' /\ Sending(q, 3)'
<1>1. q \in Nat /\ at = 4 * q + 2
      /\ part[at + 1] = <<"DO", CommandBits(op)[q + 1]>>
  BY SendAccess, Zenon DEF Sending
<1>2. CommandBits(op)[q + 1] \in Bit
  <2>1. CommandBits(op) \in Seq(Bit) /\ Len(CommandBits(op)) = Width(op)
        /\ Width(op) \in Nat
    BY CommandShape DEF OnTheWire, Store!Issued
  <2>2. q + 1 \in 1 .. Len(CommandBits(op))
    BY <2>1, SMT
  <2> QED
    BY <2>1, <2>2, ElementOfSeq
<1>3. /\ Frame /\ read' = read /\ Quiet /\ ChipInv'
      /\ chip'.d = CommandBits(op)[q + 1] /\ chip'.sk = chip.sk
      /\ chip'.cs = chip.cs /\ SameCommand(chip', chip)
  BY <1>1, <1>2, SetsD, Zenon DEF OnTheWire
<1>4. at' = 4 * q + 3
  BY <1>1, <1>3, SMT DEF Frame
<1>5. chip.sk = 0 /\ ~taken /\ read = << >> /\ (clean => chip.pending = None)
      /\ chip.cs = 1 /\ Heard(q)
  BY DEF Sending
<1>6. Heard(q)' /\ chip'.cs = 1
  BY <1>3, <1>5, HeardKept
<1>7. ~taken' /\ read' = << >> /\ (clean' => chip'.pending = None) /\ chip'.sk = 0
  BY <1>3, <1>5, Zenon DEF Quiet, SameStore, Frame
<1>8. chip'.d = CommandBits(op')[q + 1]
  BY <1>3 DEF Frame
<1> QED
  BY <1>3, <1>4, <1>6, <1>7, <1>8 DEF Sending

(* After k clocks the rest of the word is on its way out. *)
Shown(k) ==
    /\ Len(chip.out) = DataBits + 1 - k
    /\ \A j \in 1 .. DataBits + 1 - k :
          k + j > 1 => chip.out[j] = chip.latched[k + j - 1]

(* What was read is what the chip has latched. *)
ReadOut == \A j \in 1 .. Len(read) : read[j] = chip.latched[j]

(* r accesses of bit i + 1 of the word have been made. *)
Reading(i, r) ==
    /\ at = 4 * Width(op) + (4 * i + r)
    /\ chip.cs = 1
    /\ r \in {1, 2} => chip.sk = 0
    /\ read \in Seq(Bit) /\ Len(read) = i
    /\ \/ chip.mode = "status" /\ ~clean /\ ~taken
       \/ /\ chip.mode = "read" /\ taken /\ chip.latched \in Words
          /\ Shown(IF r = 3 THEN i + 1 ELSE i) /\ ReadOut

(* j accesses of FinishCommand have been made. *)
Finishing(j) ==
    /\ at = Start(op) + j
    /\ IF j \in {0, 1} THEN chip.cs = 1 ELSE chip.cs = 0
    /\ j \in 3 .. 8 => chip.d = 0
    /\ j = 8 => chip.sk = 0
    /\ IF op.cmd = "READ"
         THEN /\ read \in Seq(Bit) /\ Len(read) = DataBits
              /\ clean => taken /\ chip.latched \in Words /\ ReadOut
              /\ chip.mode # "cmd"
         ELSE /\ read = << >>
              /\ j \in {0, 1} => ~taken /\ Heard(Width(op))
              /\ j \notin {0, 1} /\ clean => taken

(* The bit that the chip shifts in is the next one of the command. *)
LEMMA ShiftIn ==
    ASSUME OnTheWire, ChipInv, NEW q \in 0 .. Width(op) - 1, Sending(q, 3),
           chip.mode = "cmd", NEW s, s = Grown(chip)
    PROVE  /\ s \in Seq(Bit) /\ Len(s) = q + 1
           /\ \A i \in 1 .. q + 1 : s[i] = CommandBits(op)[i]
           /\ chip.d = 1 \/ chip.shift # << >>
<1>1. /\ op \in Store!Operation /\ Store!OnWire(op)
      /\ chip.shift \in Seq(Bit) /\ chip.d \in Bit
  BY DEF OnTheWire, Store!Issued, ChipInv, Chip
<1>2. /\ Len(chip.shift) = q /\ chip.d = CommandBits(op)[q + 1]
      /\ \A i \in 1 .. q : chip.shift[i] = CommandBits(op)[i]
  BY DEF Sending, Heard
<1>3. q \in Nat
  BY <1>1, CommandShape, SMT
<1>4. /\ s \in Seq(Bit) /\ Len(s) = Len(chip.shift) + 1
      /\ \A i \in 1 .. Len(chip.shift) : s[i] = chip.shift[i]
      /\ s[Len(chip.shift) + 1] = chip.d
  BY <1>1, AppendProperties DEF Grown
<1>5. \A i \in 1 .. q + 1 : s[i] = CommandBits(op)[i]
  <2> SUFFICES ASSUME NEW i \in 1 .. q + 1 PROVE s[i] = CommandBits(op)[i]
    OBVIOUS
  <2>1. i \in 1 .. q \/ i = q + 1
    BY <1>3, SMT
  <2> QED
    BY <1>2, <1>4, <2>1, Zenon
<1>6. chip.d = 1 \/ chip.shift # << >>
  <2>1. CASE q = 0
    <3>1. q + 1 = 1
      BY <2>1, SMT
    <3>2. CommandBits(op)[1] = 1
      BY <1>1, CommandShape
    <3> QED
      BY <1>2, <3>1, <3>2, Zenon
  <2>2. CASE q # 0
    BY <1>2, <2>2, EmptySeq
  <2> QED
    BY <2>1, <2>2
<1> QED
  BY <1>2, <1>4, <1>5, <1>6, Zenon

(* Only the last bit of READ makes the chip answer. *)
LEMMA ReadsAtEnd ==
    ASSUME OnTheWire, NEW q \in 0 .. Width(op) - 1, NEW s, Len(s) = q + 1,
           \A i \in 1 .. q + 1 : s[i] = CommandBits(op)[i]
    PROVE  /\ Answers(s) <=> op.cmd = "READ" /\ q + 1 = Width(op)
           /\ op.cmd = "READ" /\ q + 1 = Width(op) => AddrOf(s) = op.addr
<1>1. /\ op \in Store!Operation /\ Store!OnWire(op) /\ op.addr \in Addrs
  BY DEF OnTheWire, Store!Issued, Store!Operation
<1>2. /\ Width(op) \in Nat /\ AddrBits \in Nat /\ AddrBits >= 2
  BY <1>1, CommandShape, WidthAssumption
<1>3. CASE op.cmd = "READ"
  <2>1. Width(op) = 3 + AddrBits
    BY <1>3 DEF Width
  <2>2. CASE q + 1 = Width(op)
    <3>1. /\ 2 \in 1 .. q + 1 /\ 3 \in 1 .. q + 1
          /\ \A i \in 1 .. AddrBits : 3 + i \in 1 .. q + 1
      BY <1>2, <2>1, <2>2, SMT
    <3>2. /\ CommandBits(op)[2] = 1 /\ CommandBits(op)[3] = 0
          /\ \A i \in 1 .. AddrBits : CommandBits(op)[3 + i] = op.addr[i]
      BY <1>1, <1>3, ReadCommand
    <3>3. s[2] = 1 /\ s[3] = 0 /\ \A i \in 1 .. AddrBits : s[3 + i] = op.addr[i]
      BY <3>1, <3>2, Zenon
    <3>4. OpcodeOf(s) = <<1, 0>> /\ AddrOf(s) = op.addr
      BY <1>1, <3>3, AddrFound DEF OpcodeOf
    <3> QED
      BY <1>3, <2>1, <2>2, <3>4, Zenon DEF Answers
  <2>3. CASE q + 1 # Width(op)
    BY <1>3, <2>1, <2>3, Zenon DEF Answers
  <2> QED
    BY <2>2, <2>3
<1>4. CASE op.cmd # "READ"
  <2>1. ASSUME Len(s) = 3 + AddrBits PROVE OpcodeOf(s) # <<1, 0>>
    <3>1. 2 \in 1 .. q + 1
      BY <1>2, <2>1, SMT
    <3>2. CommandBits(op)[2] = 0
      BY <1>1, <1>4, CommandShape
    <3>3. s[2] = 0
      BY <3>1, <3>2, Zenon
    <3> QED
      BY <3>3, SMT DEF OpcodeOf
  <2> QED
    BY <1>4, <2>1, Zenon DEF Answers
<1> QED
  BY <1>3, <1>4

(* The word on its way out when the chip has just taken a READ. *)
LEMMA ShownFirst ==
    ASSUME NEW w \in Words, NEW o, o = <<0>> \o w
    PROVE  /\ Len(o) = DataBits + 1 - 0
           /\ \A j \in 1 .. DataBits + 1 - 0 : 0 + j > 1 => o[j] = w[0 + j - 1]
<1>1. DataBits \in Nat
  BY WidthAssumption
<1>2. w \in Seq(Bit) /\ Len(w) = DataBits
  BY <1>1, FunctionSeq DEF Words
<1>a. <<0>> \in Seq(Bit)
  BY DEF Bit
<1>b. Len(<<0>>) = 1
  OBVIOUS
<1>3. PICK h \in Seq(Bit) : h = <<0>> /\ Len(h) = 1
  BY <1>a, <1>b, Zenon
<1>4. /\ Len(h \o w) = Len(h) + Len(w)
      /\ \A i \in 1 .. Len(w) : (h \o w)[Len(h) + i] = w[i]
  BY <1>2, Joined, Zenon
<1>5. /\ Len(o) = 1 + DataBits
      /\ \A i \in 1 .. DataBits : o[1 + i] = w[i]
  BY <1>2, <1>3, <1>4, Zenon
<1>6. ASSUME NEW j \in 1 .. DataBits + 1 - 0, 0 + j > 1
      PROVE  o[j] = w[0 + j - 1]
  <2>1. PICK i \in 1 .. DataBits : i = j - 1
    BY <1>1, <1>6, SMT
  <2>2. j = 1 + i /\ 0 + j - 1 = i
    BY <1>1, <2>1, SMT
  <2> QED
    BY <1>5, <2>2, Zenon
<1> QED
  BY <1>1, <1>5, <1>6

(* What a command on its way keeps from access to access. *)
LEMMA WireKept ==
    ASSUME OnTheWire, Frame
    PROVE  /\ OnTheWire' /\ op' = op /\ clean' = clean
           /\ Width(op') = Width(op) /\ Start(op') = Start(op)
           /\ Width(op) \in Nat /\ Width(op) >= 5
           /\ Store!OnWire(op) /\ op \in Store!Operation
<1>1. Store!OnWire(op) /\ op \in Store!Operation
  BY DEF OnTheWire, Store!Issued
<1>2. op' = op /\ clean' = clean
  BY DEF Frame
<1>3. OnTheWire'
  BY Zenon DEF OnTheWire, Frame, Store!Issued
<1>4. Width(op') = Width(op) /\ Start(op') = Start(op)
  BY <1>2, Zenon
<1> QED
  BY <1>1, <1>2, <1>3, <1>4, CommandShape

(* Where the driver is when a bit has been sent. *)
SentBit(q) == IF q + 1 < Width(op) THEN Sending(q + 1, 0)
              ELSE IF op.cmd = "READ" THEN Reading(0, 0) ELSE Finishing(0)

(* The driver gets there when the chip has, or ignores, q + 1 bits. *)
LEMMA BitSent ==
    ASSUME OnTheWire, Frame, NEW q \in 0 .. Width(op) - 1, at = 4 * q + 3,
           ~taken', read' = << >>, clean' => chip'.pending = None,
           chip'.cs = 1, Heard(q + 1)',
           op.cmd = "READ" /\ q + 1 = Width(op) => chip'.mode = "status"
    PROVE  SentBit(q)'
<1>1. /\ op' = op /\ Width(op') = Width(op) /\ Start(op') = Start(op)
      /\ Width(op) \in Nat
  BY WireKept, Zenon
<1>2. q \in Nat /\ at' = 4 * (q + 1) + 0 /\ q + 1 # 0 /\ 0 # 3
  BY <1>1, SMT DEF Frame
<1>3. CASE q + 1 < Width(op)
  <2>1. Sending(q + 1, 0)'
    BY <1>2, Zenon DEF Sending
  <2> QED
    BY <1>1, <1>3, <2>1 DEF SentBit
<1>4. CASE ~(q + 1 < Width(op))
  <2>1. q + 1 = Width(op)
    BY <1>1, <1>2, <1>4, SMT
  <2>2. CASE op.cmd = "READ"
    <3>1. chip'.mode = "status" /\ ~clean'
      BY <2>1, <2>2 DEF Heard
    <3>2. at' = 4 * Width(op') + (4 * 0 + 0)
      BY <1>1, <1>2, <2>1, SMT
    <3>3. read' \in Seq(Bit) /\ Len(read') = 0
      BY EmptySeq
    <3>4. Reading(0, 0)'
      BY <3>1, <3>2, <3>3, SMT DEF Reading
    <3> QED
      BY <1>1, <1>4, <2>2, <3>4 DEF SentBit
  <2>3. CASE op.cmd # "READ"
    <3>1. at' = Start(op') + 0
      BY <1>1, <1>2, <2>1, <2>3, SMT DEF Start
    <3>2. Heard(Width(op))'
      BY <1>1, <2>1, Zenon
    <3>3. Finishing(0)'
      BY <1>1, <2>3, <3>1, <3>2, SMT DEF Finishing
    <3> QED
      BY <1>1, <1>4, <2>3, <3>3 DEF SentBit
  <2> QED
    BY <2>2, <2>3
<1> QED
  BY <1>3, <1>4

(* SK rises on a chip that is still busy, *)
LEMMA SendToBusy ==
    ASSUME OnTheWire, ChipInv, PinStep, NEW q \in 0 .. Width(op) - 1, Sending(q, 3),
           chip.mode = "status"
    PROVE  Frame /\ Quiet /\ ChipInv' /\ SentBit(q)'
<1>1. at = 4 * q + 3 /\ part[at + 1] = <<"SK", 1>>
  BY SendAccess, Zenon DEF Sending
<1>2. /\ Frame /\ read' = read /\ Quiet /\ ChipInv'
      /\ chip'.d = chip.d /\ chip'.cs = chip.cs /\ SameCommand(chip', chip)
  <2>1. 1 \in Bit
    BY DEF Bit
  <2> QED
    BY <1>1, <2>1, SetsSK, Zenon DEF OnTheWire
<1>3. chip.cs = 1 /\ ~clean /\ ~taken /\ read = << >>
  BY DEF Sending, Heard
<1>4. Heard(q + 1)' /\ chip'.mode = "status" /\ ~clean'
  BY <1>2, <1>3, Zenon DEF Heard, SameCommand, Frame
<1>5. chip'.cs = 1 /\ ~taken' /\ read' = << >>
  BY <1>2, <1>3, Zenon DEF Quiet
<1>6. SentBit(q)'
  BY <1>1, <1>2, <1>4, <1>5, BitSent
<1> QED
  BY <1>2, <1>6

(* on one that shifts in the bit, *)
LEMMA SendClocked ==
    ASSUME OnTheWire, ChipInv, PinStep, NEW q \in 0 .. Width(op) - 1, Sending(q, 3),
           chip.mode = "cmd"
    PROVE  /\ Frame /\ read' = << >>
           /\ chip' = ChipClock(chip)
           /\ taken' = (chip'.mode = "read")
<1>1. at = 4 * q + 3 /\ part[at + 1] = <<"SK", 1>>
  BY SendAccess, Zenon DEF Sending
<1>2. "SK" # "DI" /\ "SK" # "CS" /\ "SK" # "DO"
  OBVIOUS
<1>3. /\ chip' = ChipPin(chip, "SK", 1) /\ Frame /\ read' = read
      /\ taken' = (taken \/ chip'.mode = "read")
  BY <1>1, <1>2, Access, Zenon DEF OnTheWire
<1>a. chip.sk = 0 /\ chip.cs = 1 /\ ~taken /\ read = << >>
  BY DEF Sending
<1>4. chip.sk = 0 /\ chip.cs = 1 /\ taken = FALSE /\ read = << >>
  BY <1>a, Zenon DEF ChipInv
<1>5. chip' = ChipClock(chip)
  BY <1>2, <1>3, <1>4, Zenon DEF ChipPin
<1> QED
  BY <1>3, <1>4, <1>5, Zenon

(* so that it has one bit more of the command, *)
LEMMA SendToReady ==
    ASSUME OnTheWire, ChipInv, PinStep, NEW q \in 0 .. Width(op) - 1, Sending(q, 3),
           chip.mode = "cmd", ~(op.cmd = "READ" /\ q + 1 = Width(op))
    PROVE  Frame /\ Quiet /\ ChipInv' /\ SentBit(q)'
<1>1. Frame /\ read' = << >> /\ chip' = ChipClock(chip)
      /\ taken' = (chip'.mode = "read")
  BY SendClocked, Zenon
<1>2. PICK s : s = Grown(chip)
  BY Zenon
<1>3. /\ s \in Seq(Bit) /\ Len(s) = q + 1
      /\ \A i \in 1 .. q + 1 : s[i] = CommandBits(op)[i]
      /\ chip.d = 1 \/ chip.shift # << >>
  BY <1>2, ShiftIn, Zenon
<1>4. ~Answers(s)
  BY <1>3, ReadsAtEnd, Zenon
<1>6. /\ chip' \in Chip /\ chip'.cs = chip.cs
      /\ chip'.mem = chip.mem /\ chip'.wen = chip.wen
      /\ chip'.pending = chip.pending /\ chip'.shift = s
      /\ chip'.mode = "cmd" /\ chip'.latched = chip.latched
  BY <1>1, <1>2, <1>3, <1>4, Shifted, Zenon DEF ChipInv
<1>7. "cmd" # "read" /\ "cmd" # "off" /\ "cmd" # "status" /\ 1 # 0
  OBVIOUS
<1>8. chip.cs = 1 /\ ~taken /\ at = 4 * q + 3 /\ (clean => chip.pending = None)
  BY DEF Sending
<1>9. ~taken' /\ Quiet
  BY <1>1, <1>6, <1>7, <1>8, Zenon DEF Quiet, SameStore, ChipInv
<1>10. ChipInv'
  BY <1>6, <1>7, <1>8, <1>9, Zenon DEF ChipInv, Quiet
<1>11. op' = op /\ clean' = clean
  BY <1>1, WireKept, Zenon
<1>12. Heard(q + 1)'
  BY <1>3, <1>6, <1>11, Zenon DEF Heard
<1>13. SentBit(q)'
  <2>1. clean' => chip'.pending = None
    BY <1>6, <1>8, <1>11, Zenon
  <2>2. chip'.cs = 1
    BY <1>6, <1>8, Zenon
  <2> QED
    BY <1>1, <1>8, <1>9, <1>12, <2>1, <2>2, BitSent
<1> QED
  BY <1>1, <1>9, <1>10, <1>13

(* and with the last bit of READ on one that takes the command. *)
LEMMA SendRead ==
    ASSUME OnTheWire, ChipInv, PinStep, NEW q \in 0 .. Width(op) - 1, Sending(q, 3),
           chip.mode = "cmd", op.cmd = "READ", q + 1 = Width(op)
    PROVE  Frame /\ Store!Take /\ ChipInv' /\ SentBit(q)'
<1>1. Frame /\ read' = << >> /\ chip' = ChipClock(chip)
      /\ taken' = (chip'.mode = "read")
  BY SendClocked, Zenon
<1>2. PICK s : s = Grown(chip)
  BY Zenon
<1>3. /\ s \in Seq(Bit) /\ Len(s) = q + 1
      /\ \A i \in 1 .. q + 1 : s[i] = CommandBits(op)[i]
      /\ chip.d = 1 \/ chip.shift # << >>
  BY <1>2, ShiftIn, Zenon
<1>4. Answers(s) /\ AddrOf(s) = op.addr
  BY <1>3, ReadsAtEnd, Zenon
<1>6. /\ chip' \in Chip /\ chip'.cs = chip.cs
      /\ chip'.mem = chip.mem /\ chip'.wen = chip.wen
      /\ chip'.pending = chip.pending
      /\ chip'.mode = "read" /\ chip'.latched = chip.mem[op.addr]
      /\ chip'.out = <<0>> \o chip.mem[op.addr]
  <2>1. chip \in Chip
    BY DEF ChipInv
  <2>2. /\ chip' \in Chip /\ chip'.cs = chip.cs
        /\ chip'.mem = chip.mem /\ chip'.wen = chip.wen
        /\ chip'.pending = chip.pending
        /\ chip'.mode = "read" /\ chip'.latched = Asked(chip)
        /\ chip'.out = <<0>> \o Asked(chip)
    BY <1>1, <1>2, <1>3, <1>4, <2>1, Shifted, Zenon
  <2>3. Asked(chip) = chip.mem[op.addr]
    BY <1>2, <1>4, Zenon DEF Asked
  <2> QED
    BY <2>2, <2>3, Zenon
<1>7. "cmd" # "read" /\ "read" # "off" /\ "cmd" # "status" /\ 1 # 0
  OBVIOUS
<1>8. chip.cs = 1 /\ ~taken /\ at = 4 * q + 3
  BY DEF Sending
<1>9. chip.pending = None /\ chip.mem \in Store!Memory
  BY DEF ChipInv, Chip
<1>10. taken' = TRUE
  BY <1>1, <1>6, Zenon
<1>11. op' = op /\ clean' = clean /\ Width(op') = Width(op) /\ Width(op) \in Nat
       /\ op \in Store!Operation
  BY <1>1, WireKept, Zenon
<1>12. chip.mem[op.addr] \in Words
  BY <1>9, <1>11 DEF Store!Operation, Store!Memory
<1>13. ChipInv'
  BY <1>6, <1>7, <1>8, <1>9, <1>10, Zenon DEF ChipInv
<1>14. Store!Take
  <2>1. ~Store!Programs(op) /\ op.cmd \notin {"ENABLE", "DISABLE"}
    BY DEF Store!Programs
  <2>2. Store!Issued
    BY DEF OnTheWire
  <2>3. UNCHANGED <<status, op, clean, answer>>
    BY <1>1 DEF Frame
  <2> QED
    BY <1>6, <1>8, <1>9, <1>10, <2>1, <2>2, <2>3, Zenon DEF Store!Take
<1>15. Reading(0, 0)'
  <2>1. at' = 4 * Width(op') + (4 * 0 + 0)
    BY <1>1, <1>8, <1>11, SMT DEF Frame
  <2>2. read' \in Seq(Bit) /\ Len(read') = 0
    BY <1>1, EmptySeq
  <2>3. Shown(0)'
    BY <1>6, <1>12, ShownFirst, Zenon DEF Shown
  <2>4. ReadOut'
    BY <2>2, SMT DEF ReadOut
  <2>5. (IF 0 = 3 THEN 0 + 1 ELSE 0) = 0 /\ 0 \notin {1, 2}
    BY SMT
  <2> QED
    BY <1>6, <1>8, <1>10, <1>12, <2>1, <2>2, <2>3, <2>4, <2>5, Zenon DEF Reading
<1>16. SentBit(q)'
  <2>1. ~(q + 1 < Width(op))
    BY <1>11, SMT
  <2> QED
    BY <1>11, <1>15, <2>1, Zenon DEF SentBit
<1> QED
  BY <1>1, <1>13, <1>14, <1>16

(* The next access while the word is read. *)
LEMMA ReadAccess ==
    ASSUME OnTheWire, op.cmd = "READ", NEW i \in 0 .. DataBits - 1
    PROVE  LET a == 4 * Width(op) IN
           /\ i \in Nat /\ Width(op) \in Nat /\ DataBits \in Nat
           /\ at = a + (4 * i + 0) => part[at + 1] = <<"SK", 0>>
           /\ at = a + (4 * i + 1) => part[at + 1] = <<"CS", 1>>
           /\ at = a + (4 * i + 2) => part[at + 1] = <<"SK", 1>>
           /\ at = a + (4 * i + 3) => part[at + 1] = <<"DI", 0>>
<1>1. Store!OnWire(op) /\ op \in Store!Operation /\ part = Program(op)
  BY DEF OnTheWire, Store!Issued
<1>2. Width(op) \in Nat /\ i \in Nat /\ DataBits \in Nat
  BY <1>1, CommandShape, WidthAssumption, SMT
<1>3. Reads(op)
  BY <1>1, ProgramPlaces
<1>4. PICK a \in Nat : a = 4 * Width(op)
  BY <1>2, SMT
<1>5. /\ part[a + (4 * i + 1)] = <<"SK", 0>>
      /\ part[a + (4 * i + 2)] = <<"CS", 1>>
      /\ part[a + (4 * i + 3)] = <<"SK", 1>>
      /\ part[a + (4 * i + 4)] = <<"DI", 0>>
  BY <1>1, <1>3, <1>4, Zenon DEF Reads
<1>6. /\ at = a + (4 * i + 0) => at + 1 = a + (4 * i + 1)
      /\ at = a + (4 * i + 1) => at + 1 = a + (4 * i + 2)
      /\ at = a + (4 * i + 2) => at + 1 = a + (4 * i + 3)
      /\ at = a + (4 * i + 3) => at + 1 = a + (4 * i + 4)
  BY <1>2, <1>4, SMT
<1> QED
  BY <1>2, <1>4, <1>5, <1>6, Zenon

(* What the chip does with the word while k bits have been clocked out. *)
Answering(k) ==
    \/ chip.mode = "status" /\ ~clean /\ ~taken
    \/ /\ chip.mode = "read" /\ taken /\ chip.latched \in Words
       /\ Shown(k) /\ ReadOut

(* An access that the chip does not look at changes none of it. *)
LEMMA AnsweringKept ==
    ASSUME Frame, Quiet, SameCommand(chip', chip), read' = read,
           NEW k, Answering(k)
    PROVE  Answering(k)'
BY Zenon DEF Answering, Frame, Quiet, SameStore, SameCommand, Shown, ReadOut

(* SK low, *)
LEMMA ReadLow ==
    ASSUME OnTheWire, ChipInv, PinStep, op.cmd = "READ",
           NEW i \in 0 .. DataBits - 1, Reading(i, 0)
    PROVE  Frame /\ Quiet /\ ChipInv' /\ Reading(i, 1)'
<1>1. /\ i \in Nat /\ Width(op) \in Nat
      /\ at = 4 * Width(op) + (4 * i + 0) /\ part[at + 1] = <<"SK", 0>>
  BY ReadAccess, Zenon DEF Reading
<1>2. /\ Frame /\ read' = read /\ Quiet /\ ChipInv' /\ chip'.sk = 0
      /\ chip'.cs = chip.cs /\ SameCommand(chip', chip)
  <2>1. 0 \in Bit
    BY DEF Bit
  <2> QED
    BY <1>1, <2>1, SetsSK, Zenon DEF OnTheWire
<1>3. chip.cs = 1 /\ read \in Seq(Bit) /\ Len(read) = i /\ Answering(i)
  BY DEF Reading, Answering
<1>4. Answering(i)'
  BY <1>2, <1>3, AnsweringKept, Zenon
<1>5. at' = 4 * Width(op') + (4 * i + 1)
  BY <1>1, <1>2, WireKept, SMT DEF Frame
<1>6. chip'.cs = 1 /\ read' \in Seq(Bit) /\ Len(read') = i
  BY <1>2, <1>3
<1>7. Reading(i, 1)'
  BY <1>2, <1>4, <1>5, <1>6 DEF Reading, Answering
<1> QED
  BY <1>2, <1>7

(* CS, which is high, *)
LEMMA ReadSelect ==
    ASSUME OnTheWire, ChipInv, PinStep, op.cmd = "READ",
           NEW i \in 0 .. DataBits - 1, Reading(i, 1)
    PROVE  Frame /\ Quiet /\ ChipInv' /\ Reading(i, 2)'
<1>1. /\ i \in Nat /\ Width(op) \in Nat
      /\ at = 4 * Width(op) + (4 * i + 1) /\ part[at + 1] = <<"CS", 1>>
  BY ReadAccess, Zenon DEF Reading
<1>2. chip.cs = 1 /\ read \in Seq(Bit) /\ Len(read) = i /\ Answering(i)
      /\ chip.sk = 0
  BY DEF Reading, Answering
<1>3. /\ Frame /\ read' = read /\ Quiet /\ ChipInv' /\ chip'.sk = 0
      /\ chip'.cs = 1 /\ SameCommand(chip', chip)
  BY <1>1, <1>2, Selects, Zenon DEF OnTheWire
<1>4. Answering(i)'
  BY <1>2, <1>3, AnsweringKept, Zenon
<1>5. at' = 4 * Width(op') + (4 * i + 2)
  BY <1>1, <1>3, WireKept, SMT DEF Frame
<1>6. read' \in Seq(Bit) /\ Len(read') = i
  BY <1>2, <1>3
<1>7. Reading(i, 2)'
  BY <1>3, <1>4, <1>5, <1>6 DEF Reading, Answering
<1> QED
  BY <1>3, <1>7

(* SK high, which makes the chip show the next bit, *)
LEMMA ReadClock ==
    ASSUME OnTheWire, ChipInv, PinStep, op.cmd = "READ",
           NEW i \in 0 .. DataBits - 1, Reading(i, 2)
    PROVE  Frame /\ Quiet /\ ChipInv' /\ Reading(i, 3)'
<1>1. /\ i \in Nat /\ Width(op) \in Nat /\ DataBits \in Nat
      /\ at = 4 * Width(op) + (4 * i + 2) /\ part[at + 1] = <<"SK", 1>>
  BY ReadAccess, Zenon DEF Reading
<1>2. chip.cs = 1 /\ read \in Seq(Bit) /\ Len(read) = i /\ Answering(i)
      /\ chip.sk = 0
  BY DEF Reading, Answering
<1>3. /\ Frame /\ read' = read /\ Quiet /\ ChipInv' /\ chip'.cs = 1
      /\ Answering(i + 1)'
  <2>1. CASE chip.mode = "status"
    <3>1. /\ Frame /\ read' = read /\ Quiet /\ ChipInv'
          /\ chip'.cs = chip.cs /\ SameCommand(chip', chip)
      <4>1. 1 \in Bit
        BY DEF Bit
      <4> QED
        BY <1>1, <2>1, <4>1, SetsSK, Zenon DEF OnTheWire
    <3>2. ~clean /\ ~taken
      BY <1>2, <2>1 DEF Answering
    <3>3. Answering(i + 1)'
      BY <2>1, <3>1, <3>2, Zenon DEF Answering, Frame, Quiet, SameCommand
    <3> QED
      BY <1>2, <3>1, <3>3, Zenon
  <2>2. CASE chip.mode # "status"
    <3>1. /\ chip.mode = "read" /\ taken /\ chip.latched \in Words
          /\ Shown(i) /\ ReadOut
      BY <1>2, <2>2, Zenon DEF Answering
    <3>2. "SK" # "DI" /\ "SK" # "CS" /\ "SK" # "DO"
      OBVIOUS
    <3>3. /\ chip' = ChipPin(chip, "SK", 1) /\ Frame /\ read' = read
          /\ taken' = (taken \/ chip'.mode = "read")
      BY <1>1, <3>2, Access, Zenon DEF OnTheWire
    <3>4. chip' = ChipClock(chip)
      BY <1>2, <3>2, <3>3, Zenon DEF ChipPin
    <3>5. /\ Len(chip.out) = DataBits + 1 - i /\ Len(chip.out) > 1
          /\ chip \in Chip /\ chip.out \in Seq(Bit)
      <4>1. chip \in Chip /\ chip.out \in Seq(Bit)
        BY DEF ChipInv, Chip
      <4>2. Len(chip.out) = DataBits + 1 - i
        BY <3>1 DEF Shown
      <4>3. DataBits + 1 - i > 1
        BY <1>1, SMT
      <4> QED
        BY <4>1, <4>2, <4>3
    <3>6. /\ chip' \in Chip /\ chip'.cs = chip.cs /\ SameStore(chip', chip)
          /\ chip'.mode = "read" /\ chip'.out = Tail(chip.out)
      BY <3>1, <3>4, <3>5, ShiftedOut, Zenon
    <3>7. taken' = taken
      BY <3>1, <3>3, Zenon DEF ChipInv
    <3>8. Shown(i + 1)'
      <4>1. /\ Len(Tail(chip.out)) = Len(chip.out) - 1
            /\ \A j \in 1 .. Len(chip.out) - 1 : Tail(chip.out)[j] = chip.out[j + 1]
        <5>1. chip.out # << >>
          BY <3>5, EmptySeq
        <5> QED
          BY <3>5, <5>1, HeadTailProperties
      <4>2. Len(chip.out) - 1 = DataBits + 1 - (i + 1)
        BY <1>1, <3>5, SMT
      <4>3. ASSUME NEW j \in 1 .. DataBits + 1 - (i + 1)
            PROVE  Tail(chip.out)[j] = chip.latched[i + 1 + j - 1]
        <5>1. PICK k \in 1 .. DataBits + 1 - i : k = j + 1
          BY <1>1, SMT
        <5>2. i + k > 1 /\ i + k - 1 = i + 1 + j - 1
          BY <1>1, <5>1, SMT
        <5>3. chip.out[k] = chip.latched[i + k - 1]
          BY <3>1, <5>2, Zenon DEF Shown
        <5> QED
          BY <4>1, <4>2, <5>1, <5>2, <5>3, Zenon
      <4> QED
        BY <3>6, <4>1, <4>2, <4>3, Zenon DEF Shown, SameStore
    <3>9. Quiet /\ ReadOut' /\ chip'.latched \in Words
      BY <3>1, <3>3, <3>6, <3>7, Zenon DEF Quiet, SameStore, ReadOut
    <3>10. ChipInv'
      BY <3>1, <3>6, <3>7, Zenon DEF ChipInv, SameStore
    <3> QED
      BY <1>2, <3>1, <3>3, <3>6, <3>7, <3>8, <3>9, <3>10, Zenon DEF Answering
  <2> QED
    BY <2>1, <2>2
<1>4. at' = 4 * Width(op') + (4 * i + 3)
  BY <1>1, <1>3, WireKept, SMT DEF Frame
<1>5. read' \in Seq(Bit) /\ Len(read') = i
  BY <1>2, <1>3
<1>6. Reading(i, 3)'
  BY <1>3, <1>4, <1>5 DEF Reading, Answering
<1> QED
  BY <1>3, <1>6

(* and the sample. *)
ReadDone(i) == IF i + 1 < DataBits THEN Reading(i + 1, 0) ELSE Finishing(0)

(* The bit sampled is the next one of the word the chip has latched. *)
LEMMA ReadSample ==
    ASSUME OnTheWire, ChipInv, PinStep, op.cmd = "READ",
           NEW i \in 0 .. DataBits - 1, Reading(i, 3)
    PROVE  Frame /\ Quiet /\ ChipInv' /\ ReadDone(i)'
<1>1. /\ i \in Nat /\ Width(op) \in Nat /\ DataBits \in Nat
      /\ at = 4 * Width(op) + (4 * i + 3) /\ part[at + 1] = <<"DI", 0>>
  BY ReadAccess, Zenon DEF Reading
<1>2. chip.cs = 1 /\ read \in Seq(Bit) /\ Len(read) = i /\ Answering(i + 1)
  BY DEF Reading, Answering
<1>3. /\ Frame /\ Quiet /\ ChipInv' /\ chip' = chip
      /\ \E b \in ChipOut(chip) : read' = Append(read, b)
  BY <1>1, Samples, Zenon DEF OnTheWire
<1>4. PICK b \in ChipOut(chip) : read' = Append(read, b)
  BY <1>3
<1>5. b \in Bit /\ (chip.mode = "read" => b = chip.latched[i + 1])
  <2>1. CASE chip.mode = "status"
    BY <2>1 DEF ChipOut, Bit
  <2>2. CASE chip.mode # "status"
    <3>1. chip.mode = "read" /\ chip.latched \in Words /\ Shown(i + 1)
      BY <1>2, <2>2, Zenon DEF Answering
    <3>2. b = Head(chip.out)
      BY <3>1 DEF ChipOut
    <3>3. chip.out \in Seq(Bit) /\ Len(chip.out) = DataBits + 1 - (i + 1)
      BY <3>1 DEF ChipInv, Chip, Shown
    <3>4. PICK j \in 1 .. DataBits + 1 - (i + 1) : j = 1
      BY <1>1, SMT
    <3>5. i + 1 + j > 1 /\ i + 1 + j - 1 = i + 1 /\ i + 1 \in 1 .. DataBits
      BY <1>1, <3>4, SMT
    <3>6. chip.out[j] = chip.latched[i + 1 + j - 1]
      BY <3>1, <3>5, Zenon DEF Shown
    <3>7. Head(chip.out) = chip.out[1]
      <4>1. chip.out # << >>
        BY <1>1, <3>3, EmptySeq
      <4> QED
        BY <3>3, <4>1, HeadTailProperties
    <3>8. b = chip.latched[i + 1]
      BY <3>2, <3>4, <3>5, <3>6, <3>7, Zenon
    <3>9. chip.latched[i + 1] \in Bit
      BY <3>1, <3>5 DEF Words
    <3> QED
      BY <3>8, <3>9
  <2> QED
    BY <2>1, <2>2
<1>6. /\ read' \in Seq(Bit) /\ Len(read') = i + 1
      /\ \A j \in 1 .. i : read'[j] = read[j]
      /\ read'[i + 1] = b
  BY <1>2, <1>4, <1>5, AppendProperties
<1>7. chip.mode = "read" => ReadOut'
  <2>1. ASSUME chip.mode = "read", NEW j \in 1 .. i + 1
        PROVE  read'[j] = chip.latched[j]
    <3>1. ReadOut
      BY <1>2, <2>1 DEF Answering
    <3>2. j \in 1 .. i \/ j = i + 1
      BY <1>1, SMT
    <3> QED
      BY <1>2, <1>5, <1>6, <2>1, <3>1, <3>2, Zenon DEF ReadOut
  <2> QED
    BY <1>3, <1>6, <2>1, Zenon DEF ReadOut
<1>8. op' = op /\ clean' = clean /\ taken' = taken /\ Width(op') = Width(op)
      /\ Start(op') = Start(op)
  BY <1>3, WireKept, Zenon DEF Quiet
<1>9. /\ \/ chip'.mode = "status" /\ ~clean' /\ ~taken'
         \/ chip'.mode = "read" /\ taken' /\ chip'.latched \in Words
            /\ Shown(i + 1)' /\ ReadOut'
  <2>1. Shown(i + 1) => Shown(i + 1)'
    BY <1>3, Zenon DEF Shown
  <2> QED
    BY <1>2, <1>3, <1>7, <1>8, <2>1, Zenon DEF Answering
<1>10. CASE i + 1 < DataBits
  <2>1. at' = 4 * Width(op') + (4 * (i + 1) + 0)
    BY <1>1, <1>3, <1>8, SMT DEF Frame
  <2>2. Reading(i + 1, 0)'
    BY <1>2, <1>3, <1>6, <1>9, <2>1 DEF Reading
  <2> QED
    BY <1>3, <1>10, <2>2, Zenon DEF ReadDone
<1>11. CASE ~(i + 1 < DataBits)
  <2>1. i + 1 = DataBits
    BY <1>1, <1>11, SMT
  <2>2. at' = Start(op') + 0
    <3>1. Start(op') = 4 * Width(op) + 4 * DataBits
      BY <1>8 DEF Start
    <3>2. at' = at + 1
      BY <1>3, Zenon DEF Frame
    <3> QED
      BY <1>1, <2>1, <3>1, <3>2, SMT
  <2>3. chip'.mode # "cmd" /\ (clean' => taken' /\ chip'.latched \in Words /\ ReadOut')
    BY <1>9
  <2>4. op'.cmd = "READ" /\ chip'.cs = 1
    BY <1>2, <1>3, <1>8
  <2>5. Finishing(0)'
    BY <1>6, <2>1, <2>2, <2>3, <2>4 DEF Finishing
  <2> QED
    BY <1>3, <1>11, <2>5, Zenon DEF ReadDone
<1> QED
  BY <1>3, <1>10, <1>11

(* The chip whose CS falls executes the command that was sent. *)
LEMMA FullCommand ==
    ASSUME OnTheWire, op.cmd # "READ", chip.mode = "cmd", Heard(Width(op))
    PROVE  /\ Executes(chip) = op.cmd
           /\ op.cmd = "WRITE" => AddrOf(chip.shift) = op.addr
                                  /\ DataOf(chip.shift) = op.data
<1>1. PICK s : s = chip.shift
  BY Zenon
<1>2. Len(s) = Width(op) /\ \A i \in 1 .. Width(op) : s[i] = CommandBits(op)[i]
  BY <1>1 DEF Heard
<1>3. op \in Store!Operation /\ Store!OnWire(op) /\ op.addr \in Addrs
      /\ op.data \in Words
  BY DEF OnTheWire, Store!Issued, Store!Operation
<1>4. Width(op) \in Nat /\ Width(op) >= 5
  BY <1>3, CommandShape
<1>5. AddrBits \in Nat /\ AddrBits >= 2 /\ DataBits \in Nat
  BY WidthAssumption
<1>6. 2 \in 1 .. Width(op) /\ 3 \in 1 .. Width(op) /\ 4 \in 1 .. Width(op)
      /\ 5 \in 1 .. Width(op)
  BY <1>4, SMT
<1>7. s[2] = CommandBits(op)[2] /\ s[3] = CommandBits(op)[3]
      /\ s[4] = CommandBits(op)[4] /\ s[5] = CommandBits(op)[5]
  BY <1>2, <1>6, Zenon
<1>8. Complete(s)
  BY <1>2, <1>5, SMT DEF Complete, Width
<1>9. CASE op.cmd = "WRITE"
  <2>1. Len(s) >= 3 + AddrBits + DataBits /\ Width(op) = 3 + AddrBits + DataBits
    BY <1>2, <1>5, <1>9, SMT DEF Width
  <2>2. /\ CommandBits(op)[2] = 0 /\ CommandBits(op)[3] = 1
        /\ \A i \in 1 .. AddrBits : CommandBits(op)[3 + i] = op.addr[i]
        /\ \A i \in 1 .. DataBits : CommandBits(op)[3 + AddrBits + i] = op.data[i]
    BY <1>3, <1>9, WriteCommand
  <2>3. /\ \A i \in 1 .. AddrBits : 3 + i \in 1 .. Width(op)
        /\ \A i \in 1 .. DataBits : 3 + AddrBits + i \in 1 .. Width(op)
    BY <1>5, <2>1, SMT
  <2>4. /\ \A i \in 1 .. AddrBits : s[3 + i] = op.addr[i]
        /\ \A i \in 1 .. DataBits : s[3 + AddrBits + i] = op.data[i]
    BY <1>2, <2>2, <2>3, Zenon
  <2>5. AddrOf(s) = op.addr /\ DataOf(s) = op.data
    BY <1>3, <2>4, AddrFound, DataFound
  <2>6. OpcodeOf(s) = <<0, 1>>
    BY <1>7, <2>2 DEF OpcodeOf
  <2>7. Executes(chip) = "WRITE"
    BY <1>1, <1>8, <2>1, <2>6, Zenon DEF Executes
  <2> QED
    BY <1>1, <1>9, <2>5, <2>7
<1>10. CASE op.cmd \in {"ERASE", "ENABLE", "DISABLE"}
  <2>1. /\ CommandBits(op)[2] = 0 /\ CommandBits(op)[3] = 0
        /\ CommandBits(op)[4] = ControlBits(op)[1]
        /\ CommandBits(op)[5] = ControlBits(op)[2]
    BY <1>3, <1>10, ControlCommand
  <2>2. OpcodeOf(s) = <<0, 0>> /\ ControlOf(s) = <<ControlBits(op)[1], ControlBits(op)[2]>>
    BY <1>7, <2>1 DEF OpcodeOf, ControlOf
  <2>3. <<0, 0>> # <<0, 1>> /\ <<1, 1>> # <<0, 0>> /\ <<1, 0>> # <<0, 0>>
        /\ <<1, 0>> # <<1, 1>>
    OBVIOUS
  <2>4. CASE op.cmd = "ERASE"
    <3>1. ControlOf(s) = <<1, 0>>
      BY <2>2, <2>4 DEF ControlBits
    <3>2. Executes(chip) = "ERASE"
      BY <1>1, <1>8, <2>2, <2>3, <3>1, Zenon DEF Executes
    <3> QED
      BY <2>4, <3>2
  <2>5. CASE op.cmd = "ENABLE"
    <3>1. ControlOf(s) = <<1, 1>>
      BY <2>2, <2>5 DEF ControlBits
    <3>2. Executes(chip) = "ENABLE"
      BY <1>1, <1>8, <2>2, <2>3, <3>1, Zenon DEF Executes
    <3> QED
      BY <2>5, <3>2
  <2>6. CASE op.cmd = "DISABLE"
    <3>1. ControlOf(s) = <<0, 0>>
      BY <2>2, <2>6 DEF ControlBits
    <3>2. Executes(chip) = "DISABLE"
      BY <1>1, <1>8, <2>2, <2>3, <3>1, Zenon DEF Executes
    <3> QED
      BY <2>6, <3>2
  <2> QED
    BY <1>10, <2>4, <2>5, <2>6
<1> QED
  BY <1>3, <1>9, <1>10 DEF Store!OnWire

(* And with that the store takes it. *)
LEMMA Executed ==
    ASSUME OnTheWire, ChipInv, PinStep, part[at + 1] = <<"CS", 0>>,
           op.cmd # "READ", chip.mode = "cmd", Heard(Width(op)), ~taken
    PROVE  /\ Frame /\ read' = read /\ Store!Take /\ ChipInv'
           /\ chip'.cs = 0 /\ taken'
<1>1. "CS" # "DI" /\ "CS" # "DO" /\ 0 # 1
  OBVIOUS
<1>2. Executes(chip) = op.cmd /\ op.cmd # "nothing"
  <2>1. op.cmd # "nothing"
    BY DEF OnTheWire, Store!Issued, Store!OnWire
  <2> QED
    BY <2>1, FullCommand
<1>3. /\ chip' = ChipPin(chip, "CS", 0) /\ Frame /\ read' = read
      /\ taken' = (taken \/ chip'.mode = "read" \/ Executes(chip) # "nothing")
  BY <1>1, Access, Zenon DEF OnTheWire
<1>4. taken' = TRUE
  BY <1>2, <1>3, Zenon
<1>5. chip.cs # 0 /\ chip.pending = None /\ chip \in Chip /\ chip.latched = None
  BY DEF ChipInv
<1>6. chip' = ChipDeselect(chip)
  BY <1>1, <1>3, <1>5, Zenon DEF ChipPin
<1>7. /\ chip' \in Chip /\ chip'.cs = 0 /\ chip'.mode = "off"
      /\ chip'.mem = chip.mem /\ chip'.latched = chip.latched
      /\ chip'.wen = Enabled(chip) /\ chip'.pending = Programmed(chip)
  BY <1>5, <1>6, Deselected, Zenon
<1>8. ChipInv'
  <2>1. "off" # "read" /\ "off" # "cmd"
    OBVIOUS
  <2> QED
    BY <1>4, <1>7, <2>1, Zenon DEF ChipInv
<1>9. Store!Take
  <2>1. Store!Issued /\ UNCHANGED <<status, op, clean, answer>>
    BY <1>3, Zenon DEF OnTheWire, Frame
  <2>2. chip.wen \in BOOLEAN
    BY <1>5 DEF Chip
  <2>3. Enabled(chip) = IF op.cmd \in {"ENABLE", "DISABLE"} THEN op.cmd = "ENABLE"
                                                            ELSE chip.wen
    <3>1. CASE op.cmd = "ENABLE"
      BY <1>2, <3>1, Zenon DEF Enabled
    <3>2. CASE op.cmd = "DISABLE"
      <4>1. "DISABLE" # "ENABLE"
        OBVIOUS
      <4> QED
        BY <1>2, <3>2, <4>1, Zenon DEF Enabled
    <3>3. CASE op.cmd \notin {"ENABLE", "DISABLE"}
      BY <1>2, <3>3, Zenon DEF Enabled
    <3> QED
      BY <3>1, <3>2, <3>3, Zenon
  <2>4. Programmed(chip) = IF Store!Programs(op) /\ chip.wen THEN Store!NewContents
                                                             ELSE None
    <3>1. CASE ~(Store!Programs(op) /\ chip.wen)
      BY <1>2, <1>5, <3>1, Zenon DEF Programmed, Store!Programs
    <3>2. CASE Store!Programs(op) /\ chip.wen /\ op.cmd = "ERASE"
      <4>1. "ERASE" # "WRITE"
        OBVIOUS
      <4> QED
        BY <1>2, <3>2, <4>1, Zenon DEF Programmed, Store!Programs, Store!NewContents
    <3>3. CASE Store!Programs(op) /\ chip.wen /\ op.cmd = "WRITE"
      <4>1. "ERASE" # "WRITE"
        OBVIOUS
      <4>2. AddrOf(chip.shift) = op.addr /\ DataOf(chip.shift) = op.data
        BY <3>3, FullCommand
      <4> QED
        BY <1>2, <3>3, <4>1, <4>2, Zenon DEF Programmed, Store!Programs, Store!NewContents
    <3> QED
      BY <3>1, <3>2, <3>3, Zenon DEF Store!Programs
  <2> QED
    BY <1>4, <1>5, <1>7, <2>1, <2>3, <2>4, Zenon DEF Store!Take
<1> QED
  BY <1>3, <1>4, <1>7, <1>8, <1>9, Zenon

(* The accesses of FinishCommand at the end of the program. *)
LEMMA FinishAccess ==
    ASSUME OnTheWire, NEW j \in 0 .. 7, at = Start(op) + j
    PROVE  part[at + 1] = FinishCommand[j + 1] /\ Start(op) \in Nat
<1>1. Store!OnWire(op) /\ op \in Store!Operation /\ part = Program(op)
  BY DEF OnTheWire, Store!Issued
<1>2. Start(op) \in Nat /\ Finishes(op)
  BY <1>1, ProgramPlaces
<1>3. j + 1 \in 1 .. 8 /\ at + 1 = Start(op) + (j + 1)
  BY <1>2, SMT
<1> QED
  BY <1>1, <1>2, <1>3, Zenon DEF Finishes

(* What finishing a command keeps of the word that was read and of the     *)
(* command: after the first access, *)
LEMMA FinishLow ==
    ASSUME OnTheWire, ChipInv, PinStep, Finishing(0)
    PROVE  Frame /\ Quiet /\ ChipInv' /\ Finishing(1)'
<1>1. 0 \in 0 .. 7 /\ 0 + 1 = 1
  BY SMT
<1>2. Start(op) \in Nat /\ at = Start(op) + 0 /\ part[at + 1] = <<"SK", 0>>
  BY <1>1, FinishAccess, FinishPlaces, Zenon DEF Finishing
<1>3. /\ Frame /\ read' = read /\ Quiet /\ ChipInv' /\ chip'.sk = 0
      /\ chip'.cs = chip.cs /\ SameCommand(chip', chip)
  <2>1. 0 \in Bit
    BY DEF Bit
  <2> QED
    BY <1>2, <2>1, SetsSK, Zenon DEF OnTheWire
<1>4. op' = op /\ clean' = clean /\ Start(op') = Start(op) /\ Width(op') = Width(op)
  BY <1>3, WireKept, Zenon
<1>5. at' = Start(op') + 1
  BY <1>2, <1>3, <1>4, SMT DEF Frame
<1>6. chip'.cs = 1
  BY <1>3 DEF Finishing
<1>7. CASE op.cmd = "READ"
  <2>1. /\ read \in Seq(Bit) /\ Len(read) = DataBits
        /\ clean => taken /\ chip.latched \in Words /\ ReadOut
        /\ chip.mode # "cmd"
    BY <1>7 DEF Finishing
  <2>2. /\ read' \in Seq(Bit) /\ Len(read') = DataBits
        /\ clean' => taken' /\ chip'.latched \in Words /\ ReadOut'
        /\ chip'.mode # "cmd"
    BY <1>3, <1>4, <2>1, Zenon DEF Quiet, SameStore, SameCommand, ReadOut
  <2> QED
    BY <1>3, <1>4, <1>5, <1>6, <1>7, <2>2 DEF Finishing
<1>8. CASE op.cmd # "READ"
  <2>1. read = << >> /\ ~taken /\ Heard(Width(op))
    BY <1>8 DEF Finishing
  <2>2. Heard(Width(op))'
    BY <1>3, <1>4, <2>1, Zenon DEF Heard, SameCommand
  <2>3. read' = << >> /\ ~taken'
    BY <1>3, <2>1, Zenon DEF Quiet
  <2> QED
    BY <1>3, <1>4, <1>5, <1>6, <1>8, <2>2, <2>3 DEF Finishing
<1> QED
  BY <1>7, <1>8

(* the fall of CS, *)
LEMMA FinishDeselect ==
    ASSUME OnTheWire, ChipInv, PinStep, Finishing(1)
    PROVE  Frame /\ (Quiet \/ Store!Take) /\ ChipInv' /\ Finishing(2)'
<1>1. 1 \in 0 .. 7 /\ 1 + 1 = 2
  BY SMT
<1>2. Start(op) \in Nat /\ at = Start(op) + 1 /\ part[at + 1] = <<"CS", 0>>
  BY <1>1, FinishAccess, FinishPlaces, Zenon DEF Finishing
<1>3. CASE Executes(chip) = "nothing"
  <2>1. /\ Frame /\ read' = read /\ Quiet /\ ChipInv' /\ chip'.cs = 0
    BY <1>2, <1>3, Drops, Zenon DEF OnTheWire
  <2>2. op' = op /\ clean' = clean /\ Start(op') = Start(op)
    BY <2>1, WireKept, Zenon
  <2>3. at' = Start(op') + 2
    BY <1>2, <2>1, <2>2, SMT DEF Frame
  <2>4. CASE op.cmd = "READ"
    <3>1. /\ read \in Seq(Bit) /\ Len(read) = DataBits
          /\ clean => taken /\ chip.latched \in Words /\ ReadOut
      BY <2>4 DEF Finishing
    <3>2. /\ read' \in Seq(Bit) /\ Len(read') = DataBits
          /\ clean' => taken' /\ chip'.latched \in Words /\ ReadOut'
      BY <2>1, <2>2, <3>1, Zenon DEF Quiet, SameStore, ReadOut
    <3>3. chip'.mode # "cmd"
      BY <2>1 DEF ChipInv
    <3> QED
      BY <2>1, <2>2, <2>3, <2>4, <3>2, <3>3 DEF Finishing
  <2>5. CASE op.cmd # "READ"
    <3>1. read = << >> /\ Heard(Width(op))
      BY <2>5 DEF Finishing
    <3>2. chip.mode # "cmd"
      <4>1. SUFFICES ASSUME chip.mode = "cmd" PROVE FALSE
        OBVIOUS
      <4>2. op.cmd = "nothing"
        BY <1>3, <2>5, <3>1, <4>1, FullCommand, Zenon
      <4> QED
        BY <4>2 DEF OnTheWire, Store!Issued, Store!OnWire
    <3>3. ~clean'
      BY <2>2, <3>1, <3>2, Zenon DEF Heard
    <3>4. read' = << >>
      BY <2>1, <3>1
    <3> QED
      BY <2>1, <2>2, <2>3, <2>5, <3>3, <3>4 DEF Finishing
  <2> QED
    BY <2>4, <2>5
<1>4. CASE Executes(chip) # "nothing"
  <2>1. chip.mode = "cmd"
    BY <1>4, Zenon DEF Executes
  <2>2. op.cmd # "READ" /\ Heard(Width(op)) /\ ~taken /\ read = << >>
    BY <2>1 DEF Finishing
  <2>3. /\ Frame /\ read' = read /\ Store!Take /\ ChipInv'
        /\ chip'.cs = 0 /\ taken'
    BY <1>2, <2>1, <2>2, Executed, Zenon
  <2>4. op' = op /\ clean' = clean /\ Start(op') = Start(op)
    BY <2>3, WireKept, Zenon
  <2>5. at' = Start(op') + 2
    BY <1>2, <2>3, <2>4, SMT DEF Frame
  <2> QED
    BY <2>2, <2>3, <2>4, <2>5 DEF Finishing
<1> QED
  BY <1>3, <1>4

(* and the accesses after it. *)
LEMMA FinishAfter ==
    ASSUME OnTheWire, ChipInv, PinStep, NEW j \in 2 .. 7, Finishing(j)
    PROVE  Frame /\ Quiet /\ ChipInv' /\ Finishing(j + 1)'
<1>1. j \in 0 .. 7 /\ at = Start(op) + j /\ chip.cs = 0
  BY SMT DEF Finishing
<1>2. Start(op) \in Nat /\ part[at + 1] = FinishCommand[j + 1]
  BY <1>1, FinishAccess, Zenon
<1>3. 0 \in Bit /\ 1 \in Bit
  BY DEF Bit
<1>4. /\ Frame /\ read' = read /\ Quiet /\ ChipInv' /\ chip'.cs = 0
      /\ j + 1 \in 3 .. 8 => chip'.d = 0
      /\ j + 1 = 8 => chip'.sk = 0
  <2>1. CASE j = 2
    <3>1. j + 1 = 3 /\ j + 1 # 8
      BY <2>1, SMT
    <3>2. part[at + 1] = <<"DO", 0>>
      BY <1>2, <3>1, FinishPlaces, Zenon
    <3> QED
      BY <1>1, <1>3, <3>1, <3>2, SetsD, Zenon DEF OnTheWire
  <2>2. CASE j \in {3, 5, 7}
    <3>1. j + 1 \in {4, 6, 8} /\ j \in 3 .. 8
      BY <2>2, SMT
    <3>2. part[at + 1] = <<"SK", 0>>
      BY <1>2, <3>1, FinishPlaces, Zenon
    <3>3. chip.d = 0
      BY <3>1 DEF Finishing
    <3> QED
      BY <1>1, <1>3, <3>2, <3>3, SetsSK, Zenon DEF OnTheWire
  <2>3. CASE j \in {4, 6}
    <3>1. j + 1 \in {5, 7} /\ j \in 3 .. 8 /\ j + 1 # 8
      BY <2>3, SMT
    <3>2. part[at + 1] = <<"SK", 1>>
      BY <1>2, <3>1, FinishPlaces, Zenon
    <3>3. chip.d = 0
      BY <3>1 DEF Finishing
    <3> QED
      BY <1>1, <1>3, <3>1, <3>2, <3>3, SetsSK, Zenon DEF OnTheWire
  <2> QED
    BY <2>1, <2>2, <2>3, SMT
<1>5. op' = op /\ clean' = clean /\ Start(op') = Start(op)
  BY <1>4, WireKept, Zenon
<1>6. at' = Start(op') + (j + 1) /\ j \notin {0, 1} /\ j + 1 \notin {0, 1}
  BY <1>1, <1>2, <1>4, <1>5, SMT DEF Frame
<1>7. CASE op.cmd = "READ"
  <2>1. /\ read \in Seq(Bit) /\ Len(read) = DataBits
        /\ clean => taken /\ chip.latched \in Words /\ ReadOut
    BY <1>7 DEF Finishing
  <2>2. /\ read' \in Seq(Bit) /\ Len(read') = DataBits
        /\ clean' => taken' /\ chip'.latched \in Words /\ ReadOut'
    BY <1>4, <1>5, <2>1, Zenon DEF Quiet, SameStore, ReadOut
  <2>3. chip'.mode # "cmd"
    BY <1>4 DEF ChipInv
  <2>4. Finishing(j + 1)'
    BY <1>4, <1>5, <1>6, <1>7, <2>2, <2>3, Zenon DEF Finishing
  <2> QED
    BY <1>4, <2>4
<1>8. CASE op.cmd # "READ"
  <2>1. read = << >> /\ (clean => taken)
    BY <1>6, <1>8 DEF Finishing
  <2>2. read' = << >> /\ (clean' => taken')
    BY <1>4, <1>5, <2>1, Zenon DEF Quiet
  <2>3. Finishing(j + 1)'
    BY <1>4, <1>5, <1>6, <1>8, <2>2, Zenon DEF Finishing
  <2> QED
    BY <1>4, <2>3
<1> QED
  BY <1>7, <1>8

----------------------------------------------------------------------------
(* The inductive invariant: the chip, and where the driver is.             *)
PinsLow == chip.cs = 0 /\ chip.sk = 0 /\ chip.d = 0

(* The calling thread is elsewhere, *)
Resting ==
    /\ op = NoOp /\ phase = "send" /\ part = << >> /\ at = 0
    /\ ~taken /\ read = << >> /\ PinsLow

(* is about to return what the checks of the function found, *)
Refused ==
    /\ op \in Store!Operation /\ phase = "end" /\ part = << >> /\ at = 0
    /\ ~taken /\ read = << >> /\ PinsLow
    /\ err = EarlyReturn(op) /\ err # "OK"

(* lowers the pins in Init, Open or Shutdown, *)
Lowering ==
    /\ op \in Store!Operation /\ op.cmd \in {"Init", "Open", "Shutdown"}
    /\ EarlyReturn(op) = "OK"
    /\ phase = "send" /\ part = IdlePins /\ at \in 0 .. 3
    /\ ~taken /\ read = << >> /\ PinsLow
    /\ IF gpio THEN err = "OK"
       ELSE op.cmd = "Init" /\ err = IF at = 0 THEN "OK" ELSE "EXISTS"

(* is in the program of a command, *)
Commanding ==
    /\ OnTheWire /\ err = "OK"
    /\ \/ \E q \in 0 .. Width(op) - 1, r \in 0 .. 3 : Sending(q, r)
       \/ op.cmd = "READ" /\ \E i \in 0 .. DataBits - 1, r \in 0 .. 3 : Reading(i, r)
       \/ \E j \in 0 .. 8 : Finishing(j)

(* or waits for the chip after a command that programs: it clocks in no    *)
(* command while it asks,                                                  *)
Waiting ==
    /\ op \in Store!Operation /\ Store!Issued /\ Store!Programs(op) /\ gpio
    /\ clean \in BOOLEAN /\ (clean => taken)
    /\ chip.d = 0 /\ chip.mode # "read"
    /\ chip.mode = "cmd" => chip.shift = << >>

(* bit by bit,                                                             *)
Polling ==
    /\ Waiting /\ phase = "poll" /\ err = "OK"
    /\ \/ part = <<SetDO(0)>> /\ at \in 0 .. 1 /\ read = << >>
       \/ /\ part = ReadBit /\ at \in 0 .. 4
          /\ at >= 2 => chip.cs = 1
          /\ IF at = 4 THEN read = <<0>> \/ (read = <<1>> /\ chip.pending = None)
                       ELSE read = << >>

(* until the chip is ready or the driver gives up.                         *)
Ending ==
    /\ Waiting /\ phase = "end" /\ part = FinishCommand /\ at \in 0 .. 8
    /\ read = << >>
    /\ at >= 2 => chip.cs = 0
    /\ at = 8 => chip.sk = 0
    /\ err \in {"OK", "FAIL_INTERNAL"} /\ (err = "OK" => chip.pending = None)

Types ==
    /\ gpio \in BOOLEAN /\ status \in Store!Statuses
    /\ ~gpio => status = "UNINITIALISED"
    /\ op \in Ops \cup {NoOp} /\ polls \in 0 .. MaxPolls
    /\ clean \in BOOLEAN
    /\ answer.op \in Ops \cup {NoOp} /\ answer.ret \in Store!Errors
    /\ answer.data \in Words \cup {None}

Place == Resting \/ Refused \/ Lowering \/ Commanding \/ Polling \/ Ending

(* err stays one of the driver's errors. *)
Inv == Types /\ ChipInv /\ err \in Store!Errors /\ Place

(* A pin access while the bits of a command are sent. *)
LEMMA SendingStep ==
    ASSUME OnTheWire, ChipInv, PinStep,
           NEW q \in 0 .. Width(op) - 1, NEW r \in 0 .. 3, Sending(q, r)
    PROVE  /\ Frame /\ (Quiet \/ Store!Take) /\ ChipInv'
           /\ \/ r # 3 /\ Sending(q, r + 1)'
              \/ r = 3 /\ SentBit(q)'
<1>1. CASE r = 0
  <2>1. r # 3 /\ r + 1 = 1
    BY <1>1, SMT
  <2> QED
    BY <1>1, <2>1, SendLow, Zenon
<1>2. CASE r = 1
  <2>1. r # 3 /\ r + 1 = 2
    BY <1>2, SMT
  <2> QED
    BY <1>2, <2>1, SendSelect, Zenon
<1>3. CASE r = 2
  <2>1. r # 3 /\ r + 1 = 3
    BY <1>3, SMT
  <2> QED
    BY <1>3, <2>1, SendData, Zenon
<1>4. CASE r = 3
  <2>1. Sending(q, 3)
    BY <1>4, Zenon
  <2>2. chip.mode = "status" \/ chip.mode = "cmd"
    BY <2>1 DEF Sending, Heard
  <2> QED
    BY <1>4, <2>1, <2>2, SendToBusy, SendToReady, SendRead, Zenon
<1> QED
  BY <1>1, <1>2, <1>3, <1>4, SMT

(* A pin access while the word is read, *)
LEMMA ReadingStep ==
    ASSUME OnTheWire, ChipInv, PinStep, op.cmd = "READ",
           NEW i \in 0 .. DataBits - 1, NEW r \in 0 .. 3, Reading(i, r)
    PROVE  /\ Frame /\ Quiet /\ ChipInv'
           /\ \/ r # 3 /\ Reading(i, r + 1)'
              \/ r = 3 /\ ReadDone(i)'
<1>1. CASE r = 0
  <2>1. r # 3 /\ r + 1 = 1
    BY <1>1, SMT
  <2> QED
    BY <1>1, <2>1, ReadLow, Zenon
<1>2. CASE r = 1
  <2>1. r # 3 /\ r + 1 = 2
    BY <1>2, SMT
  <2> QED
    BY <1>2, <2>1, ReadSelect, Zenon
<1>3. CASE r = 2
  <2>1. r # 3 /\ r + 1 = 3
    BY <1>3, SMT
  <2> QED
    BY <1>3, <2>1, ReadClock, Zenon
<1>4. CASE r = 3
  BY <1>4, ReadSample, Zenon
<1> QED
  BY <1>1, <1>2, <1>3, <1>4, SMT

(* and in the FinishCommand at the end: there the chip may take the command. *)
LEMMA FinishingStep ==
    ASSUME OnTheWire, ChipInv, PinStep, NEW j \in 0 .. 8, Finishing(j)
    PROVE  /\ Frame /\ (Quiet \/ Store!Take) /\ ChipInv'
           /\ j + 1 \in 0 .. 8 /\ Finishing(j + 1)'
<1>1. CASE j = 0
  <2>1. j + 1 = 1 /\ j + 1 \in 0 .. 8
    BY <1>1, SMT
  <2> QED
    BY <1>1, <2>1, FinishLow, Zenon
<1>2. CASE j = 1
  <2>1. j + 1 = 2 /\ j + 1 \in 0 .. 8
    BY <1>2, SMT
  <2> QED
    BY <1>2, <2>1, FinishDeselect, Zenon
<1>3. CASE j \in 2 .. 7
  <2>1. j + 1 \in 0 .. 8
    BY <1>3, SMT
  <2> QED
    BY <1>3, <2>1, FinishAfter, Zenon
<1>4. CASE j = 8
  <2>1. Len(part) = Start(op) + 8
    BY ProgramPlaces DEF OnTheWire, Store!Issued
  <2>2. at = Start(op) + 8
    BY <1>4 DEF Finishing
  <2> QED
    BY <2>1, <2>2 DEF PinStep, Done
<1> QED
  BY <1>1, <1>2, <1>3, <1>4, SMT

(* So a pin access of a command leads to its next one. *)
LEMMA CommandingStep ==
    ASSUME Commanding, ChipInv, PinStep
    PROVE  Frame /\ (Quiet \/ Store!Take) /\ ChipInv' /\ Commanding'
<1>1. OnTheWire /\ err = "OK"
  BY DEF Commanding
<1>2. ASSUME Frame
      PROVE  /\ OnTheWire' /\ err' = "OK" /\ op' = op /\ Width(op') = Width(op)
             /\ Width(op) \in Nat /\ Width(op) >= 5 /\ DataBits \in Nat \ {0}
  <2>1. err' = "OK"
    BY <1>1, <1>2, Zenon DEF Frame
  <2> QED
    BY <1>1, <1>2, <2>1, WireKept, WidthAssumption, Zenon
<1>3. ASSUME NEW q \in 0 .. Width(op) - 1, NEW r \in 0 .. 3, Sending(q, r)
      PROVE  Frame /\ (Quiet \/ Store!Take) /\ ChipInv' /\ Commanding'
  <2>1. /\ Frame /\ (Quiet \/ Store!Take) /\ ChipInv'
        /\ \/ r # 3 /\ Sending(q, r + 1)'
           \/ r = 3 /\ SentBit(q)'
    BY <1>1, <1>3, SendingStep, Zenon
  <2>2. /\ OnTheWire' /\ err' = "OK" /\ op' = op /\ Width(op') = Width(op)
        /\ Width(op) \in Nat /\ Width(op) >= 5 /\ DataBits \in Nat \ {0}
    BY <1>2, <2>1, Zenon
  <2>3. CASE r # 3 /\ Sending(q, r + 1)'
    <3>1. r + 1 \in 0 .. 3 /\ q \in 0 .. Width(op') - 1
      BY <2>2, <2>3, SMT
    <3>2. Commanding'
      BY <2>2, <2>3, <3>1, Zenon DEF Commanding
    <3> QED
      BY <2>1, <3>2, Zenon
  <2>4. CASE SentBit(q)'
    <3>1. CASE q + 1 < Width(op)
      <4>1. Sending(q + 1, 0)'
        BY <2>2, <2>4, <3>1, Zenon DEF SentBit
      <4>2. 0 \in 0 .. 3 /\ q + 1 \in 0 .. Width(op') - 1
        BY <2>2, <3>1, SMT
      <4>3. Commanding'
        BY <2>2, <4>1, <4>2, Zenon DEF Commanding
      <4> QED
        BY <2>1, <4>3, Zenon
    <3>2. CASE ~(q + 1 < Width(op)) /\ op.cmd = "READ"
      <4>1. Reading(0, 0)'
        BY <2>2, <2>4, <3>2, Zenon DEF SentBit
      <4>2. 0 \in 0 .. 3 /\ 0 \in 0 .. DataBits - 1
        BY <2>2, SMT
      <4>3. Commanding'
        BY <2>2, <3>2, <4>1, <4>2, Zenon DEF Commanding
      <4> QED
        BY <2>1, <4>3, Zenon
    <3>3. CASE ~(q + 1 < Width(op)) /\ op.cmd # "READ"
      <4>1. Finishing(0)'
        BY <2>2, <2>4, <3>3, Zenon DEF SentBit
      <4>2. 0 \in 0 .. 8
        BY SMT
      <4>3. Commanding'
        BY <2>2, <4>1, <4>2, Zenon DEF Commanding
      <4> QED
        BY <2>1, <4>3, Zenon
    <3> QED
      BY <3>1, <3>2, <3>3, Zenon
  <2> QED
    BY <2>1, <2>3, <2>4, Zenon
<1>4. ASSUME op.cmd = "READ", NEW i \in 0 .. DataBits - 1, NEW r \in 0 .. 3,
             Reading(i, r)
      PROVE  Frame /\ (Quiet \/ Store!Take) /\ ChipInv' /\ Commanding'
  <2>1. /\ Frame /\ Quiet /\ ChipInv'
        /\ \/ r # 3 /\ Reading(i, r + 1)'
           \/ r = 3 /\ ReadDone(i)'
    BY <1>1, <1>4, ReadingStep, Zenon
  <2>2. OnTheWire' /\ err' = "OK" /\ op' = op /\ DataBits \in Nat \ {0}
    BY <1>2, <2>1, Zenon
  <2>3. CASE r # 3 /\ Reading(i, r + 1)'
    <3>1. r + 1 \in 0 .. 3
      BY <2>3, SMT
    <3>2. Commanding'
      BY <1>4, <2>2, <2>3, <3>1, Zenon DEF Commanding
    <3> QED
      BY <2>1, <3>2, Zenon
  <2>4. CASE ReadDone(i)'
    <3>1. CASE i + 1 < DataBits
      <4>1. Reading(i + 1, 0)'
        BY <2>4, <3>1, Zenon DEF ReadDone
      <4>2. 0 \in 0 .. 3 /\ i + 1 \in 0 .. DataBits - 1
        BY <2>2, <3>1, SMT
      <4>3. Commanding'
        BY <1>4, <2>2, <4>1, <4>2, Zenon DEF Commanding
      <4> QED
        BY <2>1, <4>3, Zenon
    <3>2. CASE ~(i + 1 < DataBits)
      <4>1. Finishing(0)'
        BY <2>4, <3>2, Zenon DEF ReadDone
      <4>2. 0 \in 0 .. 8
        BY SMT
      <4>3. Commanding'
        BY <2>2, <4>1, <4>2, Zenon DEF Commanding
      <4> QED
        BY <2>1, <4>3, Zenon
    <3> QED
      BY <3>1, <3>2, Zenon
  <2> QED
    BY <2>1, <2>3, <2>4, Zenon
<1>5. ASSUME NEW j \in 0 .. 8, Finishing(j)
      PROVE  Frame /\ (Quiet \/ Store!Take) /\ ChipInv' /\ Commanding'
  <2>1. /\ Frame /\ (Quiet \/ Store!Take) /\ ChipInv'
        /\ j + 1 \in 0 .. 8 /\ Finishing(j + 1)'
    BY <1>1, <1>5, FinishingStep, Zenon
  <2>2. OnTheWire' /\ err' = "OK"
    BY <1>2, <2>1, Zenon
  <2>3. Commanding'
    BY <2>1, <2>2, Zenon DEF Commanding
  <2> QED
    BY <2>1, <2>3, Zenon
<1> QED
  BY <1>3, <1>4, <1>5, Zenon DEF Commanding

(* A pin access while the driver waits: none of them starts a command. *)
LEMMA WaitingKept ==
    ASSUME Waiting, Frame, Quiet, chip'.d = 0, chip'.mode # "read",
           chip'.mode = "cmd" => chip'.shift = << >>
    PROVE  Waiting'
<1>1. op' = op /\ clean' = clean /\ gpio' = gpio /\ status' = status
      /\ taken' = taken
  BY Zenon DEF Frame, Quiet
<1>2. /\ op \in Store!Operation /\ Store!Issued /\ Store!Programs(op) /\ gpio
      /\ clean \in BOOLEAN /\ (clean => taken)
  BY Zenon DEF Waiting
<1>3. Store!Issued' /\ Store!Programs(op)'
  BY <1>1, <1>2, Zenon DEF Store!Issued, Store!Programs
<1> QED
  BY <1>1, <1>2, <1>3, Zenon DEF Waiting

(* A pin access of the polling: a 1 is sampled only from a chip that is    *)
(* ready.                                                                  *)
LEMMA PollingStep ==
    ASSUME Polling, ChipInv, PinStep
    PROVE  Frame /\ Quiet /\ ChipInv' /\ Polling'
<1>1. /\ Waiting /\ phase = "poll" /\ err = "OK" /\ gpio
      /\ chip.d = 0 /\ chip.mode # "read"
      /\ chip.mode = "cmd" => chip.shift = << >>
  BY Zenon DEF Polling, Waiting
<1>2. 0 \in Bit /\ 1 \in Bit
  BY DEF Bit
<1>3. ASSUME Frame PROVE phase' = "poll" /\ err' = "OK" /\ part' = part /\ at' = at + 1
  BY <1>1, <1>3, Zenon DEF Frame
<1>4. CASE part = <<SetDO(0)>> /\ at \in 0 .. 1 /\ read = << >>
  <2>1. Len(part) = 1 /\ part[1] = <<"DO", 0>>
    BY <1>4 DEF SetDO
  <2>2. at = 0 /\ at + 1 = 1
    BY <1>4, <2>1, SMT DEF PinStep, Done
  <2>3. part[at + 1] = <<"DO", 0>>
    BY <2>1, <2>2
  <2>4. /\ Frame /\ read' = read /\ Quiet /\ ChipInv' /\ chip'.d = 0
        /\ SameCommand(chip', chip)
    BY <1>1, <1>2, <2>3, SetsD, Zenon
  <2>5. Waiting'
    <3>1. chip'.mode # "read" /\ (chip'.mode = "cmd" => chip'.shift = << >>)
      BY <1>1, <2>4, Zenon DEF SameCommand
    <3> QED
      BY <1>1, <2>4, <3>1, WaitingKept, Zenon
  <2>6. at' \in 0 .. 1 /\ read' = << >> /\ part' = <<SetDO(0)>>
    <3>1. at' = 1
      BY <1>3, <2>2, <2>4, Zenon
    <3>2. 1 \in 0 .. 1
      BY SMT
    <3> QED
      BY <1>3, <1>4, <2>4, <3>1, <3>2, Zenon
  <2>7. Polling'
    BY <1>3, <2>4, <2>5, <2>6, Zenon DEF Polling
  <2> QED
    BY <2>4, <2>7
<1>5. CASE /\ part = ReadBit /\ at \in 0 .. 4
           /\ at >= 2 => chip.cs = 1
           /\ IF at = 4 THEN read = <<0>> \/ (read = <<1>> /\ chip.pending = None)
                        ELSE read = << >>
  <2>1. Len(part) = 4
    BY <1>5 DEF ReadBit
  <2>2. at \in {0, 1, 2, 3} /\ at # 4
    BY <1>5, <2>1, SMT DEF PinStep, Done
  <2>3. read = << >>
    BY <1>5, <2>2
  <2>4. CASE at = 0
    <3>1. at + 1 = 1 /\ part[at + 1] = <<"SK", 0>>
      BY <1>5, <2>4, BitAccesses, SMT
    <3>2. /\ Frame /\ read' = read /\ Quiet /\ ChipInv' /\ chip'.d = chip.d
          /\ SameCommand(chip', chip)
      BY <1>1, <1>2, <3>1, SetsSK, Zenon
    <3>3. Waiting'
      <4>1. chip'.d = 0 /\ chip'.mode # "read" /\ (chip'.mode = "cmd" => chip'.shift = << >>)
        BY <1>1, <3>2, Zenon DEF SameCommand
      <4> QED
        BY <1>1, <3>2, <4>1, WaitingKept, Zenon
    <3>4. at' = 1 /\ part' = ReadBit /\ read' = << >>
      BY <1>3, <1>5, <2>3, <3>1, <3>2, Zenon
    <3>5. Polling'
      BY <1>3, <3>2, <3>3, <3>4 DEF Polling
    <3> QED
      BY <3>2, <3>5
  <2>5. CASE at = 1
    <3>1. at + 1 = 2 /\ part[at + 1] = <<"CS", 1>>
      BY <1>5, <2>5, BitAccesses, SMT
    <3>2. /\ Frame /\ read' = read /\ Quiet /\ ChipInv'
          /\ chip'.cs = 1 /\ chip'.d = chip.d
          /\ chip.cs = 1 => SameCommand(chip', chip)
          /\ chip.cs = 0 => /\ chip'.shift = << >>
                            /\ chip'.mode = IF chip.pending # None THEN "status"
                                                                   ELSE "cmd"
      BY <1>1, <3>1, Selects, Zenon
    <3>3. Waiting'
      <4>1. CASE chip.cs = 1
        <5>1. chip'.d = 0 /\ chip'.mode # "read" /\ (chip'.mode = "cmd" => chip'.shift = << >>)
          BY <1>1, <3>2, <4>1, Zenon DEF SameCommand
        <5> QED
          BY <1>1, <3>2, <5>1, WaitingKept, Zenon
      <4>2. CASE chip.cs = 0
        <5>1. chip'.d = 0 /\ chip'.mode # "read" /\ (chip'.mode = "cmd" => chip'.shift = << >>)
          BY <1>1, <3>2, <4>2
        <5> QED
          BY <1>1, <3>2, <5>1, WaitingKept, Zenon
      <4>3. chip.cs = 0 \/ chip.cs = 1
        BY DEF ChipInv, Chip, Bit
      <4> QED
        BY <4>1, <4>2, <4>3
    <3>4. at' = 2 /\ part' = ReadBit /\ read' = << >>
      BY <1>3, <1>5, <2>3, <3>1, <3>2, Zenon
    <3>5. Polling'
      BY <1>3, <3>2, <3>3, <3>4 DEF Polling
    <3> QED
      BY <3>2, <3>5
  <2>6. CASE at = 2
    <3>1. at + 1 = 3 /\ part[at + 1] = <<"SK", 1>> /\ chip.cs = 1
      BY <1>5, <2>6, BitAccesses, SMT
    <3>2. \/ chip.mode = "status"
          \/ chip.mode = "cmd" /\ chip.d = 0 /\ chip.shift = << >>
      BY <1>1, <3>1 DEF ChipInv, Chip
    <3>3. /\ Frame /\ read' = read /\ Quiet /\ ChipInv' /\ chip'.d = chip.d
          /\ chip'.cs = chip.cs /\ SameCommand(chip', chip)
      BY <1>1, <1>2, <3>1, <3>2, SetsSK, Zenon
    <3>4. Waiting'
      <4>1. chip'.d = 0 /\ chip'.mode # "read" /\ (chip'.mode = "cmd" => chip'.shift = << >>)
        BY <1>1, <3>3, Zenon DEF SameCommand
      <4> QED
        BY <1>1, <3>3, <4>1, WaitingKept, Zenon
    <3>5. at' = 3 /\ part' = ReadBit /\ read' = << >> /\ chip'.cs = 1
      BY <1>3, <1>5, <2>3, <3>1, <3>3, Zenon
    <3>6. Polling'
      BY <1>3, <3>3, <3>4, <3>5 DEF Polling
    <3> QED
      BY <3>3, <3>6
  <2>7. CASE at = 3
    <3>1. at + 1 = 4 /\ part[at + 1] = <<"DI", 0>> /\ chip.cs = 1
      BY <1>5, <2>7, BitAccesses, SMT
    <3>2. /\ Frame /\ Quiet /\ ChipInv' /\ chip' = chip
          /\ \E b \in ChipOut(chip) : read' = Append(read, b)
      BY <1>1, <3>1, Samples, Zenon
    <3>3. PICK b \in ChipOut(chip) : read' = Append(read, b)
      BY <3>2
    <3>4. b = 0 \/ (b = 1 /\ chip.pending = None)
      <4>1. CASE chip.mode = "status"
        BY <4>1 DEF ChipOut
      <4>2. CASE chip.mode = "cmd"
        BY <4>2 DEF ChipOut, ChipInv, Bit
      <4> QED
        BY <1>1, <3>1, <4>1, <4>2 DEF ChipInv, Chip
    <3>5. read' = <<0>> \/ (read' = <<1>> /\ chip'.pending = None)
      BY <2>3, <3>2, <3>3, <3>4
    <3>6. Waiting'
      <4>1. chip'.d = 0 /\ chip'.mode # "read" /\ (chip'.mode = "cmd" => chip'.shift = << >>)
        BY <1>1, <3>2, Zenon
      <4> QED
        BY <1>1, <3>2, <4>1, WaitingKept, Zenon
    <3>7. at' = 4 /\ part' = ReadBit /\ chip'.cs = 1
      BY <1>3, <1>5, <3>1, <3>2, Zenon
    <3>8. Polling'
      BY <1>3, <3>2, <3>5, <3>6, <3>7 DEF Polling
    <3> QED
      BY <3>2, <3>8
  <2> QED
    BY <2>2, <2>4, <2>5, <2>6, <2>7
<1> QED
  BY <1>4, <1>5, Zenon DEF Polling

(* A pin access of the FinishCommand after the polling: nothing is executed. *)
LEMMA EndingStep ==
    ASSUME Ending, ChipInv, PinStep
    PROVE  Frame /\ Quiet /\ ChipInv' /\ Ending'
<1>1. /\ Waiting /\ phase = "end" /\ gpio /\ part = FinishCommand
      /\ chip.d = 0 /\ chip.mode # "read"
      /\ chip.mode = "cmd" => chip.shift = << >>
      /\ read = << >> /\ err \in {"OK", "FAIL_INTERNAL"}
      /\ err = "OK" => chip.pending = None
  BY Zenon DEF Ending, Waiting
<1>2. 0 \in Bit /\ 1 \in Bit
  BY DEF Bit
<1>3. at \in 0 .. 7 /\ (at >= 2 => chip.cs = 0)
  BY <1>1, FinishPlaces, SMT DEF Ending, PinStep, Done
<1>4. /\ Frame /\ read' = read /\ Quiet /\ ChipInv' /\ chip'.d = 0
      /\ chip'.mode # "read"
      /\ chip'.mode = "cmd" => chip'.shift = << >>
      /\ at + 1 >= 2 => chip'.cs = 0
      /\ at + 1 = 8 => chip'.sk = 0
  <2>1. CASE at = 0
    <3>1. at + 1 = 1 /\ ~(at + 1 >= 2) /\ at + 1 # 8
      BY <2>1, SMT
    <3>2. part[at + 1] = <<"SK", 0>>
      BY <1>1, <3>1, FinishPlaces, Zenon
    <3> QED
      BY <1>1, <1>2, <3>1, <3>2, SetsSK, Zenon DEF SameCommand
  <2>2. CASE at = 1
    <3>1. at + 1 = 2 /\ at + 1 # 8
      BY <2>2, SMT
    <3>2. part[at + 1] = <<"CS", 0>>
      BY <1>1, <3>1, FinishPlaces, Zenon
    <3>3. Executes(chip) = "nothing"
      <4>1. chip.mode = "cmd" => ~Complete(chip.shift)
        BY <1>1, WidthAssumption, EmptySeq, SMT DEF Complete
      <4> QED
        BY <4>1, Zenon DEF Executes
    <3>4. /\ Frame /\ read' = read /\ Quiet /\ ChipInv'
          /\ chip'.cs = 0 /\ chip'.d = chip.d
      BY <1>1, <3>2, <3>3, Drops, Zenon
    <3>5. chip'.mode = "off"
      BY <3>4, Zenon DEF ChipInv
    <3> QED
      BY <1>1, <3>1, <3>4, <3>5
  <2>3. CASE at = 2
    <3>1. at + 1 = 3 /\ at + 1 # 8 /\ at >= 2
      BY <2>3, SMT
    <3>2. part[at + 1] = <<"DO", 0>>
      BY <1>1, <3>1, FinishPlaces, Zenon
    <3> QED
      BY <1>1, <1>2, <1>3, <3>1, <3>2, SetsD, Zenon DEF SameCommand
  <2>4. CASE at \in {3, 5, 7}
    <3>1. at + 1 \in {4, 6, 8} /\ at >= 2
      BY <2>4, SMT
    <3>2. part[at + 1] = <<"SK", 0>>
      BY <1>1, <3>1, FinishPlaces, Zenon
    <3> QED
      BY <1>1, <1>2, <1>3, <3>1, <3>2, SetsSK, Zenon DEF SameCommand
  <2>5. CASE at \in {4, 6}
    <3>1. at + 1 \in {5, 7} /\ at >= 2 /\ at + 1 # 8
      BY <2>5, SMT
    <3>2. part[at + 1] = <<"SK", 1>>
      BY <1>1, <3>1, FinishPlaces, Zenon
    <3> QED
      BY <1>1, <1>2, <1>3, <3>1, <3>2, SetsSK, Zenon DEF SameCommand
  <2> QED
    BY <1>3, <2>1, <2>2, <2>3, <2>4, <2>5, SMT
<1>5. Waiting'
  BY <1>1, <1>4, WaitingKept, Zenon
<1>6. at' = at + 1 /\ at' \in 0 .. 8
  <2>1. at' = at + 1
    BY <1>4 DEF Frame
  <2> QED
    BY <1>3, <2>1, SMT
<1>7. /\ phase' = "end" /\ part' = FinishCommand /\ read' = << >>
      /\ err' \in {"OK", "FAIL_INTERNAL"} /\ (err' = "OK" => chip'.pending = None)
  BY <1>1, <1>4, Zenon DEF Frame, Quiet, SameStore
<1>8. Ending'
  BY <1>4, <1>5, <1>6, <1>7, Zenon DEF Ending
<1> QED
  BY <1>4, <1>8

(* The pins lowered by Init, Open and Shutdown, access by access. *)
LEMMA IdlePlaces ==
    /\ IdlePins \in Seq(Pins) /\ Len(IdlePins) = 3
    /\ IdlePins[1] = <<"CS", 0>> /\ IdlePins[2] = <<"SK", 0>>
    /\ IdlePins[3] = <<"DO", 0>>
<1>1. PICK a, b, c : a = <<"CS", 0>> /\ b = <<"SK", 0>> /\ c = <<"DO", 0>>
  OBVIOUS
<1>2. a \in Pins /\ b \in Pins /\ c \in Pins
  BY <1>1 DEF Pins, Bit
<1>3. IdlePins = <<a, b, c>>
  BY <1>1 DEF IdlePins, SetCS, SetSK, SetDO
<1>4. IdlePins \in Seq(Pins) /\ Len(IdlePins) = 3
  BY <1>2, <1>3
<1>5. IdlePins[1] = a /\ IdlePins[2] = b /\ IdlePins[3] = c
  BY <1>3
<1> QED
  BY <1>1, <1>4, <1>5, Zenon

(* The checks of a function depend on its arguments and the status. *)
LEMMA SameChecks ==
    ASSUME op' = op, status' = status
    PROVE  EarlyReturn(op)' = EarlyReturn(op)
BY Zenon DEF EarlyReturn

(* A pin access of Init, Open or Shutdown, with GPIO or without. *)
LEMMA LoweringStep ==
    ASSUME Types, ChipInv, Lowering, PinStep
    PROVE  /\ Quiet /\ ChipInv' /\ Lowering' /\ err' \in Store!Errors
           /\ UNCHANGED <<gpio, status, op, polls, answer, clean>>
<1>1. /\ op \in Store!Operation /\ op.cmd \in {"Init", "Open", "Shutdown"}
      /\ EarlyReturn(op) = "OK" /\ phase = "send" /\ part = IdlePins
      /\ ~taken /\ read = << >> /\ PinsLow
  BY Zenon DEF Lowering
<1>2. at \in {0, 1, 2} /\ at + 1 \in {1, 2, 3} /\ at + 1 \in 0 .. 3 /\ at + 1 # 0
  BY <1>1, IdlePlaces, SMT DEF Lowering, PinStep, Done
<1>3. UNCHANGED <<gpio, status, op, part, phase, polls, answer, clean>> /\ at' = at + 1
  BY Zenon DEF PinStep
<1>4. EarlyReturn(op)' = "OK"
  BY <1>1, <1>3, SameChecks, Zenon
<1>5. chip.cs = 0 /\ chip.mode = "off" /\ Executes(chip) = "nothing"
  <2>1. chip.cs = 0 /\ chip.mode = "off"
    BY <1>1, Zenon DEF PinsLow, ChipInv
  <2> QED
    BY <2>1 DEF Executes
<1>6. 0 \in Bit
  BY DEF Bit
<1>7. \E pin \in {"CS", "SK", "DO"} : part[at + 1] = <<pin, 0>>
  BY <1>1, <1>2, IdlePlaces
<1>8. CASE gpio
  <2>1. /\ Frame /\ read' = read /\ Quiet /\ ChipInv' /\ PinsLow'
    <3>1. CASE at = 0
      <4>1. part[at + 1] = <<"CS", 0>>
        BY <1>1, <3>1, IdlePlaces, SMT
      <4> QED
        BY <1>1, <1>5, <1>8, <4>1, Drops, Zenon DEF PinsLow
    <3>2. CASE at = 1
      <4>1. part[at + 1] = <<"SK", 0>>
        BY <1>1, <3>2, IdlePlaces, SMT
      <4> QED
        BY <1>1, <1>6, <1>8, <4>1, SetsSK, Zenon DEF PinsLow
    <3>3. CASE at = 2
      <4>1. part[at + 1] = <<"DO", 0>>
        BY <1>1, <3>3, IdlePlaces, SMT
      <4> QED
        BY <1>1, <1>6, <1>8, <4>1, SetsD, Zenon DEF PinsLow
    <3> QED
      BY <1>2, <3>1, <3>2, <3>3
  <2>2. ~taken' /\ read' = << >> /\ gpio' /\ err' = "OK"
    <3>1. err = "OK"
      BY <1>8, Zenon DEF Lowering
    <3> QED
      BY <1>1, <1>3, <1>8, <2>1, <3>1 DEF Quiet, Frame
  <2>3. Lowering'
    BY <1>1, <1>2, <1>3, <1>4, <2>1, <2>2, Zenon DEF Lowering
  <2>4. err' \in Store!Errors
    BY <2>2 DEF Store!Errors
  <2> QED
    BY <1>3, <2>1, <2>3, <2>4, Zenon
<1>9. CASE ~gpio
  <2>1. PICK pin \in {"CS", "SK", "DO"} : part[at + 1] = <<pin, 0>>
    BY <1>7
  <2>2. part[at + 1][1] = pin /\ part[at + 1][2] = 0 /\ pin # "DI"
    BY <2>1, SMT
  <2>3. op.cmd = "Init"
    BY <1>9, Zenon DEF Lowering
  <2>4. /\ chip' = chip /\ read' = read /\ err' = "EXISTS"
        /\ taken' = \/ taken
                    \/ chip'.mode = "read"
                    \/ pin = "CS" /\ 0 = 0 /\ Executes(chip) # "nothing"
    BY <1>9, <2>2, <2>3, Zenon DEF PinStep
  <2>5. taken' = taken
    <3>1. chip.mode # "read"
      BY <1>5
    <3> QED
      BY <1>5, <2>4, <3>1, Zenon DEF ChipInv
  <2>6. Quiet /\ ChipInv' /\ PinsLow' /\ ~taken' /\ read' = << >>
    <3>1. Quiet /\ ChipInv'
      BY <2>4, <2>5, Zenon DEF Quiet, SameStore, ChipInv
    <3>2. PinsLow' /\ read' = << >>
      BY <1>1, <2>4, Zenon DEF PinsLow
    <3>3. ~taken'
      BY <1>1, <2>5
    <3> QED
      BY <3>1, <3>2, <3>3
  <2>7. Lowering'
    BY <1>1, <1>2, <1>3, <1>4, <1>9, <2>3, <2>4, <2>6, Zenon DEF Lowering
  <2>8. err' \in Store!Errors
    BY <2>4 DEF Store!Errors
  <2> QED
    BY <1>3, <2>6, <2>7, <2>8, Zenon
<1> QED
  BY <1>8, <1>9

(* Any pin access keeps the invariant, and is a step of the store: the     *)
(* chip takes the command, or nothing happens.                             *)
LEMMA PinStepInv ==
    ASSUME Inv, PinStep
    PROVE  Inv' /\ (UNCHANGED Store!vars \/ Store!Take)
<1>1. Types /\ ChipInv /\ err \in Store!Errors /\ Place
  BY Zenon DEF Inv
<1>2. ASSUME UNCHANGED <<gpio, status, op, polls, answer, clean>> PROVE Types'
  BY <1>1, <1>2, Zenon DEF Types
<1>3. ASSUME UNCHANGED <<gpio, status, op, polls, answer, clean>>, Quiet
      PROVE  UNCHANGED Store!vars
  BY <1>3, Zenon DEF Quiet, SameStore, Store!vars
<1>4. ASSUME Frame
      PROVE  /\ UNCHANGED <<gpio, status, op, polls, answer, clean>>
             /\ err' \in Store!Errors
  BY <1>1, <1>4, Zenon DEF Frame
<1>5. Len(<< >>) = 0
  BY EmptySeq
<1>6. CASE Resting
  BY <1>5, <1>6, Zenon DEF Resting, PinStep, Done
<1>7. CASE Refused
  BY <1>5, <1>7, Zenon DEF Refused, PinStep, Done
<1>8. CASE Lowering
  BY <1>1, <1>2, <1>3, <1>8, LoweringStep, Zenon DEF Inv, Place
<1>9. CASE Commanding
  BY <1>1, <1>2, <1>3, <1>4, <1>9, CommandingStep, Zenon DEF Inv, Place
<1>10. CASE Polling
  BY <1>1, <1>2, <1>3, <1>4, <1>10, PollingStep, Zenon DEF Inv, Place
<1>11. CASE Ending
  BY <1>1, <1>2, <1>3, <1>4, <1>11, EndingStep, Zenon DEF Inv, Place
<1> QED
  BY <1>1, <1>6, <1>7, <1>8, <1>9, <1>10, <1>11, Zenon DEF Place

(* A command whose program is done has been finished. *)
LEMMA CommandDone ==
    ASSUME Commanding, Done
    PROVE  Finishing(8) /\ PinsLow
<1>1. OnTheWire /\ Store!OnWire(op) /\ op \in Store!Operation /\ part = Program(op)
  BY DEF Commanding, OnTheWire, Store!Issued
<1>2. at = Start(op) + 8 /\ Start(op) \in Nat
  BY <1>1, ProgramPlaces DEF Done
<1>3. Width(op) \in Nat /\ DataBits \in Nat
  BY <1>1, CommandShape, WidthAssumption
<1>4. ASSUME NEW q \in 0 .. Width(op) - 1, NEW r \in 0 .. 3, Sending(q, r)
      PROVE  FALSE
  <2>1. at = 4 * q + r
    BY <1>4 DEF Sending
  <2> QED
    BY <1>2, <1>3, <2>1, SMT DEF Start
<1>5. ASSUME op.cmd = "READ", NEW i \in 0 .. DataBits - 1, NEW r \in 0 .. 3,
             Reading(i, r)
      PROVE  FALSE
  <2>1. at = 4 * Width(op) + (4 * i + r)
    BY <1>5 DEF Reading
  <2> QED
    BY <1>2, <1>3, <1>5, <2>1, SMT DEF Start
<1>6. PICK j \in 0 .. 8 : Finishing(j)
  BY <1>4, <1>5, Zenon DEF Commanding
<1>7. j = 8
  <2>1. at = Start(op) + j
    BY <1>6 DEF Finishing
  <2> QED
    BY <1>2, <2>1, SMT
<1>8. Finishing(8)
  BY <1>6, <1>7, Zenon
<1> QED
  BY <1>8 DEF Finishing, PinsLow

(* eepromDrvWaitForReady begins. *)
LEMMA StartPollingInv ==
    ASSUME Inv, StartPolling
    PROVE  Inv' /\ UNCHANGED Store!vars
<1>1. Types /\ ChipInv /\ err \in Store!Errors /\ Place
  BY Zenon DEF Inv
<1>2. /\ phase = "send" /\ op # NoOp /\ Done /\ op.cmd \in {"WRITE", "ERASE"}
      /\ phase' = "poll" /\ read' = << >> /\ part' = <<SetDO(0)>> /\ at' = 0
      /\ UNCHANGED <<gpio, status, op, polls, err, answer, chip, clean, taken>>
  BY Zenon DEF StartPolling
<1>3. Commanding
  <2>1. ~Resting /\ ~Refused /\ ~Lowering /\ ~Polling /\ ~Ending
    BY <1>2 DEF Resting, Refused, Lowering, Polling, Ending
  <2> QED
    BY <1>1, <2>1, Zenon DEF Place
<1>4. Finishing(8) /\ PinsLow /\ OnTheWire /\ err = "OK"
  BY <1>2, <1>3, CommandDone, Zenon DEF Commanding
<1>5. clean => taken
  BY <1>2, <1>4 DEF Finishing
<1>6. Waiting
  <2>1. chip.d = 0 /\ chip.mode = "off"
    BY <1>1, <1>4, Zenon DEF PinsLow, ChipInv
  <2>2. chip.mode # "read" /\ chip.mode # "cmd"
    BY <2>1
  <2> QED
    BY <1>2, <1>4, <1>5, <2>1, <2>2, Zenon DEF Waiting, OnTheWire, Store!Programs
<1>7. Waiting'
  BY <1>2, <1>6, Zenon DEF Waiting, Store!Issued, Store!Programs
<1>8. 0 \in 0 .. 1
  BY SMT
<1>9. Polling'
  BY <1>2, <1>4, <1>7, <1>8, Zenon DEF Polling
<1>10. Types' /\ ChipInv' /\ err' \in Store!Errors
  <2>1. Types'
    BY <1>1, <1>2, Zenon DEF Types
  <2>2. ChipInv'
    BY <1>1, <1>2, Zenon DEF ChipInv
  <2> QED
    BY <1>1, <1>2, <2>1, <2>2, Zenon
<1>11. UNCHANGED Store!vars
  BY <1>2, Zenon DEF Store!vars
<1> QED
  BY <1>9, <1>10, <1>11, Zenon DEF Inv, Place

(* A bit has been read: the chip was ready, or is asked again, or the      *)
(* driver gives up.                                                        *)
LEMMA PollInv ==
    ASSUME Inv, Poll
    PROVE  Inv' /\ UNCHANGED Store!vars
<1>1. Types /\ ChipInv /\ err \in Store!Errors /\ Place
  BY Zenon DEF Inv
<1>2. /\ phase = "poll" /\ Done /\ read' = << >> /\ at' = 0
      /\ UNCHANGED <<gpio, status, op, answer, chip, clean, taken>>
  BY Zenon DEF Poll
<1>3. Polling
  <2>1. ~Resting /\ ~Refused /\ ~Lowering /\ ~Commanding /\ ~Ending
    BY <1>2 DEF Resting, Refused, Lowering, Commanding, OnTheWire, Ending
  <2> QED
    BY <1>1, <2>1, Zenon DEF Place
<1>4. Waiting /\ err = "OK"
  BY <1>3, Zenon DEF Polling
<1>5. Waiting'
  BY <1>2, <1>4, Zenon DEF Waiting, Store!Issued, Store!Programs
<1>6. polls \in 0 .. MaxPolls /\ MaxPolls \in Nat
  BY <1>1, WidthAssumption, Zenon DEF Types
<1>7. read = <<1>> => chip.pending = None
  <2>1. CASE part = <<SetDO(0)>> /\ at \in 0 .. 1 /\ read = << >>
    BY <2>1
  <2>2. CASE /\ part = ReadBit /\ at \in 0 .. 4
             /\ IF at = 4 THEN read = <<0>> \/ (read = <<1>> /\ chip.pending = None)
                          ELSE read = << >>
    BY <2>2
  <2> QED
    BY <1>3, <2>1, <2>2, Zenon DEF Polling
<1>8. ChipInv' /\ UNCHANGED Store!vars
  BY <1>1, <1>2, Zenon DEF ChipInv, Store!vars
<1>9. ASSUME polls' \in 0 .. MaxPolls PROVE Types'
  BY <1>1, <1>2, <1>9, Zenon DEF Types
<1>10. 0 \in 0 .. 4 /\ 0 \in 0 .. 8 /\ ~(0 >= 2) /\ 0 # 4 /\ 0 # 8
  BY SMT
<1>11. CASE read = <<1>>
  <2>1. phase' = "end" /\ part' = FinishCommand /\ polls' = polls /\ err' = err
    BY <1>11, Zenon DEF Poll
  <2>2. err' \in {"OK", "FAIL_INTERNAL"} /\ chip'.pending = None
    BY <1>2, <1>4, <1>7, <1>11, <2>1, Zenon
  <2>3. Ending'
    BY <1>2, <1>5, <1>10, <2>1, <2>2, Zenon DEF Ending
  <2>4. Types' /\ err' \in Store!Errors
    BY <1>1, <1>6, <1>9, <2>1, Zenon
  <2> QED
    BY <1>8, <2>3, <2>4, Zenon DEF Inv, Place
<1>12. CASE read # <<1>> /\ polls < MaxPolls
  <2>1. polls' = polls + 1 /\ part' = ReadBit /\ phase' = phase /\ err' = err
    BY <1>12, Zenon DEF Poll
  <2>2. polls' \in 0 .. MaxPolls
    BY <1>6, <1>12, <2>1, SMT
  <2>3. phase' = "poll" /\ err' = "OK"
    BY <1>2, <1>4, <2>1, Zenon
  <2>4. Polling'
    BY <1>2, <1>5, <1>10, <2>1, <2>3, Zenon DEF Polling
  <2>5. Types' /\ err' \in Store!Errors
    BY <1>1, <1>9, <2>1, <2>2, Zenon
  <2> QED
    BY <1>8, <2>4, <2>5, Zenon DEF Inv, Place
<1>13. CASE read # <<1>> /\ ~(polls < MaxPolls)
  <2>1. phase' = "end" /\ part' = FinishCommand /\ polls' = polls
        /\ err' = "FAIL_INTERNAL"
    BY <1>13, Zenon DEF Poll
  <2>2. err' \in {"OK", "FAIL_INTERNAL"} /\ err' # "OK" /\ err' \in Store!Errors
    BY <2>1 DEF Store!Errors
  <2>3. Ending'
    BY <1>2, <1>5, <1>10, <2>1, <2>2, Zenon DEF Ending
  <2>4. Types'
    BY <1>6, <1>9, <2>1, Zenon
  <2> QED
    BY <1>8, <2>2, <2>3, <2>4, Zenon DEF Inv, Place
<1> QED
  BY <1>11, <1>12, <1>13, Zenon

(* The chip ends a programming cycle, wherever the driver is. *)
LEMMA ChipDoneInv ==
    ASSUME Inv, ChipDone
    PROVE  Inv' /\ Store!Settle
<1>1. Types /\ ChipInv /\ err \in Store!Errors /\ Place
  BY Zenon DEF Inv
<1>2. /\ chip.pending # None
      /\ chip' = [chip EXCEPT !.mem = chip.pending, !.pending = None]
      /\ gpio' = gpio /\ status' = status /\ op' = op /\ part' = part
      /\ at' = at /\ phase' = phase /\ polls' = polls /\ read' = read
      /\ err' = err /\ answer' = answer /\ clean' = clean /\ taken' = taken
  BY Zenon DEF ChipDone, driver
<1>3. chip \in Chip
  BY <1>1, Zenon DEF ChipInv
<1>4. chip.pending \in Store!Memory
  BY <1>2, <1>3 DEF Chip
<1>5. /\ chip'.mem = chip.pending /\ chip'.pending = None
      /\ chip'.wen = chip.wen /\ chip'.latched = chip.latched
  BY <1>2, <1>3, SMT DEF Chip
<1>6. /\ chip'.sk = chip.sk /\ chip'.cs = chip.cs /\ chip'.d = chip.d
      /\ chip'.mode = chip.mode /\ chip'.shift = chip.shift /\ chip'.out = chip.out
  BY <1>2, <1>3, SMT DEF Chip
<1>7. chip' \in Chip
  <2>1. PICK c1 \in Chip : c1 = [chip EXCEPT !.mem = chip.pending]
    BY <1>3, <1>4 DEF Chip
  <2>2. PICK c2 \in Chip : c2 = [c1 EXCEPT !.pending = None]
    BY Changed
  <2>3. chip' = c2
    BY <1>2, <2>1, <2>2
  <2> QED
    BY <2>3
<1>8. ChipInv'
  BY <1>1, <1>2, <1>5, <1>6, <1>7, Zenon DEF ChipInv
<1>9. Types' /\ err' \in Store!Errors
  BY <1>1, <1>2, Zenon DEF Types
<1>10. Store!Settle
  BY <1>2, <1>5, Zenon DEF Store!Settle
<1>11. PinsLow => PinsLow'
  BY <1>6, Zenon DEF PinsLow
<1>12. Place'
  <2>1. CASE Resting
    BY <1>2, <1>11, <2>1, Zenon DEF Resting, Place
  <2>2. CASE Refused
    <3>1. EarlyReturn(op)' = EarlyReturn(op)
      BY <1>2, SameChecks, Zenon
    <3> QED
      BY <1>2, <1>11, <2>2, <3>1, Zenon DEF Refused, Place
  <2>3. CASE Lowering
    <3>1. EarlyReturn(op)' = EarlyReturn(op)
      BY <1>2, SameChecks, Zenon
    <3> QED
      BY <1>2, <1>11, <2>3, <3>1, Zenon DEF Lowering, Place
  <2>4. CASE Commanding
    <3>1. OnTheWire' /\ err' = "OK" /\ Width(op') = Width(op) /\ Start(op') = Start(op)
      BY <1>2, <2>4, Zenon DEF Commanding, OnTheWire, Store!Issued
    <3>2. ASSUME NEW q, Heard(q) PROVE Heard(q)'
      BY <1>2, <1>6, <3>2, Zenon DEF Heard
    <3>3. ASSUME NEW q, NEW r, Sending(q, r) PROVE Sending(q, r)'
      BY <1>2, <1>5, <1>6, <3>2, <3>3, Zenon DEF Sending
    <3>4. ReadOut => ReadOut'
      BY <1>2, <1>5, Zenon DEF ReadOut
    <3>5. ASSUME NEW k, Shown(k) PROVE Shown(k)'
      BY <1>5, <1>6, <3>5, Zenon DEF Shown
    <3>6. ASSUME NEW i, NEW r, Reading(i, r) PROVE Reading(i, r)'
      BY <1>2, <1>5, <1>6, <3>1, <3>4, <3>5, <3>6, Zenon DEF Reading
    <3>7. ASSUME NEW j, Finishing(j) PROVE Finishing(j)'
      BY <1>2, <1>5, <1>6, <3>1, <3>2, <3>4, <3>7, Zenon DEF Finishing
    <3>8. Commanding'
      BY <1>2, <2>4, <3>1, <3>3, <3>6, <3>7, Zenon DEF Commanding
    <3> QED
      BY <3>8, Zenon DEF Place
  <2>5. ASSUME Waiting PROVE Waiting'
    BY <1>2, <1>6, <2>5, Zenon DEF Waiting, Store!Issued, Store!Programs
  <2>6. CASE Polling
    <3>1. Polling'
      BY <1>2, <1>5, <1>6, <2>5, <2>6, Zenon DEF Polling
    <3> QED
      BY <3>1, Zenon DEF Place
  <2>7. CASE Ending
    <3>1. Ending'
      BY <1>2, <1>5, <1>6, <2>5, <2>7, Zenon DEF Ending
    <3> QED
      BY <3>1, Zenon DEF Place
  <2> QED
    BY <1>1, <2>1, <2>2, <2>3, <2>4, <2>6, <2>7, Zenon DEF Place
<1> QED
  BY <1>8, <1>9, <1>10, <1>12, Zenon DEF Inv

(* The latch is cleared at the start and at the end of a function. *)
LEMMA LatchCleared ==
    ASSUME chip \in Chip, chip' = [chip EXCEPT !.latched = None]
    PROVE  /\ chip' \in Chip /\ chip'.latched = None
           /\ chip'.mem = chip.mem /\ chip'.wen = chip.wen
           /\ chip'.pending = chip.pending /\ chip'.mode = chip.mode
           /\ chip'.cs = chip.cs /\ chip'.sk = chip.sk /\ chip'.d = chip.d
<1>1. None \in Words \cup {None}
  OBVIOUS
<1>2. chip' \in Chip
  BY <1>1, Changed, Zenon
<1>3. /\ chip'.latched = None /\ chip'.mem = chip.mem
      /\ chip'.pending = chip.pending /\ chip'.mode = chip.mode
      /\ chip'.cs = chip.cs /\ chip'.sk = chip.sk /\ chip'.d = chip.d
  BY SMT DEF Chip
<1>4. chip'.wen = chip.wen
  BY SMT DEF Chip
<1> QED
  BY <1>2, <1>3, <1>4

(* What the checks of a function say of its arguments and the status. *)
LEMMA Checks ==
    ASSUME NEW o \in Store!Operation
    PROVE  /\ EarlyReturn(o) \in Store!Errors
           /\ EarlyReturn(o) = "OK" =>
                /\ o.ndx = 0
                /\ \/ o.cmd = "Init"
                   \/ o.cmd = "Open" /\ status \in {"CLOSED", "INITIALISED"}
                   \/ o.cmd = "Shutdown" /\ status = "OPEN"
                   \/ Store!OnWire(o) /\ status = "OPEN"
           /\ EarlyReturn(o) # "OK" =>
                \/ o.ndx # 0 /\ EarlyReturn(o) = "MAX"
                \/ /\ o.ndx = 0 /\ o.cmd = "Open" /\ EarlyReturn(o) = "NOTREADY"
                   /\ status \notin {"CLOSED", "INITIALISED"}
                \/ /\ o.ndx = 0 /\ o.cmd \notin {"Init", "Open"} /\ status # "OPEN"
                   /\ EarlyReturn(o) = "NOTREADY"
                \/ /\ o.ndx = 0 /\ o.cmd = "BADCONTROL" /\ status = "OPEN"
                   /\ EarlyReturn(o) = "INVALID"
<1>1. o.cmd \in Store!Commands
  BY DEF Store!Operation
<1>2. EarlyReturn(o) \in Store!Errors
  BY DEF EarlyReturn, Store!Errors
<1>3. EarlyReturn(o) = "OK" =>
        /\ o.ndx = 0
        /\ \/ o.cmd = "Init"
           \/ o.cmd = "Open" /\ status \in {"CLOSED", "INITIALISED"}
           \/ o.cmd = "Shutdown" /\ status = "OPEN"
           \/ Store!OnWire(o) /\ status = "OPEN"
  BY <1>1 DEF EarlyReturn, Store!OnWire, Store!Commands, Store!Controls
<1>4. EarlyReturn(o) # "OK" =>
        \/ o.ndx # 0 /\ EarlyReturn(o) = "MAX"
        \/ /\ o.ndx = 0 /\ o.cmd = "Open" /\ EarlyReturn(o) = "NOTREADY"
           /\ status \notin {"CLOSED", "INITIALISED"}
        \/ /\ o.ndx = 0 /\ o.cmd \notin {"Init", "Open"} /\ status # "OPEN"
           /\ EarlyReturn(o) = "NOTREADY"
        \/ /\ o.ndx = 0 /\ o.cmd = "BADCONTROL" /\ status = "OPEN"
           /\ EarlyReturn(o) = "INVALID"
  BY DEF EarlyReturn
<1> QED
  BY <1>2, <1>3, <1>4, Zenon

(* A function is called. *)
LEMMA CallInv ==
    ASSUME Inv, NEW o \in Ops, Call(o)
    PROVE  Inv' /\ Store!Call(o)
<1>1. Types /\ ChipInv /\ Place /\ gpio \in BOOLEAN /\ status \in Store!Statuses
      /\ (~gpio => status = "UNINITIALISED")
  BY Zenon DEF Inv, Types
<1>2. o \in Store!Operation /\ o # NoOp /\ NoOp \notin Store!Operation
  BY DriverAssumption
<1>3. /\ op = NoOp /\ op' = o /\ err' = EarlyReturn(o)
      /\ part' = (IF EarlyReturn(o) = "OK" THEN Program(o) ELSE << >>)
      /\ at' = 0 /\ phase' = (IF EarlyReturn(o) = "OK" THEN "send" ELSE "end")
      /\ polls' = 0 /\ read' = << >> /\ answer' = NoAnswer
      /\ clean' = (chip.pending = None) /\ taken' = FALSE
      /\ chip' = [chip EXCEPT !.latched = None]
      /\ gpio' = gpio /\ status' = status
  BY Zenon DEF Call
<1>4. Resting
  <2>1. ~Refused /\ ~Lowering /\ ~Commanding /\ ~Polling /\ ~Ending
    BY <1>2, <1>3, Zenon DEF Refused, Lowering, Commanding, OnTheWire, Polling,
                             Ending, Waiting
  <2> QED
    BY <1>1, <2>1, Zenon DEF Place
<1>5. PinsLow /\ chip.mode = "off" /\ chip \in Chip
  BY <1>1, <1>4, Zenon DEF Resting, PinsLow, ChipInv
<1>6. /\ chip' \in Chip /\ chip'.latched = None
      /\ chip'.mem = chip.mem /\ chip'.wen = chip.wen
      /\ chip'.pending = chip.pending /\ chip'.mode = chip.mode
      /\ chip'.cs = chip.cs /\ chip'.sk = chip.sk /\ chip'.d = chip.d
  BY <1>3, <1>5, LatchCleared, Zenon
<1>7. PinsLow' /\ ChipInv'
  <2>1. PinsLow'
    BY <1>5, <1>6, Zenon DEF PinsLow
  <2>2. "off" # "cmd" /\ "off" # "read"
    OBVIOUS
  <2>3. ChipInv'
    BY <1>3, <1>5, <1>6, <2>1, <2>2, Zenon DEF ChipInv, PinsLow
  <2> QED
    BY <2>1, <2>3
<1>8. Types' /\ err' \in Store!Errors
  <2>1. polls' \in 0 .. MaxPolls
    BY <1>3, WidthAssumption, SMT
  <2>2. /\ answer'.op \in Ops \cup {NoOp} /\ answer'.ret \in Store!Errors
        /\ answer'.data \in Words \cup {None}
    BY <1>3 DEF NoAnswer, Store!Errors
  <2>3. err' \in Store!Errors
    BY <1>2, <1>3, Checks, Zenon
  <2>4. clean' \in BOOLEAN
    BY <1>3, Zenon
  <2> QED
    BY <1>1, <1>3, <2>1, <2>2, <2>3, <2>4, Zenon DEF Types
<1>9. Store!Call(o)
  BY <1>3, <1>6, Zenon DEF Store!Call, Store!NoAnswer, NoAnswer
<1>10. EarlyReturn(op)' = EarlyReturn(o)
  BY <1>3, Zenon DEF EarlyReturn
<1>11. ~taken' /\ read' = << >> /\ op' \in Store!Operation
  BY <1>2, <1>3, Zenon
<1>12. Place'
  <2>1. CASE EarlyReturn(o) # "OK"
    <3>1. part' = << >> /\ phase' = "end"
      BY <1>3, <2>1, Zenon
    <3>2. Refused'
      BY <1>3, <1>7, <1>10, <1>11, <2>1, <3>1, Zenon DEF Refused
    <3> QED
      BY <3>2, Zenon DEF Place
  <2>2. CASE EarlyReturn(o) = "OK" /\ o.cmd \in {"Init", "Open", "Shutdown"}
    <3>1. part' = IdlePins /\ phase' = "send" /\ err' = "OK" /\ 0 \in 0 .. 3
      <4>1. 0 \in 0 .. 3
        BY SMT
      <4> QED
        BY <1>3, <2>2, <4>1, Zenon DEF Program
    <3>2. ~gpio => o.cmd = "Init"
      <4>1. \/ o.cmd = "Init"
            \/ status \in {"CLOSED", "INITIALISED"}
            \/ status = "OPEN"
        BY <1>2, <2>2, Checks, Zenon
      <4> QED
        BY <1>1, <4>1
    <3>3. Lowering'
      BY <1>3, <1>7, <1>10, <1>11, <2>2, <3>1, <3>2, Zenon DEF Lowering
    <3> QED
      BY <3>3, Zenon DEF Place
  <2>3. CASE EarlyReturn(o) = "OK" /\ o.cmd \notin {"Init", "Open", "Shutdown"}
    <3>1. o.ndx = 0 /\ Store!OnWire(o) /\ status = "OPEN"
      BY <1>2, <2>3, Checks, Zenon
    <3>2. gpio
      BY <1>1, <3>1
    <3>3. part' = Program(op') /\ phase' = "send" /\ err' = "OK"
      BY <1>3, <2>3, Zenon
    <3>4. Store!Issued'
      BY <1>2, <1>3, <3>1, Zenon DEF Store!Issued
    <3>5. OnTheWire'
      BY <1>3, <1>11, <3>2, <3>3, <3>4, Zenon DEF OnTheWire
    <3>6. Width(op') \in Nat /\ Width(op') >= 5
      BY <1>2, <1>3, <3>1, CommandShape, Zenon
    <3>7. at' = 4 * 0 + 0 /\ 0 \in 0 .. Width(op') - 1 /\ 0 \in 0 .. 3
      BY <1>3, <3>6, SMT
    <3>8. clean' => chip'.pending = None
      BY <1>3, <1>6, Zenon
    <3>9. Sending(0, 0)'
      <4>1. chip'.cs = 0
        BY <1>7, Zenon DEF PinsLow
      <4> QED
        BY <1>11, <3>7, <3>8, <4>1 DEF Sending
    <3>10. Commanding'
      BY <3>3, <3>5, <3>7, <3>9, Zenon DEF Commanding
    <3> QED
      BY <3>10, Zenon DEF Place
  <2> QED
    BY <2>1, <2>2, <2>3, Zenon
<1> QED
  BY <1>7, <1>8, <1>9, <1>12, Zenon DEF Inv

(* The word a READ returns. *)
LEMMA WordRead ==
    ASSUME read \in Seq(Bit), Len(read) = DataBits
    PROVE  /\ read \in Words
           /\ chip.latched \in Words /\ ReadOut => read = chip.latched
<1>1. read \in [1 .. DataBits -> Bit]
  BY LenProperties
<1>2. ASSUME chip.latched \in Words, ReadOut PROVE read = chip.latched
  <2>1. chip.latched \in [1 .. DataBits -> Bit]
    BY <1>2 DEF Words
  <2>2. \A j \in 1 .. DataBits : read[j] = chip.latched[j]
    BY <1>2 DEF ReadOut
  <2> QED
    BY <1>1, <2>1, <2>2
<1> QED
  BY <1>1, <1>2 DEF Words

(* What a function that is done returns is what the store may return. *)
Result == IF op.cmd = "READ" /\ err = "OK" THEN read ELSE None

(* Every function that is done may return, with the pins low. *)
LEMMA ReturnAllowed ==
    ASSUME Inv, op # NoOp, Done,
           phase = "end" \/ (phase = "send" /\ op.cmd \notin {"WRITE", "ERASE"})
    PROVE  /\ PinsLow /\ Result \in Words \cup {None}
           /\ NewStatus \in Store!Statuses
           /\ ~gpio => NewStatus = "UNINITIALISED"
           /\ Store!CanReturn(err, Result, NewStatus)
<1>1. Types /\ ChipInv /\ Place /\ status \in Store!Statuses
      /\ (~gpio => status = "UNINITIALISED")
  BY Zenon DEF Inv, Types
<1>2. ~Resting /\ ~Polling
  BY DEF Resting, Polling
<1>3. CASE Refused
  <2>1. op \in Store!Operation /\ PinsLow /\ err = EarlyReturn(op) /\ err # "OK"
    BY <1>3, Zenon DEF Refused
  <2>2. \/ op.ndx # 0 /\ err = "MAX"
        \/ /\ op.ndx = 0 /\ op.cmd = "Open" /\ err = "NOTREADY"
           /\ status \notin {"CLOSED", "INITIALISED"}
        \/ /\ op.ndx = 0 /\ op.cmd \notin {"Init", "Open"} /\ status # "OPEN"
           /\ err = "NOTREADY"
        \/ /\ op.ndx = 0 /\ op.cmd = "BADCONTROL" /\ status = "OPEN"
           /\ err = "INVALID"
    BY <2>1, Checks, Zenon
  <2>3. Result = None
    BY <2>1, Zenon DEF Result
  <2>4. ~(op.cmd = "Init" /\ op.ndx = 0)
    BY <2>2
  <2>5. NewStatus = status
    BY <2>1, <2>4, Zenon DEF NewStatus
  <2>6. Store!CanReturn(err, Result, NewStatus)
    <3>1. CASE op.ndx # 0 /\ err = "MAX"
      BY <2>3, <2>5, <3>1, Zenon DEF Store!CanReturn
    <3>2. CASE /\ op.ndx = 0 /\ op.cmd = "Open" /\ err = "NOTREADY"
               /\ status \notin {"CLOSED", "INITIALISED"}
      BY <2>3, <2>5, <3>2, Zenon DEF Store!CanReturn
    <3>3. CASE /\ op.ndx = 0 /\ op.cmd \notin {"Init", "Open"} /\ status # "OPEN"
               /\ err = "NOTREADY"
      <4>1. CASE op.cmd = "Shutdown"
        BY <2>3, <2>5, <3>3, <4>1, Zenon DEF Store!CanReturn
      <4>2. CASE op.cmd # "Shutdown"
        <5>1. op.cmd \notin {"Init", "Open", "Shutdown"}
          BY <3>3, <4>2
        <5> QED
          BY <2>3, <2>5, <3>3, <5>1, Zenon DEF Store!CanReturn
      <4> QED
        BY <4>1, <4>2
    <3>4. CASE /\ op.ndx = 0 /\ op.cmd = "BADCONTROL" /\ status = "OPEN"
               /\ err = "INVALID"
      BY <2>3, <2>5, <3>4, Zenon DEF Store!CanReturn
    <3> QED
      BY <2>2, <3>1, <3>2, <3>3, <3>4, Zenon
  <2> QED
    BY <1>1, <2>1, <2>3, <2>5, <2>6, Zenon
<1>4. CASE Lowering
  <2>1. /\ op \in Store!Operation /\ op.cmd \in {"Init", "Open", "Shutdown"}
        /\ EarlyReturn(op) = "OK" /\ PinsLow /\ part = IdlePins
        /\ gpio => err = "OK"
        /\ ~gpio => op.cmd = "Init" /\ err = IF at = 0 THEN "OK" ELSE "EXISTS"
    BY <1>4, Zenon DEF Lowering
  <2>2. op.ndx = 0 /\ \/ op.cmd = "Init"
                      \/ op.cmd = "Open" /\ status \in {"CLOSED", "INITIALISED"}
                      \/ op.cmd = "Shutdown" /\ status = "OPEN"
                      \/ Store!OnWire(op)
    BY <2>1, Checks, Zenon
  <2>3. at # 0
    BY <2>1, IdlePlaces DEF Done
  <2>4. ~gpio => op.cmd = "Init" /\ err = "EXISTS"
    BY <2>1, <2>3
  <2>5. Result = None
    BY <2>1 DEF Result
  <2>6. CASE op.cmd = "Init"
    <3>1. \/ err = "OK" /\ NewStatus = "INITIALISED" /\ gpio
          \/ err = "EXISTS" /\ NewStatus = "UNINITIALISED"
      BY <2>1, <2>2, <2>4, <2>6 DEF NewStatus
    <3>2. NewStatus \in Store!Statuses
      BY <3>1 DEF Store!Statuses
    <3>3. Store!CanReturn(err, Result, NewStatus)
      BY <2>2, <2>5, <2>6, <3>1, Zenon DEF Store!CanReturn
    <3> QED
      BY <2>1, <2>5, <3>1, <3>2, <3>3, Zenon
  <2>7. CASE op.cmd = "Open"
    <3>1. gpio /\ err = "OK" /\ status \in {"CLOSED", "INITIALISED"}
          /\ NewStatus = "OPEN"
      BY <2>1, <2>2, <2>4, <2>7 DEF NewStatus, Store!OnWire
    <3>2. NewStatus \in Store!Statuses
      BY <3>1 DEF Store!Statuses
    <3>3. Store!CanReturn(err, Result, NewStatus)
      BY <2>2, <2>5, <2>7, <3>1, Zenon DEF Store!CanReturn
    <3> QED
      BY <2>1, <2>5, <3>1, <3>2, <3>3, Zenon
  <2>8. CASE op.cmd = "Shutdown"
    <3>1. gpio /\ err = "OK" /\ status = "OPEN" /\ NewStatus = "CLOSED"
      BY <2>1, <2>2, <2>4, <2>8 DEF NewStatus, Store!OnWire
    <3>2. NewStatus \in Store!Statuses
      BY <3>1 DEF Store!Statuses
    <3>3. Store!CanReturn(err, Result, NewStatus)
      BY <2>2, <2>5, <2>8, <3>1, Zenon DEF Store!CanReturn
    <3> QED
      BY <2>1, <2>5, <3>1, <3>2, <3>3, Zenon
  <2> QED
    BY <2>1, <2>6, <2>7, <2>8, Zenon
<1>5. CASE Commanding
  <2>1. Finishing(8) /\ PinsLow /\ OnTheWire /\ err = "OK"
    BY <1>5, CommandDone, Zenon DEF Commanding
  <2>2. Store!Issued /\ gpio /\ phase = "send" /\ Store!OnWire(op)
    BY <2>1 DEF OnTheWire, Store!Issued
  <2>3. op.cmd \in {"READ", "ENABLE", "DISABLE"}
    BY <2>2 DEF Store!OnWire
  <2>4. NewStatus = status
    BY <2>1, <2>3 DEF NewStatus
  <2>5. CASE op.cmd = "READ"
    <3>1. /\ read \in Seq(Bit) /\ Len(read) = DataBits
          /\ clean => taken /\ chip.latched \in Words /\ ReadOut
      BY <2>1, <2>5 DEF Finishing
    <3>2. Result = read
      BY <2>1, <2>5, Zenon DEF Result
    <3>3. read \in Words /\ (clean => taken) /\ (clean => read = chip.latched)
      BY <3>1, WordRead, Zenon
    <3>4. Store!CanReturn(err, Result, NewStatus)
      BY <2>1, <2>2, <2>4, <2>5, <3>2, <3>3, Zenon DEF Store!CanReturn
    <3> QED
      BY <1>1, <2>1, <2>2, <2>4, <3>2, <3>3, <3>4, Zenon
  <2>6. CASE op.cmd \in {"ENABLE", "DISABLE"}
    <3>1. op.cmd # "READ"
      BY <2>6
    <3>2. clean => taken
      BY <2>1, <3>1 DEF Finishing
    <3>3. Result = None
      BY <3>1, Zenon DEF Result
    <3>4. Store!CanReturn(err, Result, NewStatus)
      BY <2>1, <2>2, <2>4, <2>6, <3>2, <3>3, Zenon DEF Store!CanReturn
    <3> QED
      BY <1>1, <2>1, <2>2, <2>4, <3>3, <3>4, Zenon
  <2> QED
    BY <2>3, <2>5, <2>6
<1>6. CASE Ending
  <2>1. /\ Waiting /\ part = FinishCommand
        /\ at \in 0 .. 8 /\ (at >= 2 => chip.cs = 0) /\ (at = 8 => chip.sk = 0)
        /\ err \in {"OK", "FAIL_INTERNAL"} /\ (err = "OK" => chip.pending = None)
    BY <1>6, Zenon DEF Ending
  <2>2. at = 8
    BY <2>1, FinishPlaces DEF Done
  <2>3. /\ Store!Issued /\ Store!Programs(op) /\ gpio /\ (clean => taken)
        /\ chip.d = 0
    BY <2>1, Zenon DEF Waiting
  <2>4. op.cmd \in {"WRITE", "ERASE"}
    BY <2>3 DEF Store!Programs
  <2>5. PinsLow
    BY <2>1, <2>2, <2>3, SMT DEF PinsLow
  <2>6. Result = None /\ NewStatus = status
    BY <2>4 DEF Result, NewStatus
  <2>7. Store!CanReturn(err, Result, NewStatus)
    <3>1. \/ err = "OK" /\ chip.pending = None
          \/ err = "FAIL_INTERNAL"
      BY <2>1
    <3> QED
      BY <2>3, <2>6, <3>1, Zenon DEF Store!CanReturn
  <2> QED
    BY <1>1, <2>3, <2>5, <2>6, <2>7, Zenon
<1> QED
  BY <1>1, <1>2, <1>3, <1>4, <1>5, <1>6, Zenon DEF Place

(* A function returns. *)
LEMMA ReturnInv ==
    ASSUME Inv, Return
    PROVE  /\ Inv'
           /\ \E ret \in Store!Errors, data \in Words \cup {None}, s \in Store!Statuses :
                 Store!Return(ret, data, s)
<1>1. Types /\ ChipInv /\ err \in Store!Errors /\ op \in Ops \cup {NoOp}
      /\ chip \in Chip /\ gpio \in BOOLEAN /\ clean \in BOOLEAN
  BY Zenon DEF Inv, Types, ChipInv
<1>2. /\ op # NoOp /\ Done
      /\ phase = "end" \/ (phase = "send" /\ op.cmd \notin {"WRITE", "ERASE"})
      /\ status' = NewStatus
      /\ answer' = [op |-> op, ret |-> err, clean |-> clean, data |-> Result]
      /\ op' = NoOp /\ phase' = "send" /\ polls' = 0 /\ read' = << >>
      /\ err' = "OK" /\ clean' = TRUE /\ taken' = FALSE
      /\ chip' = [chip EXCEPT !.latched = None]
      /\ part' = << >> /\ at' = 0 /\ gpio' = gpio
  BY Zenon DEF Return, Result
<1>3. /\ PinsLow /\ Result \in Words \cup {None}
      /\ NewStatus \in Store!Statuses
      /\ ~gpio => NewStatus = "UNINITIALISED"
      /\ Store!CanReturn(err, Result, NewStatus)
  BY <1>2, ReturnAllowed, Zenon
<1>4. /\ chip' \in Chip /\ chip'.latched = None
      /\ chip'.mem = chip.mem /\ chip'.wen = chip.wen
      /\ chip'.pending = chip.pending /\ chip'.mode = chip.mode
      /\ chip'.cs = chip.cs /\ chip'.sk = chip.sk /\ chip'.d = chip.d
  BY <1>1, <1>2, LatchCleared, Zenon
<1>5. PinsLow' /\ chip.mode = "off"
  BY <1>1, <1>3, <1>4, Zenon DEF PinsLow, ChipInv
<1>6. ChipInv'
  <2>1. "off" # "cmd" /\ "off" # "read"
    OBVIOUS
  <2> QED
    BY <1>2, <1>4, <1>5, <2>1, Zenon DEF ChipInv, PinsLow
<1>7. Resting'
  BY <1>2, <1>5, Zenon DEF Resting
<1>8. Types' /\ err' \in Store!Errors
  <2>1. polls' \in 0 .. MaxPolls
    BY <1>2, WidthAssumption, SMT
  <2>2. answer'.op = op /\ answer'.ret = err /\ answer'.data = Result
    BY <1>2
  <2>3. err' \in Store!Errors
    BY <1>2 DEF Store!Errors
  <2> QED
    BY <1>1, <1>2, <1>3, <2>1, <2>2, <2>3, Zenon DEF Types
<1>9. Store!Return(err, Result, NewStatus)
  <2>1. answer' = [op |-> op, ret |-> err, data |-> Result, clean |-> clean]
    BY <1>2
  <2> QED
    BY <1>2, <1>3, <1>4, <2>1, Zenon DEF Store!Return
<1> QED
  BY <1>1, <1>3, <1>6, <1>7, <1>8, <1>9, Zenon DEF Inv, Place

----------------------------------------------------------------------------
(* The invariant holds at power-up, *)
LEMMA InitInv ==
    ASSUME Init
    PROVE  Inv /\ Store!Init
<1>1. /\ gpio \in BOOLEAN /\ status = "UNINITIALISED" /\ op = NoOp
      /\ part = << >> /\ at = 0 /\ phase = "send" /\ polls = 0
      /\ read = << >> /\ err = "OK" /\ answer = NoAnswer
      /\ clean = TRUE /\ taken = FALSE
  BY Zenon DEF Init
<1>2. PICK mem \in [Addrs -> Words] : chip = ChipInit(mem)
  BY Zenon DEF Init
<1>3. /\ chip.sk = 0 /\ chip.cs = 0 /\ chip.d = 0 /\ chip.mode = "off"
      /\ chip.mem = mem /\ chip.pending = None /\ chip.latched = None
  BY <1>2 DEF ChipInit
<1>4. chip.wen = FALSE
  BY <1>2 DEF ChipInit
<1>5. chip \in Chip
  <2>1. 0 \in Bit
    BY DEF Bit
  <2>2. << >> \in Seq(Bit)
    BY EmptySeq
  <2>3. mem \in Store!Memory
    BY DEF Store!Memory
  <2> QED
    BY <1>2, <2>1, <2>2, <2>3 DEF ChipInit, Chip
<1>6. ChipInv
  <2>1. "off" # "cmd" /\ "off" # "read"
    OBVIOUS
  <2> QED
    BY <1>1, <1>3, <1>5, <2>1, Zenon DEF ChipInv
<1>7. Resting
  BY <1>1, <1>3, Zenon DEF Resting, PinsLow
<1>8. Types /\ err \in Store!Errors
  <2>1. polls \in 0 .. MaxPolls
    BY <1>1, WidthAssumption, SMT
  <2>2. /\ answer.op \in Ops \cup {NoOp} /\ answer.ret \in Store!Errors
        /\ answer.data \in Words \cup {None}
    BY <1>1 DEF NoAnswer, Store!Errors
  <2>3. status \in Store!Statuses /\ err \in Store!Errors
    BY <1>1 DEF Store!Statuses, Store!Errors
  <2> QED
    BY <1>1, <2>1, <2>2, <2>3, Zenon DEF Types
<1>9. Store!Init
  <2>1. chip.mem \in Store!Memory
    BY <1>3 DEF Store!Memory
  <2> QED
    BY <1>1, <1>3, <1>4, <2>1, Zenon DEF Store!Init, Store!NoAnswer, NoAnswer
<1> QED
  BY <1>6, <1>7, <1>8, <1>9, Zenon DEF Inv, Place

(* and after every step, which is a step of the store or none at all.      *)
LEMMA StepInv ==
    ASSUME Inv, [Next]_vars
    PROVE  Inv' /\ [Store!Next]_(Store!vars)
<1>1. CASE PinStep
  BY <1>1, PinStepInv, Zenon DEF Store!Next
<1>2. CASE StartPolling
  BY <1>2, StartPollingInv, Zenon
<1>3. CASE Poll
  BY <1>3, PollInv, Zenon
<1>4. CASE Return
  BY <1>4, ReturnInv, Zenon DEF Store!Next
<1>5. CASE ChipDone
  BY <1>5, ChipDoneInv, Zenon DEF Store!Next
<1>6. ASSUME NEW o \in Ops, Call(o)
      PROVE  Inv' /\ [Store!Next]_(Store!vars)
  BY <1>6, CallInv, Zenon DEF Store!Next
<1>7. CASE UNCHANGED vars
  <2>1. /\ gpio' = gpio /\ status' = status /\ op' = op /\ part' = part
        /\ at' = at /\ phase' = phase /\ polls' = polls /\ read' = read
        /\ err' = err /\ answer' = answer /\ chip' = chip /\ clean' = clean
        /\ taken' = taken
    BY <1>7, Zenon DEF vars, driver
  <2>2. UNCHANGED Store!vars
    BY <2>1, Zenon DEF Store!vars
  <2>3. Inv'
    BY <2>1 DEF Inv, Types, ChipInv, Place, Resting, Refused, Lowering,
       Commanding, Polling, Ending, Waiting, PinsLow, OnTheWire, Sending, Heard,
       Reading, Shown, ReadOut, Finishing, EarlyReturn, Store!Issued,
       Store!Programs
  <2> QED
    BY <2>2, <2>3
<1> QED
  BY <1>1, <1>2, <1>3, <1>4, <1>5, <1>6, <1>7, Zenon DEF Next, Driver

(* The types of the driver and of the chip follow from where the driver is. *)
LEMMA InvTypes ==
    ASSUME Inv
    PROVE  TypeOK
<1>1. Types /\ ChipInv /\ err \in Store!Errors /\ Place
  BY Zenon DEF Inv
<1>2. DataBits \in Nat /\ DataBits >= 1
  BY WidthAssumption
<1>3. << >> \in Seq(Pins) /\ Len(<< >>) = 0 /\ << >> \in Seq(Bit)
  BY EmptySeq
<1>4. /\ part \in Seq(Pins) /\ at \in 0 .. Len(part)
      /\ phase \in {"send", "poll", "end"}
      /\ read \in Seq(Bit) /\ Len(read) <= DataBits
  <2>1. CASE Resting
    BY <1>2, <1>3, <2>1 DEF Resting
  <2>2. CASE Refused
    BY <1>2, <1>3, <2>2 DEF Refused
  <2>3. CASE Lowering
    BY <1>2, <1>3, <2>3, IdlePlaces DEF Lowering
  <2>4. CASE Commanding
    <3>1. OnTheWire /\ Store!OnWire(op) /\ op \in Store!Operation
          /\ part = Program(op) /\ phase = "send"
      BY <2>4 DEF Commanding, OnTheWire, Store!Issued
    <3>2. part \in Seq(Pins) /\ Len(part) = Start(op) + 8 /\ Start(op) \in Nat
      BY <3>1, ProgramPlaces
    <3>3. Width(op) \in Nat
      BY <3>1, CommandShape
    <3>4. ASSUME NEW q \in 0 .. Width(op) - 1, NEW r \in 0 .. 3, Sending(q, r)
          PROVE  at \in 0 .. Len(part) /\ read = << >>
      <4>1. at = 4 * q + r /\ read = << >>
        BY <3>4 DEF Sending
      <4>2. at \in 0 .. Len(part)
        BY <1>2, <3>2, <3>3, <4>1, SMT DEF Start
      <4> QED
        BY <4>1, <4>2
    <3>5. ASSUME op.cmd = "READ", NEW i \in 0 .. DataBits - 1, NEW r \in 0 .. 3,
                 Reading(i, r)
          PROVE  at \in 0 .. Len(part) /\ read \in Seq(Bit) /\ Len(read) <= DataBits
      <4>1. at = 4 * Width(op) + (4 * i + r) /\ read \in Seq(Bit) /\ Len(read) = i
        BY <3>5 DEF Reading
      <4>2. at \in 0 .. Len(part)
        BY <1>2, <3>2, <3>3, <3>5, <4>1, SMT DEF Start
      <4>3. i <= DataBits
        BY <1>2, SMT
      <4> QED
        BY <4>1, <4>2, <4>3
    <3>6. ASSUME NEW j \in 0 .. 8, Finishing(j)
          PROVE  /\ at \in 0 .. Len(part)
                 /\ read = << >> \/ (read \in Seq(Bit) /\ Len(read) = DataBits)
      <4>1. /\ at = Start(op) + j
            /\ read = << >> \/ (read \in Seq(Bit) /\ Len(read) = DataBits)
        BY <3>6 DEF Finishing
      <4>2. at \in 0 .. Len(part)
        BY <3>2, <4>1, SMT
      <4> QED
        BY <4>1, <4>2
    <3>7. CASE \E q \in 0 .. Width(op) - 1, r \in 0 .. 3 : Sending(q, r)
      <4>1. at \in 0 .. Len(part) /\ read = << >>
        BY <3>4, <3>7, Zenon
      <4> QED
        BY <1>2, <1>3, <3>1, <3>2, <4>1
    <3>8. CASE op.cmd = "READ"
               /\ \E i \in 0 .. DataBits - 1, r \in 0 .. 3 : Reading(i, r)
      <4>1. at \in 0 .. Len(part) /\ read \in Seq(Bit) /\ Len(read) <= DataBits
        BY <3>5, <3>8, Zenon
      <4> QED
        BY <3>1, <3>2, <4>1
    <3>9. CASE \E j \in 0 .. 8 : Finishing(j)
      <4>1. /\ at \in 0 .. Len(part)
            /\ read = << >> \/ (read \in Seq(Bit) /\ Len(read) = DataBits)
        BY <3>6, <3>9, Zenon
      <4>2. Len(read) <= DataBits /\ read \in Seq(Bit)
        <5>1. CASE read = << >>
          BY <1>2, <1>3, <5>1
        <5>2. CASE read \in Seq(Bit) /\ Len(read) = DataBits
          BY <1>2, <5>2
        <5> QED
          BY <4>1, <5>1, <5>2
      <4> QED
        BY <3>1, <3>2, <4>1, <4>2
    <3> QED
      BY <2>4, <3>7, <3>8, <3>9, Zenon DEF Commanding
  <2>5. CASE Polling
    <3>1. phase = "poll"
      BY <2>5 DEF Polling
    <3>2. <<0>> \in Seq(Bit) /\ <<1>> \in Seq(Bit)
      BY DEF Bit
    <3>3. Len(<<0>>) = 1 /\ Len(<<1>>) = 1
      OBVIOUS
    <3>4. read = << >> \/ read = <<0>> \/ read = <<1>>
      BY <2>5, Zenon DEF Polling
    <3>5. read \in Seq(Bit) /\ Len(read) <= DataBits
      <4>1. 0 <= DataBits /\ 1 <= DataBits
        BY <1>2, SMT
      <4> QED
        BY <1>3, <3>2, <3>3, <3>4, <4>1, Zenon
    <3>6. CASE part = <<SetDO(0)>> /\ at \in 0 .. 1
      <4>1. <<"DO", 0>> \in Pins
        BY DEF Pins, Bit
      <4>2. part \in Seq(Pins) /\ Len(part) = 1
        BY <3>6, <4>1 DEF SetDO
      <4> QED
        BY <3>1, <3>5, <3>6, <4>2
    <3>7. CASE part = ReadBit /\ at \in 0 .. 4
      <4>1. <<"SK", 0>> \in Pins /\ <<"CS", 1>> \in Pins
            /\ <<"SK", 1>> \in Pins /\ <<"DI", 0>> \in Pins
        BY DEF Pins, Bit
      <4>2. part \in Seq(Pins) /\ Len(part) = 4
        BY <3>7, <4>1 DEF ReadBit, SetSK, SetCS, Sample
      <4> QED
        BY <3>1, <3>5, <3>7, <4>2
    <3> QED
      BY <2>5, <3>6, <3>7, Zenon DEF Polling
  <2>6. CASE Ending
    BY <1>2, <1>3, <2>6, FinishPlaces DEF Ending
  <2> QED
    BY <1>1, <2>1, <2>2, <2>3, <2>4, <2>5, <2>6, Zenon DEF Place
<1>5. /\ chip.mem \in [Addrs -> Words]
      /\ chip.pending \in [Addrs -> Words] \cup {None}
      /\ chip.mode \in {"off", "cmd", "read", "status"}
      /\ <<chip.sk, chip.cs, chip.d>> \in Bit \X Bit \X Bit
  <2>1. /\ chip.mem \in Store!Memory /\ chip.pending \in Store!Memory \cup {None}
        /\ chip.mode \in {"off", "cmd", "read", "status"}
        /\ chip.sk \in Bit /\ chip.cs \in Bit /\ chip.d \in Bit
    BY <1>1 DEF ChipInv, Chip
  <2> QED
    BY <2>1 DEF Store!Memory
<1> QED
  BY <1>1, <1>4, <1>5, Zenon DEF Types, TypeOK

(* Between two functions the pins are low, whatever the status. *)
LEMMA InvIdle ==
    ASSUME Inv
    PROVE  PinsIdle
<1>1. NoOp \notin Store!Operation
  BY DriverAssumption
<1>2. ASSUME op = NoOp PROVE PinsLow
  <2>1. ~Refused /\ ~Lowering /\ ~Commanding /\ ~Polling /\ ~Ending
    BY <1>1, <1>2, Zenon DEF Refused, Lowering, Commanding, OnTheWire, Polling,
                             Ending, Waiting
  <2> QED
    BY <2>1, Zenon DEF Inv, Place, Resting
<1> QED
  BY <1>2, Zenon DEF PinsIdle, PinsLow

----------------------------------------------------------------------------
(* The inductive invariant: at every moment the driver is at one of the    *)
(* places above, with the chip as it says there.                           *)
THEOREM InvCorrect == Spec => []Inv
<1>1. Init => Inv
  BY InitInv
<1>2. Inv /\ [Next]_vars => Inv'
  BY StepInv
<1> QED
  BY <1>1, <1>2, PTL DEF Spec

(* Type correctness of the driver and the chip. *)
THEOREM TypeCorrect == Spec => []TypeOK
<1>1. Inv => TypeOK
  BY InvTypes
<1> QED
  BY <1>1, InvCorrect, PTL

(* eepromDrvFinishCommand and the idle pins of Init, Open and Shutdown      *)
(* leave the bus as the next command needs it.                              *)
THEOREM IdleCorrect == Spec => []PinsIdle
<1>1. Inv => PinsIdle
  BY InvIdle
<1> QED
  BY <1>1, InvCorrect, PTL

(* The driver at the pins of the chip is a word store: for every width of  *)
(* the addresses and of the words and every limit on the polls, and with   *)
(* the chip ending its programming between any two pin accesses.           *)
THEOREM Refinement == Spec => Implements
<1>1. Init => Store!Init
  BY InitInv
<1>2. Inv /\ [Next]_vars => [Store!Next]_(Store!vars)
  BY StepInv
<1> QED
  BY <1>1, <1>2, InvCorrect, PTL DEF Spec, Implements, Store!Spec

----------------------------------------------------------------------------
(* What the store promises holds of the driver and the chip.               *)
Promises == INSTANCE EepromStoreProofs WITH
    mem <- chip.mem, wen <- chip.wen, pending <- chip.pending,
    latched <- chip.latched

(* The two instances of the store have the same steps, *)
LEMMA PromisesSpec == Store!Spec => Promises!Spec
<1>1. Store!Init => Promises!Init
  BY Zenon DEF Store!Init, Promises!Init, Store!Memory, Promises!Memory,
     Store!NoAnswer, Promises!NoAnswer
<1>2. [Store!Next]_(Store!vars) => [Promises!Next]_(Promises!vars)
  <2>1. Store!vars = Promises!vars
    BY Zenon DEF Store!vars, Promises!vars
  <2>2. ASSUME UNCHANGED Store!vars PROVE UNCHANGED Promises!vars
    BY <2>2, Zenon DEF Store!vars, Promises!vars
  <2>3. Store!Take => Promises!Take
    BY Zenon DEF Store!Take, Promises!Take, Store!Issued, Promises!Issued,
       Store!OnWire, Promises!OnWire, Store!Programs, Promises!Programs,
       Store!NewContents, Promises!NewContents
  <2>4. Store!Settle => Promises!Settle
    BY Zenon DEF Store!Settle, Promises!Settle
  <2>5. ASSUME NEW o \in Ops, Store!Call(o) PROVE Promises!Call(o)
    BY <2>5, Zenon DEF Store!Call, Promises!Call, Store!NoAnswer, Promises!NoAnswer
  <2>6. ASSUME NEW r, NEW d, NEW s, Store!Return(r, d, s) PROVE Promises!Return(r, d, s)
    BY <2>6, Zenon DEF Store!Return, Promises!Return, Store!CanReturn,
       Promises!CanReturn, Store!Issued, Promises!Issued, Store!OnWire,
       Promises!OnWire, Store!Programs, Promises!Programs
  <2>7. Store!Errors = Promises!Errors /\ Store!Statuses = Promises!Statuses
    BY Zenon DEF Store!Errors, Promises!Errors, Store!Statuses, Promises!Statuses
  <2> QED
    BY <2>2, <2>3, <2>4, <2>5, <2>6, <2>7, Zenon DEF Store!Next, Promises!Next
<1> QED
  BY <1>1, <1>2, PTL DEF Store!Spec, Promises!Spec

(* and its constants are as its proofs assume. *)
LEMMA PromisesAssumption ==
    /\ ErasedWord \in Words
    /\ Ops \subseteq Promises!Operation
    /\ NoOp \notin Promises!Operation
    /\ None \notin Words
    /\ None \notin Promises!Memory
<1>1. Promises!Operation = Store!Operation /\ Promises!Memory = Store!Memory
  BY Zenon DEF Promises!Operation, Store!Operation, Promises!Memory, Store!Memory,
     Promises!Commands, Store!Commands, Promises!Controls, Store!Controls
<1> QED
  BY <1>1, Erased, DriverAssumption, Zenon

(* At the pins too: eepromDrvReadWord returns the word the chip holds, bit *)
(* for bit, when the chip was not busy at its start.                       *)
THEOREM DriverReads == Spec => []Store!ReadReturnsStored
<1>1. Promises!Spec => []Promises!ReadReturnsStored
  BY PromisesAssumption, Promises!ReadCorrect, PTL
<1>2. Promises!ReadReturnsStored => Store!ReadReturnsStored
  BY DEF Promises!ReadReturnsStored, Store!ReadReturnsStored
<1> QED
  BY <1>1, <1>2, Refinement, PromisesSpec, PTL DEF Implements

(* A word that eepromDrvWriteWord has acknowledged is in the chip, under   *)
(* the same condition and with writing enabled.                            *)
THEOREM DriverWrites == Spec => []Store!AckedWriteStored
<1>1. Promises!Spec => []Promises!AckedWriteStored
  BY PromisesAssumption, Promises!WriteCorrect, PTL
<1>2. Promises!AckedWriteStored => Store!AckedWriteStored
  BY DEF Promises!AckedWriteStored, Store!AckedWriteStored
<1> QED
  BY <1>1, <1>2, Refinement, PromisesSpec, PTL DEF Implements

(* An acknowledged ENABLE or DISABLE has set the latch of the chip.        *)
THEOREM DriverControls == Spec => []Store!AckedControlSet
<1>1. Promises!Spec => []Promises!AckedControlSet
  BY PromisesAssumption, Promises!ControlCorrect, PTL
<1>2. Promises!AckedControlSet => Store!AckedControlSet
  BY DEF Promises!AckedControlSet, Store!AckedControlSet
<1> QED
  BY <1>1, <1>2, Refinement, PromisesSpec, PTL DEF Implements
===========================================================================
