------------------------------- MODULE Crc32 -------------------------------
(***************************************************************************)
(* libraries/crc32/crc32.c: a CRC over one static 32-bit state, one step   *)
(* for each byte of a call.  A word is the set of its bits that are 1 (0   *)
(* is the least significant), a byte a subset of 0 .. 7, and exclusive or  *)
(* the symmetric difference.                                               *)
(***************************************************************************)
EXTENDS Integers, Sequences, FiniteSets

CONSTANTS Pieces,    \* the byte sequences that are fed
          MaxPieces  \* bound: calls of crc32Input between two resets

ASSUME CrcAssumption == /\ Pieces \subseteq Seq(SUBSET (0 .. 7))
                        /\ MaxPieces \in Nat

VARIABLES s_crc32Value,
          pos,          \* the bytes consumed by the call in progress, or Idle
          fed,          \* the pieces since the last reset
          returned      \* the result of the last crc32Input

crcVars == <<s_crc32Value, pos, fed, returned>>

Idle == -1
CrcInit == s_crc32Value = {} /\ pos = Idle /\ fed = <<>> /\ returned = {}

Word32 == 0 .. 31
Xor(a, b) == (a \ b) \cup (b \ a)
Complement(a) == Word32 \ a
ShiftRight(a, n) == {b \in Word32 : b + n \in a}

Constant == {31, 30, 29, 27, 26, 24, 23, 21, 20, 19, 15, 9, 8, 5}  \* 0xedb88320

(* The inner loop: eight rounds, from the low byte of state ^ byte. *)
Round(a) == IF 0 \in a THEN Xor(ShiftRight(a, 1), Constant) ELSE ShiftRight(a, 1)
Rounds(a) == Round(Round(Round(Round(Round(Round(Round(Round(a))))))))

NextState(state, byte) ==
    Xor(Rounds(Xor(state, byte) \cap (0 .. 7)), ShiftRight(state, 8))

crc32Reset ==
    /\ pos = Idle
    /\ s_crc32Value' = {} /\ fed' = <<>>
    /\ UNCHANGED <<pos, returned>>

crc32InputContinued(piece) ==   \* mutant: the state is complemented only once
    /\ pos = Idle /\ Len(fed) < MaxPieces
    /\ s_crc32Value' = IF fed = <<>> THEN Complement(s_crc32Value) ELSE s_crc32Value
    /\ pos' = 0 /\ fed' = Append(fed, piece)
    /\ UNCHANGED returned
crc32Input(piece) ==
    /\ pos = Idle /\ Len(fed) < MaxPieces
    /\ s_crc32Value' = Complement(s_crc32Value)
    /\ pos' = 0 /\ fed' = Append(fed, piece)
    /\ UNCHANGED returned

InputByte ==
    /\ pos # Idle /\ pos < Len(fed[Len(fed)])
    /\ s_crc32Value' = NextState(s_crc32Value, fed[Len(fed)][pos + 1])
    /\ pos' = pos + 1
    /\ UNCHANGED <<fed, returned>>

InputReturn ==
    /\ pos # Idle /\ pos = Len(fed[Len(fed)])
    /\ returned' = Complement(s_crc32Value)
    /\ pos' = Idle
    /\ UNCHANGED <<s_crc32Value, fed>>

CrcNext == \/ crc32Reset \/ InputByte \/ InputReturn
           \/ \E p \in Pieces : crc32Input(p)
CrcSpec == CrcInit /\ [][CrcNext]_crcVars

----------------------------------------------------------------------------
(* The reference: the remainder of a polynomial division.  A polynomial is *)
(* the set of its exponents.  The message is the polynomial whose highest  *)
(* coefficient is bit 0 of its first byte; it is multiplied by x^32, the   *)
(* 32 highest coefficients are complemented, and the remainder modulo P is *)
(* complemented and reflected.                                             *)
P == {32, 26, 23, 22, 16, 12, 11, 10, 8, 7, 5, 4, 2, 1, 0}

(* x * r modulo P, for an r below x^32 *)
TimesX(r) ==
    LET s == {e \in 1 .. 32 : e - 1 \in r}
    IN  IF 32 \in s THEN Xor(s, P) ELSE s

PowerModP[k \in Nat] == IF k = 0 THEN {0} ELSE TimesX(PowerModP[k - 1])

(* Coefficients are added modulo 2. *)
Modulo(poly) ==
    {b \in Word32 : Cardinality({e \in poly : b \in PowerModP[e]}) % 2 = 1}

BitOf(m, n) == n % 8 \in m[n \div 8 + 1]   \* in the order they are fed
Dividend(m, n) ==                          \* of the first n bits of m
    Xor({e \in 32 .. n + 31 : BitOf(m, n + 31 - e)}, n .. n + 31)

Reflect(a) == {b \in Word32 : 31 - b \in a}
CrcOf(m) == Complement(Reflect(Modulo(Dividend(m, 8 * Len(m)))))

(* One crc32Input after a reset, whatever was fed before it, returns the   *)
(* CRC-32 of its bytes; fed in two pieces, the result is never that of the *)
(* whole, since the second call complements a state that the first one     *)
(* left uncomplemented (crc32.c:11, 30).                                   *)
CrcOfPieces ==
    pos = Idle => /\ Len(fed) = 1 => returned = CrcOf(fed[1])
                  /\ Len(fed) = 2 => returned # CrcOf(fed[1] \o fed[2])
============================================================================
