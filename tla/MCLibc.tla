------------------------------ MODULE MCLibc ------------------------------
(* The parts of libc and crc32 share no state: each behaviour exercises    *)
(* one of them.  Buffers of 4 bytes, sources longer than that, a timer     *)
(* that wraps at 8.                                                        *)
EXTENDS Delay, Crc32, CString

VARIABLE part

MCChars == {1, 2}
MCSources == {<<>>, <<1>>, <<2>>, <<1, 2>>, <<2, 2>>, <<1, 1, 2>>, <<2, 1, 1, 2>>}
MCPieces == {<<>>, <<{}>>, <<{0}>>, <<{0, 3, 7}>>, <<0 .. 7, {4}>>,
             <<{1, 2}, {}, {0, 6, 7}>>}
MCDelays == 0 .. 12

vars == <<delayVars, crcVars, strVars, part>>

Init == /\ part \in {"delay", "crc", "string"}
        /\ DelayInit /\ (part # "delay" => timer = 0)
        /\ CrcInit /\ StrInit

Next ==
    \/ part = "delay" /\ DelayNext /\ UNCHANGED <<crcVars, strVars, part>>
    \/ part = "crc" /\ CrcNext /\ UNCHANGED <<delayVars, strVars, part>>
    \/ part = "string" /\ StrNext /\ UNCHANGED <<delayVars, crcVars, part>>

Spec == Init /\ [][Next]_vars /\ DelayFairness
============================================================================
