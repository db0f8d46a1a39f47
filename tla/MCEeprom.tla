----------------------------- MODULE MCEeprom -----------------------------
(* Eeprom with two address bits and two data bits: the least that tells    *)
(* ERAL, EWEN and EWDS apart and shows the order of the bits.  It extends  *)
(* the proofs, so that their invariant Inv can be checked on it as well.   *)
EXTENDS EepromProofs

O(cmd, ndx, addr, data) ==
    [cmd |-> cmd, ndx |-> ndx, addr |-> addr, data |-> data]
Plain(cmd) == O(cmd, 0, <<0, 0>>, <<0, 0>>)

MCOps ==
    {Plain(cmd) : cmd \in {"Init", "Open", "Shutdown", "ERASE", "ENABLE",
                           "DISABLE", "BADCONTROL"}}
    \cup {O("READ", 0, a, <<0, 0>>) : a \in {<<0, 1>>, <<1, 0>>}}
    \cup {O("WRITE", 0, a, d) : a \in {<<0, 1>>, <<1, 0>>},
                                d \in {<<0, 1>>, <<1, 0>>}}
    \cup {O("READ", 1, <<0, 0>>, <<0, 0>>)}

(* The board comes up with an erased chip. *)
ErasedInit == Init /\ chip = ChipInit([a \in Addrs |-> ErasedWord])
MCSpec == ErasedInit /\ [][Next]_vars
MCFairSpec == MCSpec /\ WF_vars(Driver)
===========================================================================
