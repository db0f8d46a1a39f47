------------------------------ MODULE MCBspEE ------------------------------
(* BspEE with a data[] of five words, images with every kind of size and   *)
(* version, and every method of the three attributes, alone and with what  *)
(* it falls into.  A size that is too large comes with an erased chip.      *)
EXTENDS BspEE, SequencesExt

MCWords == {0, 1, 2, 10, 12}
MCAddrs == 0..4
Image(w1, w2, w3, w4, w5) ==
    [a \in MCAddrs |-> <<w1, w2, w3, w4, w5>>[a + 1]]
MCImages == {Image(0, 1, 10, 1, 0), Image(0, 0, 10, 0, 0),
             Image(0, 0, 2, 0, 0), Image(0, 0, 1, 0, 0)}

(* A stand-in for the CRC: the parity of the sum. *)
MCCrc(s) == <<0, FoldSeq(+, 0, s) % 2>>

Req(w, a, m, ad, d, ok) == [who |-> w, attr |-> a, method |-> m, addr |-> ad,
                            data |-> d, sizeOk |-> ok]
MCRequests ==
    {ReadBoardConfig}
    \cup {Req(w, "access", "WRITE", 3, d, TRUE) :
            w \in {"ioctl", "internal"}, d \in {0, 1}}
    \cup {Req(w, "access", "READ", 3, 1, TRUE) : w \in {"ioctl", "internal"}}
    \cup {Req(w, "access", "WRITE", 2, 10, TRUE) : w \in {"ioctl", "internal"}}
    \cup {Req(w, "control", "WRITE", 0, d, TRUE) :
            w \in {"ioctl", "internal"}, d \in {1, 2, 10}}
    \cup {Req(w, "control", "WRITE", 0, 1, FALSE) : w \in {"ioctl", "internal"}}
    \cup {Req(w, "control", m, 0, 0, FALSE) :
            w \in {"ioctl", "internal"}, m \in {"INIT", "SHUTDOWN"}}
    \cup {Req(w, "bc", "READ", 0, 0, TRUE) : w \in {"ioctl", "internal"}}
============================================================================
