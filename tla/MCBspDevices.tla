---------------------------- MODULE MCBspDevices ----------------------------
(* One board of each family, and power-on values of the registers with and *)
(* without the bits that the masks leave alone.                            *)
EXTENDS BspPPC

B(kind, variant, rev, mov, a3x, iop) ==
    [kind |-> kind, variant |-> variant, boardRevision |-> rev,
     movPassiveReset |-> mov, a3x |-> a3x, iopClockMultiplier |-> iop]
MCBoards == {B("HOLLYWOOD", "CAT", 3, FALSE, FALSE, 1),
             B("BOLLYWOOD", "EV", 1, FALSE, FALSE, 1),
             B("LATTE", "CAFE", 4, FALSE, TRUE, 2),
             B("ESPRESSO", "ID", 3, TRUE, FALSE, 1),
             B("LATTE", "ID", 3, TRUE, TRUE, 1),
             B("LATTE", "EV_Y", 2, FALSE, FALSE, 0)}
MCMixes == {{"DI", "SI"}, {"DI", "RESET"}, {"SI", "SDIO", "RESET"}, {"CCRH"},
            {"PPC", "SYS"}}
MCResetValues == {{}, {1, 2, 4}}
============================================================================
