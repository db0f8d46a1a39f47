----------------------------- MODULE MCBspBoot -----------------------------
(* BspBoot with every revision the decoders know and one they do not, the  *)
(* sizes at which bcGet changes its mind, and one board type, console type *)
(* and PLL speed of each kind.                                             *)
EXTENDS BspBoot

MCChipRevs  == {0, 16, 17, 32, 33, 153}             \* 0x99 is unknown
MCLatteRevs == {16, 24, 33, 48, 64, 80, 96}         \* 0x60 is OTHER
MCSizes     == {0, 1, 2, 6, 8, 32, 34, 36, 40, 72, 73, 74}
MCVersions  == {0, 2, 3, 4}
MCBoardTypes   == {CF, CT, EVb, IDb, IHb, 22616}
MCConsoleTypes == {1, 3, 4, 6}
MCPllSpeeds    == {0, 240, 248}
===========================================================================
