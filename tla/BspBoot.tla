------------------------------ MODULE BspBoot ------------------------------
(***************************************************************************)
(* How BSP finds out which board it runs on: bspInitEssential and          *)
(* InitASICVersion (bsp_main.c), the decoding of the revision registers    *)
(* and the version cache (bsp_hwrev.c), the board configuration in the     *)
(* EEPROM (bc.c), and what is answered from them afterwards: hardware      *)
(* version, console mask and type, system clock.                           *)
(*                                                                         *)
(* Versions are the numbers of bsp_hwrevs.h; `&' with a mask of low or     *)
(* high bits is % and -, and `|' of disjoint bits is +.  The contents of   *)
(* the board configuration are chosen when bcGet reads them.               *)
(***************************************************************************)
EXTENDS Integers

CONSTANTS ChipRevs,      \* values of HW_CHIPREVID & 0xFF
          LatteRevs,     \* values of LT_CHIPREVID & 0xFF on a Latte
          Sizes,         \* values of the size word at 0x1E
          Versions, BoardTypes, ConsoleTypes, PllSpeeds   \* the words read

(* The revisions are bytes, the words of the EEPROM are u16. *)
U8  == 0 .. 255
U16 == 0 .. 65535

ASSUME BootAssumption ==
    /\ ChipRevs \subseteq U8 /\ LatteRevs \subseteq U8
    /\ Sizes \subseteq U16 /\ Versions \subseteq U16
    /\ BoardTypes \subseteq U16 /\ ConsoleTypes \subseteq U16
    /\ PllSpeeds \subseteq U16

VARIABLES
    pc,                  \* where bspInitEssential is
    chipRev,             \* HW_CHIPREVID, low byte
    latteRev,            \* LT_CHIPREVID, low byte, or -1 when not 0xCAFE....
    gpioRegistered,      \* GPIO is in the entity list
    bspHardwareVersion,  \* the version cache, 0 when unknown
    bspBoardConfig,      \* the copy of the board configuration
    crcLength,           \* bcGet: the number of bytes under the CRC
    bcRead,              \* history: what became of bspReadBoardConfig
    error                \* the OR of the errors of bspInitEssential

vars == <<pc, chipRev, latteRev, gpioRegistered, bspHardwareVersion,
          bspBoardConfig, crcLength, bcRead, error>>
hardware == <<chipRev, latteRev>>

(* bsp_hwrevs.h: a version is the chip in the top byte, its revision in    *)
(* the next one and the board in the low half.                             *)
Ver(chip, rev, board) == chip * 16777216 + rev * 65536 + board

UNKNOWN    == 0
ENG_1      == 1                 \* 0x00000001
ENG_2      == Ver(16, 0, 1)     \* 0x10000001
PROD_WII   == Ver(16, 16, 1)    \* 0x10100001
CORTADO    == Ver(16, 16, 8)    \* 0x10100008
ESPRESSO   == Ver(16, 16, 12)   \* 0x1010000C
BOLLYWOOD  == Ver(32, 0, 1)     \* 0x20000001
BOLLY_PROD == Ver(32, 16, 1)    \* 0x20100001
EV   == 16                      \* 0x10
EV_Y == 17                      \* 0x11
CAT  == 32                      \* 0x20
ID   == 33                      \* 0x21
CAFE == 40                      \* 0x28
IH   == 41                      \* 0x29

(* Board types are two letters: "CF", "CT", "EV", "ID", "IH". *)
CF  == 17222                    \* 0x4346
CT  == 17236                    \* 0x4354
EVb == 17750                    \* 0x4556
IDb == 18756                    \* 0x4944
IHb == 18760                    \* 0x4948

Low16(v)  == v % 65536                             \* v & 0xFFFF
High16(v) == v - Low16(v)                          \* v & 0xFFFF0000
IS_LATTE(v)         == (v \div 16777216) % 16 # 0  \* v & 0x0F000000
IS_HOLLYWOOD(v)     == v \div 16777216 = 16
IS_HOLLYWOOD_ES1(v) == v \div 16777216 = 0

ZeroConfig == [size |-> 0, version |-> 0, boardType |-> 0, sysPllSpeed |-> 0,
               consoleType |-> 0]

----------------------------------------------------------------------------
(* determineWoodBasedHardwareVersion; UNKNOWN comes with an error.  With    *)
(* fullCheck it asks BSPCheckCortado and then bspPPCGetPVR, whose result    *)
(* it ignores: the PVR is Espresso's or not, also when it was not read.     *)
Cortado == {"error", "no", "yes", "espresso"}
Wood(fullCheck, cortado) ==
    CASE chipRev = 0 -> ENG_1
      [] chipRev = 16 -> ENG_2               \* 0x10
      [] chipRev = 17 ->                     \* 0x11
           IF ~fullCheck \/ cortado = "error" THEN CORTADO
           ELSE IF cortado = "no" THEN PROD_WII
           ELSE IF cortado = "espresso" THEN ESPRESSO ELSE CORTADO
      [] chipRev = 32 -> BOLLYWOOD           \* 0x20
      [] chipRev = 33 -> BOLLY_PROD          \* 0x21
      [] OTHER -> UNKNOWN

(* determineLatteBasedHardwareVersion, on a version whose low bits it keeps *)
IsLatteChip == latteRev # -1
LatteUnmasked(v) == v + Ver(38, 16, 0)   \* mutant: the old revision is kept
LatteRevision ==
    CASE latteRev = 16 -> Ver(33, 16, 0)   \* 0x10: 0x21100000
      [] latteRev = 24 -> Ver(33, 32, 0)   \* 0x18: 0x21200000
      [] latteRev = 33 -> Ver(34, 16, 0)   \* 0x21: 0x22100000
      [] latteRev = 48 -> Ver(35, 16, 0)   \* 0x30: 0x23100000
      [] latteRev = 64 -> Ver(36, 16, 0)   \* 0x40: 0x24100000
      [] latteRev = 80 -> Ver(37, 16, 0)   \* 0x50: 0x25100000
      [] OTHER -> Ver(38, 16, 0)           \*       0x26100000
Latte(v) == (v % 1048576) + LatteRevision  \* v & 0x000FFFFF

(* The variant of a board whose configuration could be read; none for a    *)
(* board type the switch does not know.                                    *)
Variant(boardType) ==
    CASE boardType = CF -> CAFE [] boardType = CT -> CAT
      [] boardType = EVb -> EV  [] boardType = IDb -> ID
      [] boardType = IHb -> IH  [] OTHER -> 0

Init ==
    /\ pc = "ASIC"
    /\ chipRev \in ChipRevs
    /\ latteRev \in LatteRevs \cup {-1}
    /\ gpioRegistered = FALSE
    /\ bspHardwareVersion = UNKNOWN
    /\ bspBoardConfig = ZeroConfig
    /\ crcLength = 0
    /\ bcRead = "unread"
    /\ error = {}

----------------------------------------------------------------------------
(* InitASICVersion(&bspHardwareVersion): a Latte is taken for an EV_Y      *)
(* board until its configuration is read.                                  *)
InitASICVersion ==
    /\ pc = "ASIC"
    /\ LET v == Wood(FALSE, "error")
       IN  /\ bspHardwareVersion' =
                IF v = BOLLY_PROD /\ IsLatteChip THEN High16(Latte(v)) + EV_Y
                                                 ELSE v
           /\ error' = IF v = UNKNOWN THEN error \cup {"UNKNOWN_HARDWARE_VERSION"}
                                      ELSE error
    /\ pc' = "GPIO"
    /\ UNCHANGED <<hardware, gpioRegistered, bspBoardConfig, crcLength, bcRead>>

(* bspGPIOInstall asks for the version, which it finds in the cache (with  *)
(* an unknown chip it looks again, and fails again), and registers the     *)
(* entity, which fails when the list is full.                              *)
RegisterGPIO ==
    \E rval \in IF IS_LATTE(bspHardwareVersion) THEN {"OK", "ENTITY_LIST_FULL"}
                                                ELSE {"UNKNOWN_HARDWARE_VERSION"} :
        /\ error' = error \cup ({rval} \ {"OK"})
        /\ gpioRegistered' = (rval = "OK")

(* bspInitEssential clears the cache after bspGPIOInstall. *)
GPIOInstallKept ==   \* mutant: the guess of InitASICVersion stays in the cache
    /\ pc = "GPIO"
    /\ RegisterGPIO
    /\ pc' = "Wood"
    /\ UNCHANGED <<hardware, bspHardwareVersion, bspBoardConfig, crcLength, bcRead>>
GPIOInstall ==
    /\ pc = "GPIO"
    /\ RegisterGPIO
    /\ bspHardwareVersion' = UNKNOWN
    /\ pc' = "Wood"
    /\ UNCHANGED <<hardware, bspBoardConfig, crcLength, bcRead>>

(* bspMethodGetHardwareVersion(&bspHardwareVersion): a version in the      *)
(* cache is the answer; otherwise the decoded version is written through   *)
(* the pointer into the cache itself.                                      *)
FullWood ==
    /\ pc = "Wood"
    /\ IF bspHardwareVersion # UNKNOWN
         THEN pc' = "Done" /\ UNCHANGED <<bspHardwareVersion, error>>
         ELSE \E cortado \in Cortado :
                LET v == Wood(TRUE, cortado)
                    onLatte == v = BOLLY_PROD /\ IsLatteChip
                IN  /\ bspHardwareVersion' = IF onLatte THEN High16(Latte(v)) ELSE v
                    /\ error' = error \cup IF v = UNKNOWN
                                   THEN {"UNKNOWN_HARDWARE_VERSION"} ELSE {}
                    /\ pc' = IF onLatte THEN "BcInit" ELSE "Done"
    /\ UNCHANGED <<hardware, gpioRegistered, bspBoardConfig, crcLength, bcRead>>

(* bspReadBoardConfig failed: the copy is cleared, the board is an EV_Y. *)
NoBoardConfigKept ==   \* mutant: the memset of the copy is forgotten
    /\ bspHardwareVersion' = bspHardwareVersion + EV_Y
    /\ bcRead' = "failed"
    /\ pc' = "Done"
    /\ UNCHANGED <<hardware, gpioRegistered, bspBoardConfig, crcLength, error>>
NoBoardConfig ==
    /\ bspBoardConfig' = ZeroConfig
    /\ bspHardwareVersion' = bspHardwareVersion + EV_Y
    /\ bcRead' = "failed"
    /\ pc' = "Done"
    /\ UNCHANGED <<hardware, gpioRegistered, crcLength, error>>

(* bcInit drives the EEPROM's pins with bspWriteInternal, which needs the  *)
(* GPIO entity, and may fail with it.                                      *)
BcInitOk ==
    /\ pc = "BcInit"
    /\ gpioRegistered
    /\ pc' = "BcGet"
    /\ UNCHANGED <<hardware, gpioRegistered, bspHardwareVersion, bspBoardConfig,
                   crcLength, bcRead, error>>

BcInitFails == pc = "BcInit" /\ NoBoardConfig

(* eepromDrvReadWord fails, for the size or for one of the words. *)
BcReadFails == pc = "BcGet" /\ NoBoardConfig

(* bcGet copies n = size / 2 words; the fields behind them are 0.  Word    *)
(* numbers are the fields' places in BC_CONFIG.  (ddr3Vendor, patched for  *)
(* version 0, is not modelled.)                                            *)
ConfigOf(size, version, boardType, pll, console) ==
    LET n == size \div 2
        Word(i, v) == IF i < n THEN v ELSE 0
    IN  [size |-> Word(2, size), version |-> Word(3, version),
         boardType |-> Word(5, boardType), sysPllSpeed |-> Word(15, pll),
         consoleType |-> Word(17, console)]

BcTooLarge ==
    /\ pc = "BcGet"
    /\ \E size \in Sizes : size \div 2 > 36     \* BC_CONFIG is 0x24 words
    /\ NoBoardConfig

(* The configuration is copied before its CRC is looked at. *)
BcCopy ==
    /\ pc = "BcGet"
    /\ \E size \in Sizes, v \in Versions, b \in BoardTypes,
          c \in ConsoleTypes, s \in PllSpeeds :
         /\ size \div 2 <= 36
         /\ bspBoardConfig' = ConfigOf(size, v, b, s, c)
         /\ crcLength' = 2 * (size \div 2) - 2
    /\ pc' = "Crc"
    /\ UNCHANGED <<hardware, gpioRegistered, bspHardwareVersion, bcRead, error>>

(* The CRC over crcLength bytes from data[2], against the one stored in    *)
(* the EEPROM.  A negative length is a huge size_t: the loop leaves the    *)
(* stack.  Two bytes past data[] may hold anything.                        *)
CrcMatches ==
    /\ pc = "Crc"
    /\ crcLength >= 0
    /\ bspHardwareVersion' =
         bspHardwareVersion + Variant(bspBoardConfig.boardType)
    /\ bcRead' = "ok"
    /\ pc' = "Done"
    /\ UNCHANGED <<hardware, gpioRegistered, bspBoardConfig, crcLength, error>>

CrcDiffers ==
    /\ pc = "Crc"
    /\ crcLength >= 0
    /\ NoBoardConfig

CrcRunsAway ==
    /\ pc = "Crc"
    /\ crcLength < 0
    /\ pc' = "Undefined"
    /\ UNCHANGED <<hardware, gpioRegistered, bspHardwareVersion, bspBoardConfig,
                   crcLength, bcRead, error>>

(* bspInitEssential returns; the server starts only without an error. *)
Return ==
    /\ pc = "Done"
    /\ pc' = IF error = {} THEN "Serving" ELSE "Failed"
    /\ UNCHANGED <<hardware, gpioRegistered, bspHardwareVersion, bspBoardConfig,
                   crcLength, bcRead, error>>

Next == \/ InitASICVersion \/ GPIOInstall \/ FullWood
        \/ BcInitOk \/ BcInitFails \/ BcReadFails \/ BcTooLarge \/ BcCopy
        \/ CrcMatches \/ CrcDiffers \/ CrcRunsAway \/ Return
Spec == Init /\ [][Next]_vars

----------------------------------------------------------------------------
(* bspGetConsoleMask and bspGetConsoleType: rval OK or not, and the value. *)
DevMask     == 318767176        \* 0x13000048
OrchMask    == 587202640        \* 0x23000050
RetailMask  == 50331728         \* 0x03000050

ConsoleMask(config) ==
    IF config.size = 0 THEN [ok |-> FALSE, value |-> -1]
    ELSE [ok |-> TRUE, value |->
            IF config.version < 4
              THEN IF config.boardType \in {CT, EVb} THEN DevMask ELSE RetailMask
            ELSE IF config.consoleType \in {3, 4} THEN DevMask
            ELSE IF config.consoleType = 6 THEN OrchMask ELSE RetailMask]

ConsoleTypeLate(config) ==   \* mutant: consoleType used from version 5 on
    IF config.size = 0 THEN [ok |-> FALSE, value |-> -1]
    ELSE [ok |-> TRUE, value |->
            IF config.version > 4 THEN config.consoleType
            ELSE CASE config.boardType = CT -> 3 [] config.boardType = EVb -> 4
                   [] config.boardType = CF -> 2 [] OTHER -> -1]

ConsoleType(config) ==
    IF config.size = 0 THEN [ok |-> FALSE, value |-> -1]
    ELSE [ok |-> TRUE, value |->
            IF config.version > 3 THEN config.consoleType
            ELSE CASE config.boardType = CT -> 3 [] config.boardType = EVb -> 4
                   [] config.boardType = CF -> 2 [] OTHER -> -1]

(* bspGetSystemClockInfo: both frequencies are 0 when nothing sets them.   *)
(* slow and half are HW_CLOCKS_SPEED and LT_PLLSYS_HALFSPEED.              *)
SystemClockInfo(v, config, slow, half) ==
    LET wood  == IF v \in {ESPRESSO, CORTADO} THEN 167000000
                 ELSE IF slow THEN 162000000 ELSE 243000000
        latte == IF config.version <= 2 THEN 243000000
                 ELSE IF config.sysPllSpeed = 240 THEN 239625000   \* 0xF0
                 ELSE IF config.sysPllSpeed = 248 THEN 248625000 ELSE 0   \* 0xF8
        freq  == IF IS_HOLLYWOOD(v) \/ IS_HOLLYWOOD_ES1(v) THEN wood
                 ELSE IF ~IS_LATTE(v) THEN 0
                 ELSE IF half THEN latte \div 2 ELSE latte
    IN  [systemClockFrequency |-> freq, timerFrequency |-> freq \div 128]

----------------------------------------------------------------------------
(* The largest version: the last Latte revision with any variant. *)
MaxVersion == Ver(38, 16, 65535)            \* 0x2610FFFF

(* Type invariant of the boot sequence. *)
TypeOK ==
    /\ pc \in {"ASIC", "GPIO", "Wood", "BcInit", "BcGet", "Crc", "Done",
               "Serving", "Failed", "Undefined"}
    /\ bspHardwareVersion \in 0 .. MaxVersion
    /\ bspBoardConfig.version \in Versions \cup {0}
    /\ bspBoardConfig.boardType \in BoardTypes \cup {0}
    /\ crcLength \in -2 .. 70
    /\ gpioRegistered \in BOOLEAN
    /\ bcRead \in {"unread", "failed", "ok"}
    /\ error \subseteq {"UNKNOWN_HARDWARE_VERSION", "ENTITY_LIST_FULL"}

(* BSP serves requests only on a Latte that has its GPIO entity, and the   *)
(* version it then reports is not InitASICVersion's guess: the high half   *)
(* is the revision of the LT_CHIPREVID register, and the low half was      *)
(* settled by an attempt to read the board configuration, which a cache    *)
(* that still holds the guess would have skipped (bsp_hwrev.c:23).         *)
ServesOnLatteOnly ==
    pc = "Serving" =>
        /\ chipRev = 33 /\ IsLatteChip /\ gpioRegistered
        /\ IS_LATTE(bspHardwareVersion)
        /\ High16(bspHardwareVersion) = High16(Latte(BOLLY_PROD))
        /\ bcRead # "unread"

(* The variant tells whether the board configuration was read ("EV_Y ...   *)
(* missing BoardConfig?"): EV_Y exactly when bcInit or bcGet failed, and   *)
(* then the console requests fail instead of using what bcGet had copied.  *)
VariantTellsConfig ==
    pc = "Serving" =>
        /\ Low16(bspHardwareVersion) =
             IF bcRead = "ok" THEN Variant(bspBoardConfig.boardType) ELSE EV_Y
        /\ bcRead # "ok" => /\ ~ConsoleMask(bspBoardConfig).ok
                            /\ ~ConsoleType(bspBoardConfig).ok

(* Console mask and console type are decoded by two functions from two     *)
(* generations of fields; they agree on success, on what is a development  *)
(* unit (CAT-DEV or EV) and on what is an ORCHESTRA-X.                     *)
MaskAgreesWithType ==
    LET mask == ConsoleMask(bspBoardConfig)
        type == ConsoleType(bspBoardConfig)
    IN  pc = "Serving" =>
          /\ mask.ok = type.ok
          /\ mask.value = DevMask <=> type.value \in {3, 4}
          /\ mask.value = OrchMask <=> type.value = 6

(* The timer frequency, which every delay is computed from, is 0 only for  *)
(* a configuration of version 3 or later that was read and has a PLL speed *)
(* other than 0xf0 and 0xf8 (bspGetSystemClockInfo).                       *)
ClockZeroOnlyFromConfig ==
    \A slow, half \in BOOLEAN :
        /\ pc = "Serving"
        /\ SystemClockInfo(bspHardwareVersion, bspBoardConfig, slow,
                           half).timerFrequency = 0
        => bcRead = "ok" /\ bspBoardConfig.version > 2

----------------------------------------------------------------------------
(* "note sizeof(data) = 0x48" (bc.c:56): the CRC, computed over the words  *)
(* from data[2] on, stays in data.                                         *)
CrcStaysInData == pc = "Crc" => crcLength >= 0 /\ 4 + crcLength <= 72   \* 0x48
============================================================================
