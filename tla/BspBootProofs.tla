--------------------------- MODULE BspBootProofs ---------------------------
(***************************************************************************)
(* Proofs about the boot sequence of BspBoot: whatever the revision        *)
(* registers and the board configuration hold, BSP serves only on a Latte  *)
(* that has its GPIO entity, under a version whose high half is the chip's revision and  *)
(* whose low half tells whether the configuration was read.                *)
(***************************************************************************)
EXTENDS BspBoot, TLAPS

(* The high halves determineLatteBasedHardwareVersion can produce. *)
Revisions == {Ver(33, 16, 0), Ver(33, 32, 0), Ver(34, 16, 0), Ver(35, 16, 0),
              Ver(36, 16, 0), Ver(37, 16, 0), Ver(38, 16, 0)}
Variants == {CAFE, CAT, EV, ID, IH, 0}
Errors == {"UNKNOWN_HARDWARE_VERSION", "ENTITY_LIST_FULL"}
Configs == [size : U16, version : U16, boardType : U16, sysPllSpeed : U16,
            consoleType : U16]

OnLatte == chipRev = 33 /\ IsLatteChip

----------------------------------------------------------------------------
(* The u16 numbers, as an inequality.  (The backends do better with a bound *)
(* that is a variable than with a set of 65536 numbers.)                    *)
LEMMA U16Value == \A x : x \in U16 <=> x \in Int /\ 0 <= x /\ x <= 65535
<1>1. PICK N \in Int : N = 65535
  BY SMT
<1>2. U16 = 0 .. N
  BY <1>1, SMT DEF U16
<1>3. \A x : x \in U16 <=> x \in Int /\ 0 <= x /\ x <= N
  BY <1>2, SMT
<1> QED
  BY <1>1, <1>3, SMT

(* determineLatteBasedHardwareVersion: every revision byte is decoded. *)
LEMMA LatteRevisionValue == LatteRevision \in Revisions
BY Zenon DEF LatteRevision, Revisions

(* The switch on the board type (bsp_main.c): every value is decoded. *)
LEMMA VariantValue ==
    ASSUME NEW b
    PROVE  Variant(b) \in Variants
BY Zenon DEF Variant, Variants

(* The versions determineWoodBasedHardwareVersion can produce, without and *)
(* with the one a Latte starts from.                                       *)
OldWoods == {UNKNOWN, ENG_1, ENG_2, PROD_WII, CORTADO, ESPRESSO, BOLLYWOOD}
Woods == OldWoods \cup {BOLLY_PROD}

(* It decodes every chip revision, and only 0x21 as BOLLY_PROD. *)
LEMMA WoodValue ==
    ASSUME NEW full \in BOOLEAN, NEW cortado
    PROVE  /\ chipRev = 33 => Wood(full, cortado) = BOLLY_PROD
           /\ chipRev # 33 => Wood(full, cortado) \in OldWoods
<1>1. chipRev # 33 => Wood(full, cortado) \in OldWoods
  BY Zenon DEF Wood, OldWoods
<1>2. ASSUME chipRev = 33 PROVE Wood(full, cortado) = BOLLY_PROD
  <2>1. chipRev # 0 /\ chipRev # 16 /\ chipRev # 17 /\ chipRev # 32
    BY <1>2, SMT
  <2> QED
    BY <1>2, <2>1, Zenon DEF Wood
<1> QED
  BY <1>1, <1>2, Zenon

(* No version of a chip before the Latte passes IS_LATTE. *)
LEMMA WoodBounds ==
    ASSUME NEW v \in Woods
    PROVE  /\ v \in Int /\ 0 <= v /\ v <= MaxVersion
           /\ ~IS_LATTE(v)
           /\ v = BOLLY_PROD <=> v \notin OldWoods
<1> USE DEF UNKNOWN, ENG_1, ENG_2, PROD_WII, CORTADO, ESPRESSO, BOLLYWOOD,
            BOLLY_PROD, Ver
<1>1. v \in Int /\ 0 <= v /\ v <= MaxVersion
  BY SMT DEF OldWoods, Woods, MaxVersion
<1>2. v = BOLLY_PROD <=> v \notin OldWoods
  BY SMT DEF OldWoods, Woods
<1>3. v \div 16777216 \in {0, 16, 32}
  BY SMT DEF OldWoods, Woods
<1>4. \A c \in {0, 16, 32} : c % 16 = 0
  BY SMT
<1> QED
  BY <1>1, <1>2, <1>3, <1>4, SMT DEF IS_LATTE

(* Adding a variant to a revision changes neither half's meaning: the bits *)
(* do not meet, the chip stays a Latte and is no Hollywood.                *)
LEMMA Halves ==
    ASSUME NEW h \in Revisions, NEW d \in U16
    PROVE  /\ h + d \in Int /\ 0 <= h + d /\ h + d <= MaxVersion
           /\ High16(h + d) = h
           /\ Low16(h + d) = d
           /\ IS_LATTE(h + d)
           /\ ~IS_HOLLYWOOD(h + d)
           /\ ~IS_HOLLYWOOD_ES1(h + d)
<1>1. d \in Int /\ 0 <= d /\ d <= 65535
  BY U16Value, SMT
<1>2. h + d \in Int /\ 0 <= h + d /\ h + d <= MaxVersion
  BY <1>1, SMT DEF Revisions, Ver, MaxVersion
<1>3. (h + d) % 65536 = d
  BY <1>1, SMT DEF Revisions, Ver
<1>4. h \in Int
  BY SMT DEF Revisions, Ver
<1>5. (h + d) \div 16777216 \in {33, 34, 35, 36, 37, 38}
  BY <1>1, SMT DEF Revisions, Ver
<1>6. \A c \in {33, 34, 35, 36, 37, 38} : c % 16 # 0 /\ c # 16 /\ c # 0
  BY SMT
<1>7. High16(h + d) = h /\ Low16(h + d) = d
  BY <1>1, <1>3, <1>4, SMT DEF High16, Low16
<1>8. /\ IS_LATTE(h + d)
      /\ ~IS_HOLLYWOOD(h + d)
      /\ ~IS_HOLLYWOOD_ES1(h + d)
  BY <1>5, <1>6, SMT DEF IS_LATTE, IS_HOLLYWOOD, IS_HOLLYWOOD_ES1
<1> QED
  BY <1>2, <1>7, <1>8

(* High16 drops the low bits that the Latte version inherits from the      *)
(* Bollywood version it is made from.                                      *)
LEMMA LatteHigh == High16(Latte(BOLLY_PROD)) = LatteRevision
<1>1. BOLLY_PROD % 1048576 = 1
  BY SMT DEF BOLLY_PROD, Ver
<1>2. 1 \in U16
  BY U16Value, SMT
<1>3. LatteRevision \in Int
  BY LatteRevisionValue, SMT DEF Revisions, Ver
<1>4. Latte(BOLLY_PROD) = LatteRevision + 1
  BY <1>1, <1>3, SMT DEF Latte
<1> QED
  BY <1>2, <1>4, LatteRevisionValue, Halves, SMT

(* The variants are small numbers. *)
LEMMA VariantBounds == \A d \in Variants \cup {EV_Y} : d \in U16
BY U16Value, SMT DEF Variants, CAFE, CAT, EV, ID, IH, EV_Y

(* What bcGet leaves in the copy. *)
LEMMA ConfigOfType ==
    ASSUME NEW size \in Sizes, NEW v \in Versions, NEW b \in BoardTypes,
           NEW pll \in PllSpeeds, NEW c \in ConsoleTypes
    PROVE  /\ ConfigOf(size, v, b, pll, c) \in Configs
           /\ ConfigOf(size, v, b, pll, c).version \in Versions \cup {0}
           /\ ConfigOf(size, v, b, pll, c).boardType \in BoardTypes \cup {0}
<1>1. 0 \in U16 /\ size \in U16 /\ v \in U16 /\ b \in U16 /\ pll \in U16 /\ c \in U16
  BY BootAssumption, U16Value, SMT
<1> QED
  BY <1>1, SMT DEF ConfigOf, Configs

----------------------------------------------------------------------------
(* The inductive invariant.  Shapes: TypeOK with bounds for sets, and the  *)
(* types of the other fields.                                              *)
Shapes ==
    /\ pc \in {"ASIC", "GPIO", "Wood", "BcInit", "BcGet", "Crc", "Done",
               "Serving", "Failed", "Undefined"}
    /\ bspHardwareVersion \in Int
    /\ 0 <= bspHardwareVersion /\ bspHardwareVersion <= MaxVersion
    /\ bspBoardConfig \in Configs
    /\ bspBoardConfig.version \in Versions \cup {0}
    /\ bspBoardConfig.boardType \in BoardTypes \cup {0}
    /\ crcLength \in Int /\ -2 <= crcLength /\ crcLength <= 70
    /\ gpioRegistered \in BOOLEAN
    /\ bcRead \in {"unread", "failed", "ok"}
    /\ error \subseteq Errors

(* Without an error so far the board has been recognised, by the version   *)
(* InitASICVersion guessed, and GPIO is registered.                        *)
Recognised ==
    /\ pc = "GPIO" /\ IS_LATTE(bspHardwareVersion) => OnLatte
    /\ pc \notin {"ASIC", "GPIO"} /\ error = {} => OnLatte /\ gpioRegistered
    /\ pc = "Serving" => error = {}

(* The cache while bspMethodGetHardwareVersion fills it, and afterwards. *)
Filled ==
    /\ pc = "Wood" => bspHardwareVersion = UNKNOWN
    /\ pc \in {"BcInit", "BcGet", "Crc"} =>
         OnLatte /\ bspHardwareVersion = LatteRevision
    /\ pc \in {"Done", "Serving", "Failed"} /\ OnLatte =>
         bspHardwareVersion = LatteRevision +
            IF bcRead = "ok" THEN Variant(bspBoardConfig.boardType) ELSE EV_Y

(* On a Latte the configuration has been tried when the version is there;  *)
(* one that was not accepted is used only between bcGet's copy and its CRC. *)
Accepted ==
    /\ pc \notin {"Done", "Serving", "Failed"} => bcRead = "unread"
    /\ pc \in {"Done", "Serving", "Failed"} /\ OnLatte => bcRead # "unread"
    /\ pc \notin {"Crc", "Undefined"} /\ bcRead # "ok" => bspBoardConfig = ZeroConfig

BootInv == Shapes /\ Recognised /\ Filled /\ Accepted

(* The empty copy is a configuration. *)
LEMMA ZeroConfigType ==
    /\ ZeroConfig \in Configs
    /\ ZeroConfig.version = 0 /\ ZeroConfig.boardType = 0 /\ ZeroConfig.size = 0
<1>1. 0 \in U16
  BY U16Value, SMT
<1> QED
  BY <1>1, SMT DEF ZeroConfig, Configs

(* What the hardware is does not change while BSP starts. *)
LEMMA HardwareKept ==
    ASSUME UNCHANGED hardware
    PROVE  /\ chipRev' = chipRev
           /\ OnLatte' = OnLatte /\ LatteRevision' = LatteRevision
BY Zenon DEF hardware, OnLatte, IsLatteChip, LatteRevision

(* The versions the two decoding steps can put into the cache. *)
LEMMA Decoded ==
    ASSUME NEW full \in BOOLEAN, NEW cortado
    PROVE  /\ Wood(full, cortado) = BOLLY_PROD /\ IsLatteChip <=> OnLatte
           /\ Wood(full, cortado) \in Woods
           /\ OnLatte => Wood(full, cortado) # UNKNOWN
<1>1. BOLLY_PROD \notin OldWoods /\ UNKNOWN \in OldWoods
  BY WoodBounds, SMT DEF Woods, OldWoods
<1>2. /\ chipRev = 33 => Wood(full, cortado) = BOLLY_PROD
      /\ chipRev # 33 => Wood(full, cortado) \in OldWoods
  BY WoodValue, Zenon
<1>3. CASE chipRev = 33
  BY <1>1, <1>2, <1>3, Zenon DEF OnLatte, Woods
<1>4. CASE chipRev # 33
  BY <1>1, <1>2, <1>4, Zenon DEF OnLatte, Woods
<1> QED
  BY <1>3, <1>4

(* Init => BootInv. *)
LEMMA BootInitial == Init => BootInv
<1> SUFFICES ASSUME Init PROVE BootInv
  OBVIOUS
<1> USE DEF Init
<1>1. UNKNOWN \in Woods
  BY Zenon DEF Woods, OldWoods
<1>2. /\ UNKNOWN \in Int /\ 0 <= UNKNOWN /\ UNKNOWN <= MaxVersion
      /\ 0 \in Int /\ -2 <= 0 /\ 0 <= 70
  BY <1>1, WoodBounds, SMT
<1>3. Shapes
  <2>1. pc \in {"ASIC", "GPIO", "Wood", "BcInit", "BcGet", "Crc", "Done",
               "Serving", "Failed", "Undefined"}
    BY Zenon
  <2>2. bcRead \in {"unread", "failed", "ok"} /\ gpioRegistered \in BOOLEAN /\ error \subseteq Errors
    BY Zenon
  <2>3. /\ bspBoardConfig \in Configs
        /\ bspBoardConfig.version \in Versions \cup {0}
        /\ bspBoardConfig.boardType \in BoardTypes \cup {0}
    BY ZeroConfigType, Zenon
  <2>4. bspHardwareVersion = UNKNOWN /\ crcLength = 0
    BY Zenon
  <2> HIDE DEF Init
  <2> QED
    BY <1>2, <2>1, <2>2, <2>3, <2>4, SMT DEF Shapes
<1>4. Recognised /\ Filled /\ Accepted
  BY Zenon DEF Recognised, Filled, Accepted
<1> QED
  BY <1>3, <1>4 DEF BootInv

(* NoBoardConfig, whichever of bcInit, the size and the CRC made            *)
(* bspReadBoardConfig fail.                                                 *)
LEMMA BootNoBoardConfig ==
    ASSUME BootInv, pc \in {"BcInit", "BcGet", "Crc"}, NoBoardConfig
    PROVE  BootInv'
<1> USE DEF NoBoardConfig
<1>1. /\ LatteRevision \in Revisions /\ EV_Y \in U16
      /\ OnLatte' = OnLatte /\ LatteRevision' = LatteRevision /\ gpioRegistered' = gpioRegistered
      /\ OnLatte /\ bspHardwareVersion = LatteRevision
      /\ pc' = "Done" /\ error' = error /\ crcLength' = crcLength
      /\ bcRead' = "failed"
  BY LatteRevisionValue, VariantBounds, HardwareKept
  DEF BootInv, Filled, Accepted, Shapes
<1>2. Shapes'
  <2>1. /\ bspHardwareVersion' \in Int
        /\ 0 <= bspHardwareVersion' /\ bspHardwareVersion' <= MaxVersion
    BY <1>1, Halves, SMT
  <2> QED
    BY <1>1, <2>1, ZeroConfigType, SMT DEF BootInv, Shapes
<1>3. Recognised'
  BY <1>1, SMT DEF BootInv, Recognised
<1>4. Filled'
  BY <1>1, SMT DEF BootInv, Filled
<1>5. Accepted'
  BY <1>1, SMT DEF BootInv, Accepted
<1> QED
  BY <1>2, <1>3, <1>4, <1>5 DEF BootInv

(* BootInv is inductive: one step for each step of bspInitEssential. *)
LEMMA BootStep == BootInv /\ [Next]_vars => BootInv'
<1> SUFFICES ASSUME BootInv, [Next]_vars PROVE BootInv'
  OBVIOUS
<1>1. CASE InitASICVersion
  <2>0. PICK v : v = Wood(FALSE, "error")
    BY Zenon
  <2>B. FALSE \in BOOLEAN
    BY Zenon
  <2>1. /\ v = BOLLY_PROD /\ IsLatteChip <=> OnLatte
        /\ v \in Woods
        /\ OnLatte => v # UNKNOWN
    BY <2>0, <2>B, Decoded, Zenon
  <2>A. /\ bspHardwareVersion' =
             IF v = BOLLY_PROD /\ IsLatteChip THEN High16(Latte(v)) + EV_Y ELSE v
        /\ error' = IF v = UNKNOWN THEN error \cup {"UNKNOWN_HARDWARE_VERSION"}
                    ELSE error
        /\ pc' = "GPIO" /\ pc = "ASIC"
        /\ UNCHANGED <<hardware, gpioRegistered, bspBoardConfig, crcLength, bcRead>>
    BY <1>1, <2>0, Zenon DEF InitASICVersion
  <2>2. /\ bspHardwareVersion' = IF OnLatte THEN LatteRevision + EV_Y ELSE v
        /\ error' = IF v = UNKNOWN THEN error \cup {"UNKNOWN_HARDWARE_VERSION"}
                    ELSE error
        /\ pc' = "GPIO" /\ UNCHANGED <<gpioRegistered, bspBoardConfig, crcLength, bcRead>>
        /\ OnLatte' = OnLatte
        /\ pc = "ASIC"
    BY <2>1, <2>A, LatteHigh, HardwareKept, Zenon
  <2>3. LatteRevision \in Revisions /\ EV_Y \in U16
    BY LatteRevisionValue, VariantBounds
  <2>4. Shapes'
    <3>1. /\ bspHardwareVersion' \in Int
          /\ 0 <= bspHardwareVersion' /\ bspHardwareVersion' <= MaxVersion
      BY <2>1, <2>2, <2>3, Halves, WoodBounds, SMT
    <3> QED
      BY <2>2, <3>1, SMT DEF BootInv, Shapes, Errors
  <2>5. Recognised'
    BY <2>1, <2>2, WoodBounds, SMT DEF Recognised
  <2>6. Filled' /\ Accepted'
    BY <2>2, SMT DEF BootInv, Filled, Accepted
  <2> QED
    BY <2>4, <2>5, <2>6 DEF BootInv
<1>2. CASE GPIOInstall
  <2>0. /\ pc = "GPIO" /\ pc' = "Wood" /\ bspHardwareVersion' = UNKNOWN
        /\ UNCHANGED <<hardware, bspBoardConfig, crcLength, bcRead>>
        /\ RegisterGPIO
    BY <1>2, Zenon DEF GPIOInstall
  <2>1. UNKNOWN \in Woods /\ OnLatte' = OnLatte
    BY <2>0, HardwareKept, Zenon DEF Woods, OldWoods
  <2>2. /\ error' \subseteq Errors /\ gpioRegistered' \in BOOLEAN
        /\ error' = {} => /\ error = {} /\ gpioRegistered'
                          /\ IS_LATTE(bspHardwareVersion)
    <3>1. PICK rval \in IF IS_LATTE(bspHardwareVersion)
                          THEN {"OK", "ENTITY_LIST_FULL"}
                          ELSE {"UNKNOWN_HARDWARE_VERSION"} :
            /\ error' = error \cup ({rval} \ {"OK"})
            /\ gpioRegistered' = (rval = "OK")
      BY <2>0, Zenon DEF RegisterGPIO
    <3>2. error \subseteq Errors
      BY DEF BootInv, Shapes
    <3>3. CASE rval = "OK"
      <4>1. "OK" # "UNKNOWN_HARDWARE_VERSION"
        OBVIOUS
      <4>2. IS_LATTE(bspHardwareVersion)
        BY <3>1, <3>3, <4>1, Zenon
      <4> QED
        BY <3>1, <3>2, <3>3, <4>2, Zenon
    <3>4. CASE rval # "OK"
      <4>1. rval \in Errors
        BY <3>1, <3>4, Zenon DEF Errors
      <4>2. rval \in error'
        BY <3>1, <3>4, Zenon
      <4> QED
        BY <3>1, <3>2, <4>1, <4>2, Zenon
    <3> QED
      BY <3>3, <3>4, Zenon
  <2>3. Shapes'
    BY <2>0, <2>1, <2>2, WoodBounds, SMT DEF BootInv, Shapes
  <2>4. Recognised'
    BY <2>0, <2>1, <2>2, SMT DEF BootInv, Recognised
  <2>5. Filled' /\ Accepted'
    BY <2>0, SMT DEF BootInv, Filled, Accepted
  <2> QED
    BY <2>3, <2>4, <2>5 DEF BootInv
<1>3. CASE FullWood
  <2>0. /\ pc = "Wood" /\ bspHardwareVersion = UNKNOWN
        /\ UNCHANGED <<hardware, gpioRegistered, bspBoardConfig, crcLength, bcRead>>
    BY <1>3, Zenon DEF FullWood, BootInv, Filled
  <2>A. PICK cortado \in Cortado :
          LET v == Wood(TRUE, cortado)
              onLatte == v = BOLLY_PROD /\ IsLatteChip
          IN  /\ bspHardwareVersion' = IF onLatte THEN High16(Latte(v)) ELSE v
              /\ error' = error \cup IF v = UNKNOWN
                             THEN {"UNKNOWN_HARDWARE_VERSION"} ELSE {}
              /\ pc' = IF onLatte THEN "BcInit" ELSE "Done"
    BY <1>3, <2>0, Zenon DEF FullWood
  <2>B. PICK v : v = Wood(TRUE, cortado)
    BY Zenon
  <2>1. /\ bspHardwareVersion' = IF v = BOLLY_PROD /\ IsLatteChip
                                   THEN High16(Latte(v)) ELSE v
        /\ error' = error \cup IF v = UNKNOWN
                       THEN {"UNKNOWN_HARDWARE_VERSION"} ELSE {}
        /\ pc' = IF v = BOLLY_PROD /\ IsLatteChip THEN "BcInit" ELSE "Done"
    BY <2>A, <2>B, Zenon
  <2>2. /\ v = BOLLY_PROD /\ IsLatteChip <=> OnLatte
        /\ v \in Woods
        /\ OnLatte => v # UNKNOWN
    BY <2>B, Decoded, Zenon
  <2>3. /\ bspHardwareVersion' = IF OnLatte THEN LatteRevision ELSE v
        /\ error' = error \cup IF v = UNKNOWN
                       THEN {"UNKNOWN_HARDWARE_VERSION"} ELSE {}
        /\ pc' = IF OnLatte THEN "BcInit" ELSE "Done"
        /\ UNCHANGED <<gpioRegistered, bspBoardConfig, crcLength, bcRead>>
        /\ OnLatte' = OnLatte /\ LatteRevision' = LatteRevision
        /\ gpioRegistered' = gpioRegistered
        /\ pc = "Wood"
    BY <2>0, <2>1, <2>2, LatteHigh, HardwareKept, Zenon
  <2>4. LatteRevision \in Revisions
    BY LatteRevisionValue
  <2>5. Shapes'
    <3>1. 0 \in U16 /\ LatteRevision \in Int /\ LatteRevision + 0 = LatteRevision
      BY <2>4, U16Value, SMT DEF Revisions, Ver
    <3>2. /\ bspHardwareVersion' \in Int
          /\ 0 <= bspHardwareVersion' /\ bspHardwareVersion' <= MaxVersion
      BY <2>2, <2>3, <2>4, <3>1, Halves, WoodBounds, SMT
    <3> QED
      BY <2>3, <3>2, SMT DEF BootInv, Shapes, Errors
  <2>6. Recognised'
    BY <2>2, <2>3, SMT DEF BootInv, Recognised
  <2>7. Filled' /\ Accepted'
    BY <2>2, <2>3, SMT DEF BootInv, Filled, Accepted
  <2> QED
    BY <2>5, <2>6, <2>7 DEF BootInv
<1>4. CASE BcInitOk
  <2> USE <1>4 DEF BcInitOk
  <2>1. OnLatte' = OnLatte /\ LatteRevision' = LatteRevision /\ gpioRegistered' = gpioRegistered
    BY HardwareKept
  <2> QED
    BY <2>1, SMT DEF BootInv, Shapes, Recognised, Filled, Accepted
<1>5. CASE BcInitFails \/ BcReadFails \/ BcTooLarge \/ CrcDiffers
  BY <1>5, BootNoBoardConfig DEF BcInitFails, BcReadFails, BcTooLarge, CrcDiffers
<1>6. CASE BcCopy
  <2> USE <1>6 DEF BcCopy
  <2>1. OnLatte' = OnLatte /\ LatteRevision' = LatteRevision /\ gpioRegistered' = gpioRegistered
    BY HardwareKept
  <2>2. PICK size \in Sizes, v \in Versions, b \in BoardTypes,
             c \in ConsoleTypes, s \in PllSpeeds :
          /\ size \div 2 <= 36
          /\ bspBoardConfig' = ConfigOf(size, v, b, s, c)
          /\ crcLength' = 2 * (size \div 2) - 2
    BY SMT
  <2>3. size \in Int /\ 0 <= size
    BY BootAssumption, U16Value, SMT
  <2>4. crcLength' \in Int /\ -2 <= crcLength' /\ crcLength' <= 70
    BY <2>2, <2>3, SMT
  <2>5. Shapes'
    BY <2>2, <2>4, ConfigOfType, SMT DEF BootInv, Shapes
  <2>6. Recognised' /\ Filled' /\ Accepted'
    BY <2>1, SMT DEF BootInv, Recognised, Filled, Accepted
  <2> QED
    BY <2>5, <2>6 DEF BootInv
<1>7. CASE CrcMatches
  <2> USE <1>7 DEF CrcMatches
  <2>1. /\ OnLatte' = OnLatte /\ LatteRevision' = LatteRevision /\ gpioRegistered' = gpioRegistered
        /\ OnLatte /\ bspHardwareVersion = LatteRevision
        /\ LatteRevision \in Revisions
        /\ Variant(bspBoardConfig.boardType) \in U16
    BY HardwareKept, LatteRevisionValue, VariantValue, VariantBounds
    DEF BootInv, Filled
  <2>2. Shapes'
    <3>1. /\ bspHardwareVersion' \in Int
          /\ 0 <= bspHardwareVersion' /\ bspHardwareVersion' <= MaxVersion
      BY <2>1, Halves, SMT
    <3> QED
      BY <3>1, SMT DEF BootInv, Shapes
  <2>3. Recognised'
    BY <2>1, SMT DEF BootInv, Recognised
  <2>4. Filled' /\ Accepted'
    BY <2>1, SMT DEF BootInv, Filled, Accepted
  <2> QED
    BY <2>2, <2>3, <2>4 DEF BootInv
<1>8. CASE CrcRunsAway
  <2> USE <1>8 DEF CrcRunsAway
  <2>1. OnLatte' = OnLatte /\ LatteRevision' = LatteRevision /\ gpioRegistered' = gpioRegistered
    BY HardwareKept
  <2> QED
    BY <2>1, SMT DEF BootInv, Shapes, Recognised, Filled, Accepted
<1>9. CASE Return
  <2> USE <1>9 DEF Return
  <2>1. OnLatte' = OnLatte /\ LatteRevision' = LatteRevision /\ gpioRegistered' = gpioRegistered
    BY HardwareKept
  <2> QED
    BY <2>1, SMT DEF BootInv, Shapes, Recognised, Filled, Accepted
<1>10. CASE UNCHANGED vars
  <2> USE <1>10 DEF vars
  <2>1. OnLatte' = OnLatte /\ LatteRevision' = LatteRevision /\ gpioRegistered' = gpioRegistered
    BY HardwareKept DEF hardware
  <2> QED
    BY <2>1, SMT DEF BootInv, Shapes, Recognised, Filled, Accepted
<1> QED
  BY <1>1, <1>2, <1>3, <1>4, <1>5, <1>6, <1>7, <1>8, <1>9, <1>10 DEF Next

(* BootInv is an invariant of the boot sequence. *)
THEOREM BootCorrect == Spec => []BootInv
BY BootInitial, BootStep, PTL DEF Spec

----------------------------------------------------------------------------
(* Every variable keeps its type, whatever the chip is and whatever is in  *)
(* the EEPROM: adding the variant never leaves the version's range, and    *)
(* the CRC's length is at least -2.                                        *)
THEOREM TypeCorrect == Spec => []TypeOK
<1>1. BootInv => TypeOK
  <2> SUFFICES ASSUME BootInv PROVE TypeOK
    OBVIOUS
  <2>1. MaxVersion \in Int
    BY SMT DEF Ver, MaxVersion
  <2>2. bspHardwareVersion \in 0 .. MaxVersion
    BY <2>1, SMT DEF BootInv, Shapes
  <2>3. crcLength \in -2 .. 70
    BY SMT DEF BootInv, Shapes
  <2> QED
    BY <2>2, <2>3, Zenon DEF TypeOK, BootInv, Shapes, Errors
<1> QED
  BY <1>1, BootCorrect, PTL

(* The server starts only on a Latte whose GPIO entity is registered, and  *)
(* then reports the revision of the LT_CHIPREVID register, with a variant  *)
(* that an attempt to read the board configuration has settled.            *)
THEOREM LatteCorrect == Spec => []ServesOnLatteOnly
<1>1. BootInv => ServesOnLatteOnly
  <2> SUFFICES ASSUME BootInv, pc = "Serving" PROVE ServesOnLatteOnly
    BY DEF ServesOnLatteOnly
  <2> DEFINE d == IF bcRead = "ok" THEN Variant(bspBoardConfig.boardType) ELSE EV_Y
  <2>1. OnLatte /\ gpioRegistered /\ bspHardwareVersion = LatteRevision + d
    BY SMT DEF BootInv, Recognised, Filled
  <2>3. bcRead # "unread"
    BY <2>1, SMT DEF BootInv, Accepted
  <2>2. d \in U16
    BY VariantValue, VariantBounds, SMT
  <2> HIDE DEF d
  <2> QED
    BY <2>1, <2>2, <2>3, Halves, LatteRevisionValue, LatteHigh, SMT
    DEF ServesOnLatteOnly, OnLatte
<1> QED
  BY <1>1, BootCorrect, PTL

(* The low half of the version is EV_Y exactly when the configuration was  *)
(* not accepted, and then nothing of it is used.                           *)
THEOREM VariantCorrect == Spec => []VariantTellsConfig
<1>1. BootInv => VariantTellsConfig
  <2> SUFFICES ASSUME BootInv, pc = "Serving" PROVE VariantTellsConfig
    BY DEF VariantTellsConfig
  <2> DEFINE d == IF bcRead = "ok" THEN Variant(bspBoardConfig.boardType) ELSE EV_Y
  <2>1. bspHardwareVersion = LatteRevision + d
    BY SMT DEF BootInv, Recognised, Filled
  <2>2. d \in U16
    BY VariantValue, VariantBounds, SMT
  <2>3. Low16(bspHardwareVersion) = d
    <3> HIDE DEF d
    <3> QED
      BY <2>1, <2>2, Halves, LatteRevisionValue, SMT
  <2>4. ASSUME bcRead # "ok"
        PROVE  ~ConsoleMask(bspBoardConfig).ok /\ ~ConsoleType(bspBoardConfig).ok
    <3>1. bspBoardConfig.size = 0
      BY <2>4, ZeroConfigType, SMT DEF BootInv, Accepted
    <3>2. /\ ConsoleMask(bspBoardConfig) = [ok |-> FALSE, value |-> -1]
          /\ ConsoleType(bspBoardConfig) = [ok |-> FALSE, value |-> -1]
      BY <3>1, Zenon DEF ConsoleMask, ConsoleType
    <3> QED
      BY <3>2, SMT
  <2> QED
    BY <2>3, <2>4, Zenon DEF VariantTellsConfig
<1> QED
  BY <1>1, BootCorrect, PTL

(* For every content of the configuration the two decoders agree. *)
LEMMA ConsoleAgrees ==
    ASSUME NEW config \in Configs
    PROVE  LET mask == ConsoleMask(config)
               type == ConsoleType(config)
           IN  /\ mask.ok = type.ok
               /\ mask.value = DevMask <=> type.value \in {3, 4}
               /\ mask.value = OrchMask <=> type.value = 6
<1>1. /\ DevMask # OrchMask /\ DevMask # RetailMask /\ OrchMask # RetailMask
      /\ -1 # DevMask /\ -1 # OrchMask /\ -1 \notin {3, 4} /\ -1 # 6
      /\ CT # EVb /\ CT # CF /\ EVb # CF
  BY SMT DEF DevMask, OrchMask, RetailMask, CT, EVb, CF
<1>2. config.version \in Int
  BY U16Value, SMT DEF Configs
<1>3. CASE config.size = 0
  <2>1. /\ ConsoleMask(config) = [ok |-> FALSE, value |-> -1]
        /\ ConsoleType(config) = [ok |-> FALSE, value |-> -1]
    BY <1>3, Zenon DEF ConsoleMask, ConsoleType
  <2> QED
    BY <1>1, <2>1, SMT
<1>4. CASE config.size # 0 /\ config.version > 3
  <2>1. ~(config.version < 4)
    BY <1>2, <1>4, SMT
  <2> DEFINE m == IF config.consoleType \in {3, 4} THEN DevMask
                  ELSE IF config.consoleType = 6 THEN OrchMask ELSE RetailMask
  <2>2. ConsoleMask(config) = [ok |-> TRUE, value |-> m]
    BY <1>4, <2>1, Zenon DEF ConsoleMask
  <2>3. ConsoleType(config) = [ok |-> TRUE, value |-> config.consoleType]
    BY <1>4, Zenon DEF ConsoleType
  <2>4. 6 \notin {3, 4}
    BY SMT
  <2>5. /\ m = DevMask <=> config.consoleType \in {3, 4}
        /\ m = OrchMask <=> config.consoleType = 6
    BY <1>1, <2>4, Zenon
  <2> HIDE DEF m
  <2>6. /\ ConsoleMask(config).ok = TRUE /\ ConsoleMask(config).value = m
        /\ ConsoleType(config).ok = TRUE
        /\ ConsoleType(config).value = config.consoleType
    BY <2>2, <2>3, SMT
  <2> QED
    BY <2>5, <2>6, Zenon
<1>5. CASE config.size # 0 /\ ~(config.version > 3)
  <2>1. config.version < 4
    BY <1>2, <1>5, SMT
  <2> DEFINE m == IF config.boardType \in {CT, EVb} THEN DevMask ELSE RetailMask
             t == CASE config.boardType = CT -> 3 [] config.boardType = EVb -> 4
                    [] config.boardType = CF -> 2 [] OTHER -> -1
  <2>2. ConsoleMask(config) = [ok |-> TRUE, value |-> m]
    BY <1>5, <2>1, Zenon DEF ConsoleMask
  <2>3. ConsoleType(config) = [ok |-> TRUE, value |-> t]
    BY <1>5, Zenon DEF ConsoleType
  <2>4. /\ config.boardType = CT => t = 3
        /\ config.boardType = EVb => t = 4
        /\ config.boardType \notin {CT, EVb} => t \in {2, -1}
    BY <1>1, Zenon
  <2>5. 2 \notin {3, 4} /\ 2 # 6 /\ 3 # 6 /\ 4 # 6
    BY SMT
  <2>6. /\ m = DevMask <=> config.boardType \in {CT, EVb}
        /\ m # OrchMask
    BY <1>1, Zenon
  <2> HIDE DEF m, t
  <2>7. /\ m = DevMask <=> t \in {3, 4}
        /\ t # 6
    BY <1>1, <2>4, <2>5, <2>6, Zenon
  <2>8. /\ ConsoleMask(config).ok = TRUE /\ ConsoleMask(config).value = m
        /\ ConsoleType(config).ok = TRUE /\ ConsoleType(config).value = t
    BY <2>2, <2>3, SMT
  <2> QED
    BY <2>6, <2>7, <2>8, Zenon
<1> QED
  BY <1>3, <1>4, <1>5, Zenon

(* Console mask and console type agree on every configuration the server   *)
(* can come to hold.                                                       *)
THEOREM MaskCorrect == Spec => []MaskAgreesWithType
<1>1. BootInv => MaskAgreesWithType
  BY ConsoleAgrees, Zenon DEF MaskAgreesWithType, BootInv, Shapes
<1> QED
  BY <1>1, BootCorrect, PTL

(* On a Latte the clock is computed from the configuration. *)
LEMMA LatteClock ==
    ASSUME NEW v, IS_LATTE(v), ~IS_HOLLYWOOD(v), ~IS_HOLLYWOOD_ES1(v),
           NEW config \in Configs, NEW slow \in BOOLEAN, NEW half \in BOOLEAN,
           config.version <= 2
    PROVE  SystemClockInfo(v, config, slow, half).timerFrequency # 0
<1>1. CASE half
  <2>1. SystemClockInfo(v, config, slow, half).timerFrequency
          = (243000000 \div 2) \div 128
    BY <1>1, SMT DEF SystemClockInfo
  <2> QED
    BY <2>1, SMT
<1>2. CASE ~half
  <2>1. SystemClockInfo(v, config, slow, half).timerFrequency
          = 243000000 \div 128
    BY <1>2, SMT DEF SystemClockInfo
  <2> QED
    BY <2>1, SMT
<1> QED
  BY <1>1, <1>2

(* A server whose timer frequency is 0 has read a configuration of version *)
(* 3 or later: without one, every delay is computed from a real clock.     *)
THEOREM ClockCorrect == Spec => []ClockZeroOnlyFromConfig
<1>1. BootInv => ClockZeroOnlyFromConfig
  <2> SUFFICES ASSUME BootInv, pc = "Serving",
                      NEW slow \in BOOLEAN, NEW half \in BOOLEAN,
                      ~(bcRead = "ok" /\ bspBoardConfig.version > 2)
               PROVE  SystemClockInfo(bspHardwareVersion, bspBoardConfig, slow,
                                      half).timerFrequency # 0
    BY SMT DEF ClockZeroOnlyFromConfig
  <2> DEFINE d == IF bcRead = "ok" THEN Variant(bspBoardConfig.boardType) ELSE EV_Y
  <2>1. bspHardwareVersion = LatteRevision + d
    BY SMT DEF BootInv, Recognised, Filled
  <2>2. d \in U16
    BY VariantValue, VariantBounds, SMT
  <2> HIDE DEF d
  <2>3. /\ IS_LATTE(bspHardwareVersion)
        /\ ~IS_HOLLYWOOD(bspHardwareVersion)
        /\ ~IS_HOLLYWOOD_ES1(bspHardwareVersion)
    BY <2>1, <2>2, Halves, LatteRevisionValue, SMT
  <2>4. bspBoardConfig \in Configs /\ bspBoardConfig.version \in Int
    BY U16Value, SMT DEF BootInv, Shapes, Configs
  <2>5. bspBoardConfig.version <= 2
    BY <2>4, ZeroConfigType, SMT DEF BootInv, Accepted
  <2> QED
    BY <2>3, <2>4, <2>5, LatteClock, SMT
<1> QED
  BY <1>1, BootCorrect, PTL
============================================================================
