# A TLA+ verification of IOSU's board support process

The repository is a reconstruction of the IOSU, the operating system of the
Wii U's ARM core. Most of its processes are empty files so far; the code that
exists is **IOS-BSP**, the board support process, and the libraries it links.
This project models it: the `/dev/bsp` server, the entity library it dispatches
to, the detection of the board, the EEPROM driver, the entities that keep state,
and the log, delay, string and CRC libraries.

    tlc -config MCBspServer.cfg MCBspServer     # a run
    tlapm BspServerProofs.tla                   # the proofs of a module

## 1. Inventory

| Component | State | Operations | Talks to |
|---|---|---|---|
| `/dev/bsp` server (`ios_bsp/bsp_main.c`) | message queue, `bsp_fdtable[32]`, `result` | start-up, `bspInstall`, receive, OPEN, CLOSE, nine ioctls, reply | clients by kernel IPC; entity library by calls |
| Entity library (`ios_bsp/libraries/bsp_entity`) | `bspEntityList[32]` | find entity and attribute, permission check, query/read/write/init/shutdown, entity version | drivers' methods by callback |
| Board detection (`bsp_main.c`, `bsp_hwrev.c`, `bsp_hwrevs.h`) | `bspHardwareVersion`, `bspBoardConfig` | `bspInitEssential`, the revision decoders, console mask and type, system clock | `bc`, GPIO entity, registers |
| Board configuration (`libraries/bc`) | `bc_initialised` | `bcInit`, `bcGet` | EEPROM driver, crc32 |
| EEPROM driver (`libraries/eeprom_drv`) | context status, the pins, the chip | init, open, shutdown, read, write, write control | GPIO entity, delays |
| EE entity (`entities/ee`) | the driver's status, `bc_initialised` | access, control, bc | EEPROM driver, `bc` |
| PPC entity (`entities/ppc`) | reset and IPC registers, the EXI bus | install, Exec, 60XeDataStreaming | the PowerPC, by a flag it polls |
| DI, SI, SDIO, RESET, SYS, CCRH (`entities/`) | fields of shared registers, the reset line of the DRH | attribute methods | registers, and each other through the library |
| Log (`libraries/log`) | slots, semaphore, syslog handle | open, print, fatal, panic | kernel |
| libc, crc32 (`libraries/`) | crc state | delays, strings, CRC; `vsnprintf` over an empty formatter | kernel timer |
| USB (`ios_usb/usb_main.c`), all other processes | | unfinished, or empty files | |

Interaction: a client's message is queued by the kernel; the single server
thread takes it, looks the name up, checks the credentials noted at OPEN, calls
the driver's method on its own stack, and replies. Drivers call back into the
library with the INTERNAL credential (`bspReadInternal`, `bspWriteInternal`):
each edge of an EEPROM pin is such a call.

What is hard here: clients that queue while one is served; an ioctl that falls
through nine cases; a list that must be sorted for its lookup to work; a cache
that is filled, cleared and filled through a pointer to itself; a chip that goes
on programming after the driver's time-out; a PowerPC that answers after the
last poll; threads that create a semaphore on first use; a timer that wraps;
sizes and versions at their boundaries. `PROJECT.json` lists these as hazards, each at its line, and the
property that would catch it.

What makes each component correct: the server gives one reply per request,
calls a method only for whom it is meant, keeps descriptors apart, and survives
sound requests; the library finds every registered entity; detection ends with
the true revision and uses a configuration only if it was verified; the EEPROM
driver is a store of words whose acknowledgements can be trusted, and always
returns; an entity's OK means that its device did what was asked, and a field of
a shared register belongs to one entity; a log handle is one log's, a heap block
is freed; a buffer is not overrun; a delay is as long as asked, and ends.

## 2. Modules

| Module | Models | State and actions |
|---|---|---|
| `BspEntity` | `entity.c` | No variables: each C function is an operator from the list, the request and the credentials to how it ends, what it may return and which methods it called. |
| `BspServer` (extends it) | `main`, `bspInstall` | `pc` is the place in `main`; one action per kernel call, per install, per dispatch branch, per case of the switch. |
| `EepromStore` | what the driver promises | Abstract: an operation is called, taken by the chip at most once, and returns. |
| `Eeprom` | `eeprom.c`, `eeprom_bits.c`, the chip | A part of a driver function is the sequence `part` of its pin accesses, `at` the number made; each access is a step. `Store == INSTANCE EepromStore` maps it to the promise. |
| `BspBoot` | `bspInitEssential`, `bsp_hwrev.c`, `bc.c`, `bspGetSystemClockInfo` | One action per function on the way, and per outcome of `bcGet`. |
| `BspEE` (over `EepromStore`) | `bsp_ee.c`, `bc.c`, and the ioctls that reach them | `req` is the request, `calls` the methods it has still to run (an ioctl falls through), `script` the driver calls left in the current one; the store's actions are its `Driver`, `Take`, `Settle` and `Return`. |
| `BspDevices` | `bsp_di.c`, `bsp_si.c`, `bsp_sdio.c`, `bsp_reset.c`, `bsp_sys.c`, `bsp_ccrh.c` | Registers are sets of bits; a method is one action; the calls a DRH reset makes fail in any combination. |
| `BspPPC` (extends it) | `bsp_ppc.c` and the PowerPC | Exec step by step, a step per sleep and poll; the PowerPC is a process of its own. |
| `LogLib` | `log.c` | A thread is a record of its locals; one action per system call. |
| `CString` | `string.c`, `vsnprintf` as its stub leaves it | A buffer with a foreign byte on either side; one action per call. |
| `Crc32` | `crc32.c` | Words of 32 bits as sets of bits; reset, and input as one action for its entry, one per byte and one for its return. |
| `Delay` | `delay.c`, `bsp_util.c` | One action per look at the timer; `delay_ticks` by its system calls. |
| `BspServerProofs` (also `BspEntity`), `EepromStoreProofs`, `EepromProofs`, `BspEEProofs`, `BspBootProofs`, `BspPPCProofs` (also `BspDevices`), `LogLibProofs`, `LibcProofs` | | The theorems, section 5. |
| `MC*` | | Instances for TLC. |

Conventions. Names are numbers in the order `strncmp` gives the strings; the
empty string is 0. A `BSP_RVAL` and a permission word are the sets of their
bits. Pointers into lists are indices, NULL is 0. Undefined behaviour (a NULL
dereference, a read past a table, a negative descriptor) leads to the absorbing
place `Undefined`, or, where the outcome is only an unknown value, to a
nondeterministic choice. A loop that never ends leads to `Hung`. Definitions
commented *mutant* are wrong variants of the definition after them, each the bug
that one property must detect; no specification uses them.

External, and modelled from how the source uses it: the kernel's queue
(a client sends one message and is blocked until its reply; a full queue makes it
wait), `bspRegisterEntity` (an insertion that keeps the list sorted and fails
when it is full, as `bspFindEntity`'s early exit requires), `BSPCheckCortado`
(any answer, and with it any PVR: `bspPPCGetPVR` reads it from an EEPROM of arbitrary
contents, and its result is ignored), the EEPROM chip (a Microwire part with start bit,
opcode, address; READ, WRITE, ERAL, EWEN, EWDS; a busy level on its data line),
the PowerPC (it raises X2 once after it left reset, at any time or never), and the
kernel's semaphores and timers.

Abstractions. `bspInstall` compiles in GPIO alone, the other calls are
commented out; `BspServer` takes the list of installs as a constant, so that the
results hold when they are enabled. The bytes a method transfers, log texts,
`hello` and, in the EEPROM driver, `udelay` are left out. A driver's method
returns any value of `HandlerRvals`. The permission check does not apply to
INIT with an empty attribute name (`bspFindAttribute` returns before it), so
`CallsPermitted` is about calls by name. The contents of the EEPROM seen by
`bcGet` and the verdict of the CRC are arbitrary in `BspBoot`; in `BspEE` the words
are the ones in the chip and the CRC is an operator constant. `BspEE` takes for
granted that the client may use EE, which `BspServer` checks, and that GPIO is
registered, without which `main` serves nobody. `BspPPC` lets the functions of Exec
be NULL, which is what `bspPPCInstall` as written leaves them, or what its lines 151
to 159 mean to set: otherwise nothing of Exec could run.

## 3. Runs

| Run | Question | Result |
|---|---|---|
| `bsp_server` | Is the server safe over all interleavings of its clients? | holds; 242,808 states |
| `bsp_server_live` | Is every client answered? | holds, unless the server ended |
| `result_assigned` | Does every reply carry a result of its own message? | violated |
| `fd_checked` | Does the check leave only descriptors of the table? | violated |
| `eeprom_store` | Are the promised store's acknowledgements true? | holds; 14,476 states |
| `eeprom` | Do the pins implement the store? Does every call return? | holds; 42,795 states |
| `boot` | Does detection end with the truth? | holds; 27,768 states |
| `boot_crc` | Does the CRC stay in its array? | violated |
| `ee` | What do clients get of the EEPROM through the fall-through? Is a configuration genuine? | holds; 708,590 states |
| `devices` | Do entities that share registers keep apart, and do their answers tell the truth? | holds; 20,700 states |
| `log` | How exclusive are slots, are blocks freed, and does every open return? | holds; 71,814 states |
| `libc` | Are buffers, CRC and delays right? | holds; 7,402 states |

Properties of `bsp_server`: `CallsPermitted`, `LookupComplete`,
`UnknownNameAnswer`, `OneReplyPerRequest`, `DescriptorKept`,
`IoctlNeverSucceeds`, `SoundRequestsSurvive`, `EmptyNameNeverAnswered`.
Three of them record behaviour that is surely not meant, exactly as
the code has it: no ioctl ever succeeds (no `break` in the switch), a name after
the last entity is "found" as NULL, and a request with an empty attribute name is
never answered. When the code is corrected these are the properties that must
change.

Properties of the later runs. `ee`: a configuration that `bcGet` accepts while the
chip is idle is the chip's (`BcReadGenuine`); an ioctl never gets a word programmed
unless code of the process enabled writing (`IoctlNeverProgramsUnaided`, also after
writes that timed out and swallowed a DISABLE); any ioctl of "control" ends the
service of EE (`ControlIoctlEndsService`). `devices`: a read answers what was
written, whatever the neighbours in the register did (`ReadBack`); what the OK of a
DRH reset means (`HoldReported`); an OK of ExecStop is the answer of the PowerPC that
was just reset, except between a give-up and the next genuine answer, when the flag
of the PowerPC that was given up may be taken for it (`StopGenuine`); the EXI bus is on
after each end of ExecStop (`Settled`). `log`: threads that race to create the semaphore
each make one of their own, and there are never more of them inside, nor more logs in
one slot, than semaphores (`SlotsDistinct`); blocks are lost by one path only
(`BlocksAccounted`); `log_open` returns, unless the semaphore it waits for has been
replaced (`OpenReturns`). `boot`: the server starts only on a Latte with its GPIO entity,
and what it reports is the second reading and not the guess of `InitASICVersion`
(`ServesOnLatteOnly`); that the pins work is not required, and a board whose pins fail is
served as an EV_Y. `libc`: any sequence of copies, appends and clears leaves the
expected text and touches nothing else, the lengths returned are those after the cut, and
`strncmp` is the dictionary order that the entity list needs (`StringsSound`); one input is the CRC-32 of its bytes, two are
not (`CrcOfPieces`); delays are long enough and end (`DelayEndsInTime`). In the `eeprom`
run, what reads and writes promise follows from `Implements` and the `eeprom_store` run.
None of the promises of the EEPROM is about an operation that meets a chip still busy with
a write that timed out: it is ignored, an ENABLE or DISABLE is acknowledged all the same,
and a `bcGet` that reads status bits has only its CRC to tell.

Bounds, and why they are enough.

- Server: two clients (one served, one queued), a queue of one place (so that
  it fills), two descriptors (one kept while the other is freed and reused, and
  a full table), three entities registered out of order in a list of three. The
  entities have the shapes of the tables in `entities/`: one instance, several
  instances with their own tables, flat instances, INTERNAL attributes, direct
  and indirect data, a table without terminator, tables all of and partly of
  INIT_GLOBAL. Sixteen requests reach each return of each library function;
  descriptors range from -1 to one past the table. Clients are symmetric.
- EEPROM: two address bits and two data bits are the fewest that tell ERAL, EWEN
  and EWDS apart and show the order of the bits; two polls give a success at
  once, a success after waiting, and a time-out. GPIO may be missing.
- Store: two addresses, two words, all operations.
- Boot: every revision the decoders know and one unknown; the sizes around each
  field that matters and around the limits; versions around 2/3 and 3/4.

- EE: a `data[]` of five words (size at index 2, version at 3, vendor at 4), with
  images whose size is full, short and zero, and versions 0 and 1; the size is too large
  once the chip was erased; every
  method of the three attributes by ioctl and internally. The CRC is a parity.
- Devices: six boards, one for each branch of the methods; registers that come up
  all clear or all set; entities mixed as they share registers (`Mixes`). Four polls.
- Log: two threads, two slots, two heap blocks, two semaphores: each thread may create
  one. For more threads the counts of `SlotsDistinct` rest on the theorem.
- libc: a buffer of four bytes and strings of up to four characters, so that each is
  shorter, as long and longer than its room; a timer of
  eight ticks seen at least every second one. The CRC has its true width.

Deadlock is not checked for the server (it ends when start-up fails, and after
undefined behaviour), for boot (it is a sequence that ends), for `log`, where a panic
halts everything, and for `ee`, where a size of no words makes the CRC run over all
memory. It is checked for the other runs, whose callers can always call again.

Fairness. `FairSpec` of the server assumes weak fairness of the server thread
alone: it is the only thread of its process and its receive wakes up when there
is a message. Clients need not send and the kernel need not fail. `Eeprom`
assumes weak fairness of the thread that called the driver; nothing is assumed of
the chip, which may stay busy for ever. In that run the chip starts erased.
`LogLib` assumes that a thread that is in a call is scheduled and that the kernel
serves the waiters of a semaphore in turn (strong fairness of `Acquired`). `Delay`
assumes that the timer counts while the loop looks at it, and that a kernel timer fires.

## 4. Findings

1. No case of the ioctl switch breaks; every ioctl is answered NOEXISTS or
   INVALID (`bsp_main.c:119`, `IoctlNeverSucceeds`).
2. OPEN and CLOSE reply with a stale or uninitialised result
   (`bsp_main.c:182`, `ResultAssigned`).
3. A negative descriptor can pass the check (`bsp_main.c:98`, `FdChecked`).
4. `bspFindEntity` returns OK and NULL for a name after the last entity
   (`entity.c:30`, `UnknownNameAnswer`).
5. The initialisation of a whole entity does not advance past an attribute it
   skips, and is never answered (`entity.c:288`, `EmptyNameNeverAnswered`).
6. The CRC of the board configuration leaves `data[]` (`bc.c:63`,
   `CrcStaysInData`).

7. Every ioctl of EE "control" ends in SHUTDOWN, and `bcInit` does not open the driver
   again (`bsp_ee.c:105`, `bc.c:18`, `ControlIoctlEndsService`).
8. A DRH reset answers OK whichever of its steps failed (`bsp_ccrh.c:137`,
   `HoldReported`), as a comment there suspects.
9. The masks of the power and strength fields are narrower than the fields
    (`latte.h:9`, 21, `ReadBack`).
10. 60XeDataStreaming cannot be turned on again (`bsp_ppc.c:386`, `Settled`).
11. A print of an empty text keeps its heap block, and with the stub formatter every
    text is empty (`log.c:123`, `BlocksAccounted`).
12. `log_open` does not store the name, so that each open of a log takes a new slot
    (`log.c:74`, `SlotsDistinct`).
13. The CRC of two pieces is not that of the whole (`crc32.c:11`, `CrcOfPieces`). The
    callers here feed one piece.

Also seen, without a run: `bc.h:24` calls `devicePresence` "v4+ only" while
`bsp_sys.c:39` uses it above version 4; `bspPPCInstall` returns before it registers
anything, as `if (!ret) return ret` tests for success (`bsp_ppc.c:134`, 145); `strlcpy` and `strlcat` return the length after the
cut, so that a caller cannot notice it, and run away for a size of 0; `vprintf` returns
its `offset` and not `written`, and `_sprintf_buffer_flush` writes in front of a buffer of
size 0, once the formatter calls them.

The source is a reconstruction in progress, so these may be slips of the
reconstruction and not of the original.

## 5. Proofs

`BspServerProofs`, for any set of clients, any table and queue sizes, any list of
well-formed entities with different names and any set of messages:

- `TypeCorrect`. `SwitchStep` first shows that each case of the switch is one
  step of a single form (`CaseStep`), so that all later proofs treat the nine
  cases at once.
- `PermissionSafety`. `CallsPermitted` speaks of the tables as they are now and
  is not inductive; `CallInv` adds that nothing was called yet wherever a table
  can change, and that the switch is entered with an open descriptor or one outside
  the table. It rests on `PermissionCheckSound` (the masks grant only what the
  bits mean) and one lemma per `bspMethod*`.
- `InstallCorrect`, `LookupCorrect`, `UnknownNameCorrect`. `InstallInv`: the list
  is sorted, holds only what was installed, and all of it while no error was
  collected. With a sorted list `FindEntityComplete` and `FindEntityMiss` give
  what `bspFindEntity` answers.
- `ReplyCorrect`. `ReplyInv` adds that nobody is served while the server waits.
- `DescriptorSafety`: an action property, step by step; `HeapInv` is needed for
  the `memset` of the table at start-up.
- `FallThrough`. `FallInv` adds that the only way to a reply around the switch
  is CLOSE.
- `SoundCorrect`. `SoundInv` adds that the `memset` of CLOSE is reached only with a
  descriptor that passed the check, and `CallInv` says the same of the switch. That
  no case then loops or dereferences NULL is `SoundMethods`, over
  all five methods, and needs `LookupComplete`: the entity is found.
- `EmptyNameCorrect`. `EmptyInv`: such an ioctl never gets past the SHUTDOWN case,
  since there `EmptyNameDerefs` leaves no defined outcome, and it enters the switch
  no later than that (`EarlyCase`); the only other way to a reply is a descriptor
  that was refused.

`EepromStoreProofs`, for any addresses, words and operations: `StoreTypeCorrect`,
and `StoreInv`, which says that the chip programs only with the latch set
(`LatchInv`), what is known while an operation runs that found the chip idle
(`RunningInv`), and what is known after it returned (`AnsweredInv`). From it
`ReadCorrect`, `WriteCorrect`, `ControlCorrect`.

`EepromProofs`, for any widths of addresses (at least two bits) and words, any
operations and any limit on the polls:

- `InvCorrect`. `Inv` is `ChipInv` (the chip is selected exactly while it is in a mode,
  and listens to a command only when it is not programming) and `Place`: the driver
  rests, was refused, lowers the pins, is in the program of a command, polls, or ends
  the polling. In a program it is `Sending(q, r)`, `Reading(i, r)` or `Finishing(j)`, which say
  after each access what the chip has shifted in (`Heard`), what it still has to shift
  out (`Shown`) and what was sampled of it (`ReadOut`), or that it was busy and hears
  nothing, which only an operation that began with a busy chip can meet. TLC checked
  `Inv` on the instance of the `eeprom` run before it was proved.
- `ProgramPlaces` turns a program into its accesses by number, and one lemma per access
  (`SendLow` to `FinishAfter`) leads from each place to the next. The chip may end its
  programming between any two of them (`ChipDoneInv`).
- `TypeCorrect`, `IdleCorrect` from `Inv`; `Refinement`: the last clock of a READ and the fall
  of CS after any other command are the store's `Take` (`SendRead`, `Executed`), every other
  access leaves the store alone, and what the driver returns the store may return
  (`ReturnAllowed`).
- `DriverReads`, `DriverWrites`, `DriverControls`: with `EepromStoreProofs`
  the promises of the store hold at the pins.

`BspEEProofs`, for any EEPROM contents, requests, block size and CRC:

- `EntityCorrect`. `EntityInv` gives the structure the rest argues from: `calls` is
  an end of what the request runs, `script` an end of the script of its first
  method followed by the return, and while `bcGet` runs, `got` and `script` together
  have the length the size word asks for.
- `StoreRefined`: every step of the entity is a step of `EepromStore` or leaves the
  store alone. All invariants of `EepromStoreProofs` then hold below the entity
  and are used as `BaseInv`.
- `TypeCorrect`: from `BaseInv`; the bound on `got` is the check of `bcGet` against its
  array.
- `UnaidedCorrect`, an action property. The latch may well be set by an ioctl, so
  `EnableInv` follows it: while it is (`Armed`), that same control ioctl is still
  running, the chip is idle, and the DISABLE of the INIT it falls into is still to
  come and cannot fail (`DisableToCome`).
- `ServiceCorrect`. `LostInv` adds where the driver may be open after all (inside an
  INIT), and that a `bcGet` then has no word.
- `GenuineCorrect`. `GenuineInv` adds what was read so far (`ReadSoFar`), that the chip
  is idle, and what an accepted configuration consists of (`Answered`).

`BspBootProofs`, for any bytes in the revision registers and any words in the EEPROM.
The runs enumerate those at which the code branches, the theorems are about all of
them. `BootInv` has four parts: the ranges of the numbers (`Shapes`), what is known of
the board without an error so far (`Recognised`), what the version cache holds at
each place (`Filled`), and that nothing of a refused configuration is left
(`Accepted`). From it `TypeCorrect`, `LatteCorrect`, `VariantCorrect`, `ClockCorrect`; and
`MaskCorrect` over `ConsoleAgrees`, a fact about the two functions alone.

`BspPPCProofs`, for any boards, any reset values and any number of polls:
`TypeCorrect`; `ReadBackCorrect` and `HoldCorrect` (inductive as they stand, given the
types; the first is where entities share a register); and `PPCInv` for
`StopCorrect` and `SettledCorrect`. `StopGenuine` is about the answer alone; `FlagInv` adds
who raised X2 and that no PowerPC still to answer runs between methods. The give-up of
`bspPPCExecStop` breaks this (`gaveUp` becomes "pending"), and the first genuine answer
after it restores it.

`LogLibProofs`, for any finite number of threads, slots and blocks: `TypeCorrect`;
`ExclusionCorrect`, that the threads inside and the semaphores that would let one in are
together no more than the semaphores created, although a thread may signal another one
than it took; from it `TableInv`, which counts for each slot its logs and the threads about
to take it, and `SlotsCorrect`; and `BlocksCorrect`, which needs no exclusion.

`LibcProofs`, for any buffer size, strings, messages, timer width and frequency. What a
loop computes for every input is an induction over data; it is done here with a least
counterexample (`LeastNumber`: a non-empty set of numbers has a least one, since `<` is
well-founded), once over the powers of x, once over the places where `strncmp` may stop, and
otherwise by the invariant of a specification that makes one step per byte or character.

- `CrcCorrect`. `CrcOf` divides polynomials over GF(2): `PowerModP` is the recursion for
  x^k modulo P, which exists and is unique (`PowersExist`, `PowersUnique`, `PowerModPDef`), and
  `Modulo` adds the powers modulo 2, by the parity of a cardinality. From the parity of a
  symmetric difference (`OddXor`) the remainder is linear (`ModuloXor`) and multiplication by
  x commutes with it (`ModuloRaised`). `Round` is that multiplication, reflected
  (`RoundReflects`), so one more bit of the message is one more round (`RegisterNext`), and
  the code's way through a byte, rounds on the low byte first and the upper bits added
  after, is the same as eight single bits (`BitFed`, `NextStateFeeds`). `CrcInv` says which
  prefix of the message the state is the register of. For two pieces it says that the state
  differs from the register, and keeps differing, since a step by a byte is injective
  (`NextStateInjective`): the second call really never gives the CRC of the whole.
- `StringsCorrect`. `StrInv` says which bytes the text is stored in and that it is shorter than
  the buffer. `StrLCpyStores`, `CopyStores` and `AppendStores` say what the copies leave for every
  room and what they return, `StrNCmpOrders` that `strncmp` of two stored texts is the dictionary
  order of their first n characters.
- `DelayCorrect`: `DelayOnTime`, the safe half of `DelayEndsInTime`. `DelayInv` adds that the timer
  is `start + elapsed`, wrapped at most once, while a delay runs, and `TicksEnough` that
  `usec_to_timer_ticks` never rounds a delay that fits in a word below what was asked.

Assumptions on constants are named in the modules and evaluated by TLC in the
runs: `HandlerRvalsAssumption`, `ConstantsAssumption`, `StoreAssumption`,
`WidthAssumption` and `DriverAssumption` (the widths; the operations of `Eeprom`), `EEAssumption`
(the block of the board configuration lies in the EEPROM and holds the fields that
are used; the words are numbers), `BootAssumption` (registers are bytes, words are
`u16`), `DevicesAssumption`, `PPCAssumption` (at least one poll), the finitely many
threads of `LogLib`, `StringAssumption` (a buffer of at least one byte, characters
that are not 0), `CrcAssumption` (pieces of bytes), and `DelayAssumption` (the timer is looked at
more than once in a wrap; the bound on the ticks observed is no less than a wrap). That a marker such as `None` or `NoOp` is no word or operation is
part of them.

Only model-checked: liveness under fairness (`EventuallyAnswered`, `EveryOpReturns`, `OpenReturns`,
`DelayEndsInTime`), which is beyond the prover, and the three violations of section 3. Every
invariant, action property and refinement that a passing run checks is also a theorem.

## 6. Not modelled

Of PPC: `bspPPC_Clock`, `bspPPC_EXIRegBoot`, `bspPPCSetPVR` and `bspPPCExecStopLatte` are
named but not in the repository. Of SI: `bspSI_Subsystem_init`, which is unfinished.
Of SYS: the reads of a constant or of a configuration field. Of CCRH: the summary
flag, and `bspCCRH_Reset_init`, which passes an integer where a pointer is expected. Of
GPIO: `bspGPIO_IOStrength_init`, unfinished. Of `string.c`: the functions that only search
(`strlen`, `strcmp`, `memcmp`, `strchr`, `strspn`, `strcspn`), none of which is called. Of
`sprintf.c`: the two output contexts and `printf`, since `_sprintf_cb` is an empty stub that
calls neither `add` nor `flush`. Of the log: the texts. `syscalls.s` is trampolines into a kernel that is not here.
`usb_main.c` is a fragment whose callees are empty files, and `ios_acp`, `ios_auxil`,
`ios_crypto`, `ios_fpd`, `ios_fs`, `ios_mcp`, `ios_net`, `ios_nim_boss`, `ios_nsec`, `ios_pad` and
`ios_test` are empty.

## 7. Plan

Done, in this order: `BspEntity`, `BspServer`, `EepromStore`, `Eeprom`, `BspBoot`, the
proofs of the server and of the store, `BspEE`, `BspDevices`, `BspPPC`, `LogLib`, `CString`,
`Crc32`, `Delay`. All their invariants, action properties and refinements are proved as well.
Left: a composition of `BspBoot` with `BspEE`, so that the words the boot reads come from the
chip and not from a set.
