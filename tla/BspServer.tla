----------------------------- MODULE BspServer -----------------------------
(***************************************************************************)
(* The /dev/bsp resource manager (ios_bsp/bsp_main.c): start-up, the       *)
(* installation of the entities, and the loop that receives a message,     *)
(* dispatches it and replies.                                              *)
(*                                                                         *)
(* There is one server thread and any number of client threads.  A client  *)
(* is blocked from its send until IOS_ResourceReply; the kernel queues the *)
(* messages.  pc names the server's place in main(); in the ioctl switch   *)
(* it is the next case.                                                    *)
(***************************************************************************)
EXTENDS BspEntity, Integers, Functions

CONSTANTS Clients,      \* client threads
          NumFds,       \* slots of bsp_fdtable (0x20 in the code)
          QueueLen,     \* capacity of devbsp_msgqueue (0x40 in the code)
          MaxEntities,  \* capacity of bspEntityList (32 in the code)
          Installs,     \* the entities registered by bspInstall, in its order
          Messages,     \* the message bodies clients send
          NoClient

IOS_ERROR_INVALID  == {"IOS_ERROR_INVALID"}
IOS_ERROR_NOEXISTS == {"IOS_ERROR_NOEXISTS"}
Garbage            == {"uninitialised"}   \* what an unset variable may hold
Results == BSP_RVAL \cup {IOS_ERROR_INVALID, IOS_ERROR_NOEXISTS, Garbage}

Fds  == 0 .. NumFds - 1
Slot == [active : BOOLEAN, permissions : Permissions]
FreeSlot == [active |-> FALSE, permissions |-> {}]

(* BSP_IOCTL_METHOD, and the fields of a message that main() looks at *)
Args    == [entityName : Nat, instance : Nat, attributeName : Nat, size : Nat]
Message == [command : {"OPEN", "CLOSE", "IOCTL", "OTHER"}, clientFD : Int,
            arg0 : Nat, args : Args, arg4 : Permissions]

ASSUME ConstantsAssumption ==
    /\ NumFds \in Nat \ {0}
    /\ QueueLen \in Nat
    /\ MaxEntities \in Nat
    /\ Installs \in Seq(Entity)
    /\ \A i \in DOMAIN Installs : WellFormed(Installs[i])
    /\ \A i, j \in DOMAIN Installs :
          Installs[i].pName = Installs[j].pName => i = j
    /\ Messages \subseteq Message
    /\ NoClient \notin Clients

VARIABLES
    pc,             \* where main() is
    queue,          \* devbsp_msgqueue: the clients whose messages wait
    cstate,         \* each client "idle" or "waiting" for its reply
    client,         \* who sent the message being handled
    msg,            \* its body, meaningful while client # NoClient
    bsp_fdtable,    \* the table of open descriptors
    result,         \* declared outside the loop, never initialised
    assigned,       \* history: result was assigned for this message
    calls,          \* history: driver methods called for this message
    bspEntityList,  \* the registered entities
    installed,      \* how many *Install calls bspInstall has made
    ret             \* the OR of what they returned

vars == <<pc, queue, cstate, client, msg, bsp_fdtable, result, assigned,
          calls, bspEntityList, installed, ret>>
clients == <<queue, cstate>>
message == <<client, msg>>
answer  == <<result, assigned, calls>>
install == <<bspEntityList, installed, ret>>

StartLabels == {"CreateHeap", "CreateQueue", "Register", "Associate",
                "Install", "SetReady"}
CaseLabels  == {"GET_ENTITY_VERSION", "GET_HARDWARE_VERSION",
                "GET_CONSOLE_MASK", "QUERY", "READ", "WRITE", "INIT",
                "SHUTDOWN", "GET_CONSOLE_TYPE", "default"}
EndLabels   == {"Returned", "Panicked", "Undefined", "Hung"}
LoopLabels  == {"Receive", "Dispatch", "Free", "Reply"} \cup CaseLabels
Labels == StartLabels \cup LoopLabels \cup EndLabels \cup {"ReportErr"}

NoMessage == [command |-> "OTHER", clientFD |-> 0, arg0 |-> 0,
              args |-> [entityName |-> 0, instance |-> 0,
                        attributeName |-> EmptyName, size |-> 0],
              arg4 |-> {}]

Init ==
    /\ pc = "CreateHeap"
    /\ queue = << >>
    /\ cstate = [c \in Clients |-> "idle"]
    /\ client = NoClient
    /\ msg = NoMessage
    /\ bsp_fdtable = [fd \in Fds |-> FreeSlot]
    /\ result = Garbage
    /\ assigned = FALSE
    /\ calls = {}
    /\ bspEntityList = << >>
    /\ installed = 0
    /\ ret = BSP_RVAL_OK

----------------------------------------------------------------------------
(* The clients and the kernel's queue.  /dev/bsp exists once it is          *)
(* registered; a full queue makes the client wait (external).               *)
Send(c) ==
    /\ pc \notin {"CreateHeap", "CreateQueue", "Register"} \cup EndLabels
    /\ cstate[c] = "idle"
    /\ Len(queue) < QueueLen
    /\ queue' = Append(queue, c)
    /\ cstate' = [cstate EXCEPT ![c] = "waiting"]
    /\ UNCHANGED <<pc, message, bsp_fdtable, answer, install>>

----------------------------------------------------------------------------
(* Start-up.  The three kernel calls between the heap and bspInstall go to *)
(* report_err when they fail; a heap that cannot be created ends main().   *)
CreateHeap ==
    /\ pc = "CreateHeap"
    /\ \/ pc' = "CreateQueue" /\ bsp_fdtable' = [fd \in Fds |-> FreeSlot]
       \/ pc' = "Returned" /\ UNCHANGED bsp_fdtable
    /\ UNCHANGED <<clients, message, answer, install>>

KernelCall(here, next) ==
    /\ pc = here
    /\ pc' \in {next, "ReportErr"}
    /\ UNCHANGED <<clients, message, bsp_fdtable, answer, install>>

CreateMessageQueue      == KernelCall("CreateQueue", "Register")
RegisterResourceManager == KernelCall("Register", "Associate")
DeviceAssociate         == KernelCall("Associate", "Install")

(* bspRegisterEntity is not in this repository.  bspFindEntity scans a list *)
(* of bounded size that it takes to be sorted by name, so it is modelled as *)
(* an insertion at the sorted place that fails on a full list.              *)
SortedPlace(list, p, e) ==
    /\ \A i \in 1 .. p : list[i].pName < e.pName
    /\ \A i \in p + 1 .. Len(list) : e.pName < list[i].pName

InsertAfter(list, p, e) ==
    [i \in 1 .. Len(list) + 1 |->
        IF i <= p THEN list[i] ELSE IF i = p + 1 THEN e ELSE list[i - 1]]

RegisterEntity(e) ==
    \/ /\ Len(bspEntityList) < MaxEntities
       /\ \E p \in 0 .. Len(bspEntityList) :
             /\ SortedPlace(bspEntityList, p, e)
             /\ bspEntityList' = InsertAfter(bspEntityList, p, e)
       /\ UNCHANGED ret
    \/ /\ Len(bspEntityList) >= MaxEntities
       /\ ret' = ret \cup {"ENTITY_LIST_FULL"}
       /\ UNCHANGED bspEntityList

(* One `ret |= bsp*Install()': the entity is registered, or the hardware   *)
(* is not the one it needs.  (As compiled, bspInstall makes one such call, *)
(* of bspGPIOInstall in bspInitEssential; the others are commented out.)   *)
InstallNext ==
    /\ pc = "Install"
    /\ installed < Len(Installs)
    /\ \/ RegisterEntity(Installs[installed + 1])
       \/ /\ ret' = ret \cup {"UNKNOWN_HARDWARE_VERSION"}
          /\ UNCHANGED bspEntityList
    /\ installed' = installed + 1
    /\ UNCHANGED <<pc, clients, message, bsp_fdtable, answer>>

InstallDone ==
    /\ pc = "Install"
    /\ installed = Len(Installs)
    /\ pc' = IF ret # BSP_RVAL_OK THEN "ReportErr" ELSE "SetReady"
    /\ UNCHANGED <<clients, message, bsp_fdtable, answer, install>>

SetBSPReady ==
    /\ pc = "SetReady"
    /\ pc' = "Receive"
    /\ UNCHANGED <<clients, message, bsp_fdtable, answer, install>>

----------------------------------------------------------------------------
(* The message loop. *)
PeekMessage ==   \* mutant: the message stays in the queue
    /\ pc = "Receive"
    /\ queue # << >>
    /\ client' = Head(queue)
    /\ msg' \in Messages
    /\ assigned' = FALSE
    /\ calls' = {}
    /\ pc' = "Dispatch"
    /\ UNCHANGED <<clients, bsp_fdtable, result, install>>

ReceiveMessage ==
    /\ pc = "Receive"
    /\ queue # << >>
    /\ client' = Head(queue)
    /\ queue' = Tail(queue)
    /\ msg' \in Messages
    /\ assigned' = FALSE
    /\ calls' = {}
    /\ pc' = "Dispatch"
    /\ UNCHANGED <<cstate, bsp_fdtable, result, install>>

ReceiveError ==
    /\ pc = "Receive"
    /\ pc' = "ReportErr"
    /\ UNCHANGED <<clients, message, bsp_fdtable, answer, install>>

(* result = r; goto next *)
SetResult(r, next) ==
    /\ result' = r
    /\ assigned' = TRUE
    /\ pc' = next

(* `fd > 0x1F || !bsp_fdtable[fd].active': for a negative fd the second     *)
(* operand reads memory before the table, which may hold anything.          *)
FdRejected(fd) == fd > NumFds - 1 \/ (fd \in Fds /\ ~bsp_fdtable[fd].active)
FdAccepted(fd) == fd \in Fds /\ bsp_fdtable[fd].active
FdOutside(fd)  == fd < 0

CaseOf(arg0) ==
    CASE arg0 = 1 -> "GET_ENTITY_VERSION" [] arg0 = 2 -> "GET_HARDWARE_VERSION"
      [] arg0 = 3 -> "GET_CONSOLE_MASK"   [] arg0 = 4 -> "QUERY"
      [] arg0 = 5 -> "READ"               [] arg0 = 6 -> "WRITE"
      [] arg0 = 7 -> "INIT"               [] arg0 = 8 -> "SHUTDOWN"
      [] arg0 = 9 -> "GET_CONSOLE_TYPE"   [] OTHER -> "default"

(* The check that CLOSE and IOCTL share, and where they go when it passes. *)
CheckFd(command, next) ==
    /\ pc = "Dispatch"
    /\ msg.command = command
    /\ \/ /\ FdRejected(msg.clientFD) \/ FdOutside(msg.clientFD)
          /\ SetResult(IOS_ERROR_NOEXISTS, "Reply")
       \/ /\ FdAccepted(msg.clientFD) \/ FdOutside(msg.clientFD)
          /\ pc' = next
          /\ UNCHANGED <<result, assigned>>
    /\ UNCHANGED <<clients, message, bsp_fdtable, calls, install>>

Close == CheckFd("CLOSE", "Free")
Ioctl == CheckFd("IOCTL", CaseOf(msg.arg0))

(* memset(&bsp_fdtable[fd], 0, ...); result keeps its old value. *)
FreeFd ==
    /\ pc = "Free"
    /\ IF msg.clientFD \in Fds
         THEN /\ bsp_fdtable' = [bsp_fdtable EXCEPT ![msg.clientFD] = FreeSlot]
              /\ pc' = "Reply"
         ELSE /\ pc' = "Undefined"
              /\ UNCHANGED bsp_fdtable
    /\ UNCHANGED <<clients, message, answer, install>>

(* The first unused slot; a full table changes nothing.  Neither way is    *)
(* result assigned.                                                        *)
AnyIdleSlot(fd) ==   \* mutant: slots in use are not skipped
    \A other \in Fds : other < fd => ~bsp_fdtable[other].active

FirstFree(fd) ==
    /\ ~bsp_fdtable[fd].active
    /\ \A other \in Fds : other < fd => bsp_fdtable[other].active

Allocated(fd, perms) ==
    [bsp_fdtable EXCEPT ![fd] = [active |-> TRUE, permissions |-> perms]]

OpenFd ==
    /\ pc = "Dispatch"
    /\ msg.command = "OPEN"
    /\ \E fd \in Fds : FirstFree(fd) /\ bsp_fdtable' = Allocated(fd, msg.arg4)
    /\ pc' = "Reply"
    /\ UNCHANGED <<clients, message, answer, install>>

OpenFullPastEnd ==   \* mutant: fd <= 0x20
    /\ pc = "Dispatch"
    /\ msg.command = "OPEN"
    /\ \A fd \in Fds : bsp_fdtable[fd].active
    /\ bsp_fdtable' = [fd \in 0 .. NumFds |->
          IF fd \in Fds THEN bsp_fdtable[fd]
                       ELSE [active |-> TRUE, permissions |-> msg.arg4]]
    /\ pc' = "Reply"
    /\ UNCHANGED <<clients, message, answer, install>>

OpenFull ==
    /\ pc = "Dispatch"
    /\ msg.command = "OPEN"
    /\ \A fd \in Fds : bsp_fdtable[fd].active
    /\ pc' = "Reply"
    /\ UNCHANGED <<clients, message, bsp_fdtable, answer, install>>

OtherCommandUnanswered ==   \* mutant: `continue' instead of `goto reply'
    /\ pc = "Dispatch"
    /\ msg.command = "OTHER"
    /\ SetResult(IOS_ERROR_INVALID, "Receive")
    /\ UNCHANGED <<clients, message, bsp_fdtable, calls, install>>

OtherCommand ==
    /\ pc = "Dispatch"
    /\ msg.command = "OTHER"
    /\ SetResult(IOS_ERROR_INVALID, "Reply")
    /\ UNCHANGED <<clients, message, bsp_fdtable, calls, install>>

----------------------------------------------------------------------------
(* The ioctl switch.  No case has a break, so each falls through to the    *)
(* next one and the last to default.                                       *)

(* A case that calls the library: `result = bspMethod...(...)'. *)
LibraryCase(here, next, out) ==
    /\ pc = here
    /\ \/ /\ out.status = "done"
          /\ \E r \in out.rvals : SetResult(r, next)
       \/ /\ out.status # "done"
          /\ pc' = IF out.status = "hung" THEN "Hung" ELSE "Undefined"
          /\ UNCHANGED <<result, assigned>>
    /\ calls' = calls \cup out.calls
    /\ UNCHANGED <<clients, message, bsp_fdtable, install>>

(* A case that first checks args->size. *)
SizedCase(here, next, out) ==
    LibraryCase(here, next,
                IF msg.args.size # 4 THEN Returns({"SPECIFIED_SIZE_INVALID"})
                                     ELSE out)

(* A case that passes bsp_fdtable[fd].permissions. *)
MethodCase(here, next, Method(_, _, _)) ==
    LibraryCase(here, next,
                IF msg.clientFD \in Fds
                  THEN Method(bspEntityList, msg.args,
                              bsp_fdtable[msg.clientFD].permissions)
                  ELSE DerefsNull)

GetEntityVersionCase ==
    SizedCase("GET_ENTITY_VERSION", "GET_HARDWARE_VERSION",
              GetEntityVersion(bspEntityList, msg.args.entityName))

(* After bspInstall succeeded bspHardwareVersion is set and is returned. *)
GetHardwareVersionCase ==
    SizedCase("GET_HARDWARE_VERSION", "GET_CONSOLE_MASK", Returns(BSP_RVAL_OK))

(* bspGetConsoleMask and bspGetConsoleType fail without a board config. *)
ConsoleRvals == {BSP_RVAL_OK, {"BOARD_CONFIG_INVALID"}}
GetConsoleMaskCase ==
    SizedCase("GET_CONSOLE_MASK", "QUERY", Calls(ConsoleRvals, {}))

QueryCase    == MethodCase("QUERY", "READ", MethodQuery)
ReadCase     == MethodCase("READ", "WRITE", MethodRead)
WriteCase    == MethodCase("WRITE", "INIT", MethodWrite)
InitCaseBreaks == MethodCase("INIT", "Reply", MethodInit)   \* mutant: a break
InitCase     == MethodCase("INIT", "SHUTDOWN", MethodInit)
ShutdownCaseBreaks ==   \* mutant: a break
    MethodCase("SHUTDOWN", "Reply", MethodShutdown)
ShutdownCase == MethodCase("SHUTDOWN", "GET_CONSOLE_TYPE", MethodShutdown)

GetConsoleTypeCase ==
    SizedCase("GET_CONSOLE_TYPE", "default", Calls(ConsoleRvals, {}))

DefaultCase ==
    /\ pc = "default"
    /\ SetResult(IOS_ERROR_INVALID, "Reply")
    /\ UNCHANGED <<clients, message, bsp_fdtable, calls, install>>

----------------------------------------------------------------------------
(* IOS_ResourceReply, and back to the top of the loop. *)
ResourceReply ==
    /\ pc = "Reply"
    /\ cstate' = [cstate EXCEPT ![client] = "idle"]
    /\ client' = NoClient
    /\ msg' = NoMessage
    /\ calls' = {}
    /\ pc' = "Receive"
    /\ UNCHANGED <<queue, bsp_fdtable, result, assigned, install>>

(* log_fatal does not return: it ends in IOS_Panic. *)
ReportErr ==
    /\ pc = "ReportErr"
    /\ pc' = "Panicked"
    /\ UNCHANGED <<clients, message, bsp_fdtable, answer, install>>

Startup  == \/ CreateHeap \/ CreateMessageQueue \/ RegisterResourceManager
            \/ DeviceAssociate \/ InstallNext \/ InstallDone \/ SetBSPReady
Dispatch == Close \/ FreeFd \/ Ioctl \/ OpenFd \/ OpenFull \/ OtherCommand
Switch   == \/ GetEntityVersionCase \/ GetHardwareVersionCase
            \/ GetConsoleMaskCase \/ QueryCase \/ ReadCase \/ WriteCase
            \/ InitCase \/ ShutdownCase \/ GetConsoleTypeCase \/ DefaultCase
Server   == \/ Startup \/ ReceiveMessage \/ Dispatch \/ Switch
            \/ ResourceReply \/ ReportErr

Next == Server \/ ReceiveError \/ \E c \in Clients : Send(c)
Spec == Init /\ [][Next]_vars

(* The server thread runs whenever it can (it is the only thread of its    *)
(* process and IOS_ReceiveMessage wakes it); nothing obliges a client to   *)
(* send or the kernel to fail.                                             *)
FairSpec == Spec /\ WF_vars(Server)

----------------------------------------------------------------------------
(* Type invariant: the variables of main() and its two tables keep their   *)
(* shapes; the list never outgrows bspEntityList[].                        *)
TypeOK ==
    /\ pc \in Labels
    /\ queue \in Seq(Clients)
    /\ cstate \in [Clients -> {"idle", "waiting"}]
    /\ client \in Clients \cup {NoClient}
    /\ msg \in Message
    /\ bsp_fdtable \in [Fds -> Slot]
    /\ result \in Results
    /\ assigned \in BOOLEAN
    /\ bspEntityList \in Seq(Entity) /\ Len(bspEntityList) <= MaxEntities
    /\ installed \in 0 .. Len(Installs)
    /\ ret \in BSP_RVAL

(* Although every ioctl falls through to the cases below its own, a method *)
(* of a named attribute is called only for a descriptor whose credentials  *)
(* allow that very method (main's switch, bspFindAttribute).               *)
CallsPermitted ==
    \A c \in calls :
        c.named =>
          /\ FdAccepted(msg.clientFD)
          /\ MayCall(bsp_fdtable[msg.clientFD].permissions,
                     TableOf(bspEntityList[c.pE], c.instance).attrs[c.pA],
                     c.method)

Installed(name) == \E i \in DOMAIN Installs : Installs[i].pName = name

(* The server answers requests only when every install succeeded (the      *)
(* errors are ORed), and then bspFindEntity's early exit hides none of the *)
(* entities, in whatever order bspInstall registered them.                 *)
LookupComplete ==
    pc \in LoopLabels =>
        \A i \in DOMAIN Installs :
            LET fe == FindEntity(bspEntityList, Installs[i].pName)
            IN  /\ fe.pE # NULL
                /\ fe.rval = BSP_RVAL_OK
                /\ bspEntityList[fe.pE] = Installs[i]

(* A name that no entity has is never found, but bspFindEntity reports it  *)
(* only when the name sorts before some registered entity; after all of    *)
(* them it returns OK with a NULL entity.                                  *)
UnknownNameAnswer ==
    LET name == msg.args.entityName
        fe   == FindEntity(bspEntityList, name)
    IN  pc \in LoopLabels /\ ~Installed(name) =>
          /\ fe.pE = NULL
          /\ fe.rval = BSP_RVAL_OK <=>
               /\ bspEntityList # << >>
               /\ \A i \in DOMAIN bspEntityList :
                     bspEntityList[i].pName < name

(* The clients that wait for a reply are exactly those in the queue and    *)
(* the one being served, each once: no request is lost, answered twice or  *)
(* answered to somebody else (IOS_ReceiveMessage ... IOS_ResourceReply).   *)
OneReplyPerRequest ==
    /\ IsInjective(queue)
    /\ client \notin Range(queue)
    /\ {c \in Clients : cstate[c] = "waiting"} =
          Range(queue) \cup ({client} \ {NoClient})
    /\ pc \in LoopLabels \ {"Receive"} => client # NoClient

(* An open descriptor keeps its permissions until a CLOSE names it: no     *)
(* OPEN takes its slot and no ioctl changes it (bsp_fdtable).              *)
DescriptorKept ==
    [][\A fd \in Fds :
          bsp_fdtable[fd].active =>
            \/ bsp_fdtable'[fd] = bsp_fdtable[fd]
            \/ pc = "Free" /\ msg.clientFD = fd /\ ~bsp_fdtable'[fd].active
      ]_vars

(* The missing breaks: whatever the library returned, an ioctl is answered *)
(* NOEXISTS or INVALID, never with OK or a BSP error.                      *)
IoctlNeverSucceeds ==
    pc = "Reply" /\ msg.command = "IOCTL" =>
        result \in {IOS_ERROR_NOEXISTS, IOS_ERROR_INVALID}

(* A request with a descriptor in range, for a named attribute of a        *)
(* registered entity whose tables end in NULL.                             *)
SoundRequest(m) ==
    /\ m.clientFD >= 0
    /\ m.args.attributeName # EmptyName
    /\ \E i \in DOMAIN Installs :
          /\ Installs[i].pName = m.args.entityName
          /\ \A j \in DOMAIN Installs[i].pAttributes :
                Installs[i].pAttributes[j].terminated

(* Such a request never makes the server loop for ever, dereference NULL   *)
(* or leave a table, through all the cases it falls into.                  *)
SoundRequestsSurvive == pc \in {"Undefined", "Hung"} => ~SoundRequest(msg)

(* An ioctl of one of the cases up to SHUTDOWN that leaves the attribute   *)
(* name of an existing instance empty (the "special case" of bspMethodInit)*)
(* is never answered: INIT stays in its loop, or SHUTDOWN and the others   *)
(* dereference the NULL attribute.                                         *)
EmptyNameNeverAnswered ==
    /\ pc = "Reply" /\ msg.command = "IOCTL" /\ msg.arg0 \in 1..8
    /\ FdAccepted(msg.clientFD)
    /\ msg.args.attributeName = EmptyName
    => ~ \E i \in DOMAIN Installs :
           /\ Installs[i].pName = msg.args.entityName
           /\ msg.args.instance < Installs[i].instanceCount

(* A waiting client gets its reply, unless the server ends: by a failure   *)
(* that main reports, or by a request that leaves defined behaviour.       *)
EventuallyAnswered ==
    \A c \in Clients :
        cstate[c] = "waiting" ~> (cstate[c] = "idle" \/ pc \in EndLabels)

----------------------------------------------------------------------------
(* "Result gets set to *something* here" (bsp_main.c:182): every reply     *)
(* carries a result assigned for that message.                             *)
ResultAssigned == pc = "Reply" => assigned

(* "Grab client fd, check it's valid/active" (bsp_main.c:96): past the     *)
(* check, the descriptor indexes bsp_fdtable.                              *)
FdChecked == pc \in {"Free"} \cup CaseLabels => msg.clientFD \in Fds
============================================================================
