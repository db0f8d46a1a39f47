------------------------------- MODULE LogLib -------------------------------
(***************************************************************************)
(* The log library (libraries/log/log.c): log_open with its table of slots *)
(* and the semaphore that the first caller creates, log_print_syslog with  *)
(* its heap block, and log_fatal, which prints and ends in IOS_Panic.  The *)
(* threads of a process share all of it; one may be preempted between any  *)
(* two system calls, and between finding a slot and taking it.             *)
(* The formatter behind vsnprintf is an empty stub: every text has length  *)
(* 0.  Lengths also holds lengths that a finished formatter would return.  *)
(***************************************************************************)
EXTENDS Integers, Sequences, FiniteSets

CONSTANTS Threads,
          Slots,       \* the indices of log_fds
          Names,       \* the names that logs are opened with; "" is the empty one
          MaxSems,     \* semaphores the kernel has left for this process
          HeapBlocks,  \* blocks of 0x120 bytes that fit in the heap
          Lengths      \* what vsnprintf may return

ASSUME LogAssumption ==
    /\ Slots \subseteq Nat /\ IsFiniteSet(Slots) /\ IsFiniteSet(Threads)
    /\ MaxSems \in Nat /\ HeapBlocks \in Nat /\ Lengths \subseteq Int

VARIABLES
    log_mutex,          \* the number of the semaphore, or -1
    sems,               \* the counts of the semaphores created so far
    active,             \* the active slots of log_fds
    active_log_fds,
    opened,             \* how often each slot was returned for a new log
    log_syslog_handle,  \* of /dev/syslog, or -1
    used,               \* heap blocks allocated
    lost,               \* error returns that kept their block
    panicked,
    thread              \* per thread, the locals of the function it is in

openVars == <<log_mutex, sems, active, active_log_fds, opened>>
printVars == <<log_syslog_handle, used, lost>>
vars == <<openVars, printVars, panicked, thread>>

Idle == [pc |-> "idle", name |-> "", sem |-> -1, ndx |-> -1,
         found |-> FALSE, fatal |-> FALSE]

Init ==
    /\ log_mutex = -1 /\ sems = <<>>
    /\ active = {} /\ active_log_fds = 0 /\ opened = [s \in Slots |-> 0]
    /\ log_syslog_handle = -1 /\ used = 0 /\ lost = 0
    /\ panicked = FALSE
    /\ thread = [t \in Threads |-> Idle]

At(t, l) == thread[t].pc = l
Goto(t, l) == thread' = [thread EXCEPT ![t].pc = l]
Return(t) == thread' = [thread EXCEPT ![t] = Idle]

----------------------------------------------------------------------------
(* log_open *)
LogOpen(t, n) ==
    /\ At(t, "idle")
    /\ thread' = [thread EXCEPT ![t].name = n,
                      ![t].pc = IF log_mutex < 0 THEN "create" ELSE "wait"]
    /\ UNCHANGED <<openVars, printVars, panicked>>

(* The result overwrites what another thread created in the meantime. *)
CreateSemaphore(t) ==
    /\ At(t, "create")
    /\ \/ /\ Len(sems) < MaxSems
          /\ sems' = Append(sems, 1)
          /\ log_mutex' = Len(sems')
          /\ Goto(t, "wait")
       \/ /\ log_mutex' = -1
          /\ Return(t)
          /\ UNCHANGED sems
    /\ UNCHANGED <<active, active_log_fds, opened, printVars, panicked>>

(* IOS_WaitSemaphore is called with the log_mutex of that moment. *)
WaitSemaphore(t) ==
    /\ At(t, "wait")
    /\ IF log_mutex < 0
         THEN Return(t)
         ELSE thread' = [thread EXCEPT ![t].sem = log_mutex, ![t].pc = "waiting"]
    /\ UNCHANGED <<openVars, printVars, panicked>>

AcquiredAnyway(t) ==   \* mutant: the semaphore is polled, its result ignored
    /\ At(t, "waiting")
    /\ Goto(t, "scan")
    /\ UNCHANGED <<openVars, printVars, panicked>>
Acquired(t) ==
    /\ At(t, "waiting")
    /\ sems[thread[t].sem] > 0
    /\ sems' = [sems EXCEPT ![thread[t].sem] = @ - 1]
    /\ Goto(t, "scan")
    /\ UNCHANGED <<log_mutex, active, active_log_fds, opened, printVars, panicked>>

(* The slots are scanned upwards for an active one with this name, keeping *)
(* the first inactive one.  No slot is ever given a name, so that only the *)
(* empty name is found.                                                    *)
Lowest(S) == CHOOSE i \in S : \A j \in S : i <= j
Found(n) == n = "" /\ active # {}
Slot(n) == IF Found(n) THEN Lowest(active)
           ELSE IF Slots \subseteq active THEN -1 ELSE Lowest(Slots \ active)

Scan(t) ==
    /\ At(t, "scan")
    /\ LET n == thread[t].name IN
       thread' = [thread EXCEPT ![t].ndx = Slot(n), ![t].found = Found(n),
                      ![t].pc = IF Slot(n) = -1 THEN "signal" ELSE "take"]
    /\ UNCHANGED <<openVars, printVars, panicked>>

TakeSlot(t) ==
    /\ At(t, "take")
    /\ IF thread[t].found
         THEN UNCHANGED <<active, active_log_fds, opened>>
         ELSE /\ active' = active \cup {thread[t].ndx}
              /\ active_log_fds' = active_log_fds + 1
              /\ opened' = [opened EXCEPT ![thread[t].ndx] = @ + 1]
    /\ Goto(t, "signal")
    /\ UNCHANGED <<log_mutex, sems, printVars, panicked>>

(* Signals the log_mutex of this moment, not the semaphore waited for. *)
SignalSemaphoreOnSuccess(t) ==   \* mutant: not signalled when the table is full
    /\ At(t, "signal")
    /\ sems' = IF log_mutex < 0 \/ thread[t].ndx = -1 THEN sems
               ELSE [sems EXCEPT ![log_mutex] = 1]
    /\ Return(t)
    /\ UNCHANGED <<log_mutex, active, active_log_fds, opened, printVars, panicked>>
SignalSemaphore(t) ==
    /\ At(t, "signal")
    /\ sems' = IF log_mutex < 0 THEN sems ELSE [sems EXCEPT ![log_mutex] = 1]
    /\ Return(t)
    /\ UNCHANGED <<log_mutex, active, active_log_fds, opened, printVars, panicked>>

----------------------------------------------------------------------------
(* log_print_syslog, called alone or by log_fatal, which goes on whatever *)
(* it returns.                                                            *)
PrintReturn(t) == IF thread[t].fatal THEN Goto(t, "delay") ELSE Return(t)

LogPrint(t, fatal) ==
    /\ At(t, "idle")
    /\ thread' = [thread EXCEPT ![t].fatal = fatal, ![t].pc = "check"]
    /\ UNCHANGED <<openVars, printVars, panicked>>

CheckSyslog(t) ==
    /\ At(t, "check")
    /\ Goto(t, IF log_syslog_handle < 0 THEN "open" ELSE "alloc")
    /\ UNCHANGED <<openVars, printVars, panicked>>

(* IOS_Open, whose result overwrites a handle that another thread opened   *)
(* in the meantime, also when it is an error.                              *)
OpenSyslog(t) ==
    /\ At(t, "open")
    /\ \/ log_syslog_handle' = 0 /\ Goto(t, "alloc")
       \/ log_syslog_handle' = -1 /\ PrintReturn(t)
    /\ UNCHANGED <<openVars, used, lost, panicked>>

HeapAlloc(t) ==
    /\ At(t, "alloc")
    /\ IF used < HeapBlocks THEN used' = used + 1 /\ Goto(t, "format")
                            ELSE UNCHANGED used /\ PrintReturn(t)
    /\ UNCHANGED <<openVars, log_syslog_handle, lost, panicked>>

(* For an empty text the function returns with its block allocated. *)
Format(t, n) ==
    /\ At(t, "format")
    /\ IF n < 1 THEN lost' = lost + 1 /\ PrintReturn(t)
                ELSE UNCHANGED lost /\ Goto(t, "write")
    /\ UNCHANGED <<openVars, log_syslog_handle, used, panicked>>

WriteUnfreed(t) ==   \* mutant: the block is not freed after the write
    /\ At(t, "write")
    /\ PrintReturn(t)
    /\ UNCHANGED <<openVars, printVars, panicked>>
Write(t) ==
    /\ At(t, "write")
    /\ used' = used - 1
    /\ PrintReturn(t)
    /\ UNCHANGED <<openVars, log_syslog_handle, lost, panicked>>

(* log_fatal waits for the output, and then halts the whole system. *)
Panic(t) ==
    /\ At(t, "delay")
    /\ panicked' = TRUE
    /\ UNCHANGED <<openVars, printVars, thread>>

----------------------------------------------------------------------------
InOpen(t) == CreateSemaphore(t) \/ WaitSemaphore(t) \/ Scan(t) \/ TakeSlot(t)
             \/ SignalSemaphore(t)
InPrint(t) == \/ CheckSyslog(t) \/ OpenSyslog(t) \/ HeapAlloc(t) \/ Write(t) \/ Panic(t)
              \/ \E n \in Lengths : Format(t, n)

Next == /\ ~panicked
        /\ \E t \in Threads :
              \/ \E n \in Names : LogOpen(t, n)
              \/ \E fatal \in BOOLEAN : LogPrint(t, fatal)
              \/ Acquired(t) \/ InOpen(t) \/ InPrint(t)

(* A thread that has begun a call is scheduled, and the kernel serves the  *)
(* threads that wait for a semaphore in turn.                              *)
Spec == /\ Init /\ [][Next]_vars
        /\ \A t \in Threads : /\ WF_vars(~panicked /\ (InOpen(t) \/ InPrint(t)))
                              /\ SF_vars(~panicked /\ Acquired(t))

----------------------------------------------------------------------------
Inside == {t \in Threads : thread[t].pc \in {"scan", "take", "signal"}}
Holding == {t \in Threads : thread[t].pc \in {"format", "write"}}

(* What is left of the exclusion when several threads find that there is   *)
(* no semaphore and each creates one (log.c:33-34 test and create without  *)
(* exclusion): no more threads are inside than semaphores were created,    *)
(* and no slot becomes the handle of more new logs than that.  With one    *)
(* semaphore a slot is the handle of one log, and active_log_fds counts    *)
(* the active slots.                                                       *)
SlotsDistinct ==
    /\ Cardinality(Inside) <= Len(sems)
    /\ \A s \in Slots : /\ s \in active <=> opened[s] > 0
                        /\ opened[s] <= Len(sems)
    /\ Len(sems) <= 1 => active_log_fds = Cardinality(active)

(* A heap block is in use only by a thread that still formats or writes,   *)
(* or it was lost by the error return of an empty text (log.c:123).        *)
BlocksAccounted == used = Cardinality(Holding) + lost

(* log_open returns on all its paths, also when the table is full, unless  *)
(* the semaphore that the thread waits for has been replaced: it then      *)
(* waits for ever, since every thread signals the new one (log.c:66, 79).  *)
OpenReturns ==
    \A t \in Threads : At(t, "waiting") ~>
        (At(t, "idle") \/ thread[t].sem # log_mutex \/ panicked)
============================================================================
