---------------------------- MODULE LogLibProofs ----------------------------
(***************************************************************************)
(* The log library for any number of threads, any table, any heap and any  *)
(* texts: the table and the semaphores are never indexed outside their     *)
(* bounds, log_open lets in no more threads than semaphores were created,  *)
(* and no heap block is lost but by the error return of an empty text.     *)
(***************************************************************************)
EXTENDS LogLib, FiniteSetTheorems, WellFoundedInduction, TLAPS

(* A set of indices that is not empty has a lowest one. *)
LEMMA LowestElement ==
    ASSUME NEW S \in SUBSET Nat, S # {}
    PROVE  Lowest(S) \in S
<1> DEFINE Less == {ss \in Nat \X Nat : ss[1] < ss[2]}
<1>0. IsWellFoundedOn(Less, Nat)
  BY NatLessThanWellFounded DEF OpToRel
<1>1. PICK i \in S : \A j \in S : ~ (<<j, i>> \in Less)
  <2> HIDE DEF Less
  <2> QED BY <1>0, WFMin
<1>2. ASSUME NEW j \in S PROVE i <= j
  <2>1. ~ (<<j, i>> \in Less) /\ i \in Nat /\ j \in Nat
    BY <1>1
  <2> QED BY <2>1
<1> QED BY <1>2 DEF Lowest

(* What log_open finds is an index of the table, and a new slot is free. *)
LEMMA SlotFound ==
    ASSUME active \subseteq Slots, NEW n
    PROVE  /\ Slot(n) \in Slots \cup {-1}
           /\ Slot(n) # -1 /\ ~Found(n) => Slot(n) \in Slots \ active
<1>0. Slots \subseteq Nat
  BY LogAssumption
<1>1. CASE Found(n)
  BY <1>0, <1>1, LowestElement DEF Slot, Found
<1>2. CASE ~Found(n) /\ ~(Slots \subseteq active)
  BY <1>0, <1>2, LowestElement DEF Slot
<1>3. CASE ~Found(n) /\ Slots \subseteq active
  BY <1>3 DEF Slot
<1> QED BY <1>1, <1>2, <1>3

(* An index, or the -1 that stands for none, is an integer. *)
LEMMA IndicesAreIntegers == \A i \in Slots \cup {-1} : i \in Int
<1>1. Slots \subseteq Nat
  BY LogAssumption
<1> QED BY <1>1

----------------------------------------------------------------------------
Labels == {"idle", "create", "wait", "waiting", "scan", "take", "signal",
           "check", "open", "alloc", "format", "write", "delay"}
Locals == [pc : Labels, name : Names \cup {""}, sem : Int, ndx : Int,
           found : BOOLEAN, fatal : BOOLEAN]

(* Shapes and bounds: log_mutex and the semaphore a thread waits for are   *)
(* semaphores that exist, and a thread takes a slot of the table.          *)
LogTypeOK ==
    /\ sems \in Seq({0, 1})
    /\ log_mutex \in {-1} \cup 1 .. Len(sems)
    /\ active \subseteq Slots
    /\ opened \in [Slots -> Nat]
    /\ active_log_fds \in Int
    /\ used \in Int /\ lost \in Nat
    /\ thread \in [Threads -> Locals]
    /\ \A t \in Threads :
          /\ At(t, "waiting") => thread[t].sem \in 1 .. Len(sems)
          /\ At(t, "take") => thread[t].ndx \in Slots

(* The locals of a thread that is in no function. *)
LEMMA IdleLocals == Idle \in Locals
<1>1. -1 \in Int
  OBVIOUS
<1> QED BY <1>1 DEF Idle, Locals, Labels

(* A thread that changes its locals changes no other thread's. *)
LEMMA OneMoves ==
    ASSUME NEW t \in Threads, NEW r \in Locals,
           thread \in [Threads -> Locals],
           thread' = [thread EXCEPT ![t] = r]
    PROVE  /\ thread' \in [Threads -> Locals]
           /\ \A u \in Threads : thread'[u] = IF u = t THEN r ELSE thread[u]
OBVIOUS

(* Going on to another place keeps the other locals. *)
LEMMA GotoMoves ==
    ASSUME NEW t \in Threads, thread \in [Threads -> Locals],
           NEW l \in Labels, Goto(t, l)
    PROVE  /\ thread' \in [Threads -> Locals]
           /\ \A u \in Threads \ {t} : thread'[u] = thread[u]
           /\ thread'[t].pc = l
           /\ thread'[t].name = thread[t].name
           /\ thread'[t].ndx = thread[t].ndx
           /\ thread'[t].sem = thread[t].sem
           /\ thread'[t].found = thread[t].found
<1> DEFINE r == [thread[t] EXCEPT !.pc = l]
<1>1. r \in Locals
  BY DEF Locals
<1>2. thread' = [thread EXCEPT ![t] = r]
  BY DEF Goto
<1>3. /\ r.pc = l /\ r.name = thread[t].name /\ r.sem = thread[t].sem
      /\ r.ndx = thread[t].ndx /\ r.found = thread[t].found
  BY DEF Locals
<1> HIDE DEF r
<1> QED BY <1>1, <1>2, <1>3, OneMoves

(* A return forgets the locals. *)
LEMMA ReturnMoves ==
    ASSUME NEW t \in Threads, thread \in [Threads -> Locals], Return(t)
    PROVE  /\ thread' \in [Threads -> Locals]
           /\ \A u \in Threads \ {t} : thread'[u] = thread[u]
           /\ thread'[t].pc = "idle"
<1>1. Idle.pc = "idle"
  BY DEF Idle
<1> QED BY <1>1, IdleLocals, OneMoves DEF Return

(* log_open begins. *)
LEMMA LogOpenMoves ==
    ASSUME NEW t \in Threads, thread \in [Threads -> Locals],
           NEW n \in Names, LogOpen(t, n)
    PROVE  /\ thread' \in [Threads -> Locals]
           /\ \A u \in Threads \ {t} : thread'[u] = thread[u]
           /\ thread'[t].pc \in {"create", "wait"}
<1> DEFINE r == [thread[t] EXCEPT !.name = n,
                   !.pc = IF log_mutex < 0 THEN "create" ELSE "wait"]
<1>1. r \in Locals /\ r.pc \in {"create", "wait"}
  BY DEF Locals, Labels
<1>2. thread' = [thread EXCEPT ![t] = r]
  BY DEF LogOpen
<1> HIDE DEF r
<1> QED BY <1>1, <1>2, OneMoves

(* log_print_syslog begins. *)
LEMMA LogPrintMoves ==
    ASSUME NEW t \in Threads, thread \in [Threads -> Locals],
           NEW fatal \in BOOLEAN, LogPrint(t, fatal)
    PROVE  /\ thread' \in [Threads -> Locals]
           /\ \A u \in Threads \ {t} : thread'[u] = thread[u]
           /\ thread'[t].pc = "check"
<1> DEFINE r == [thread[t] EXCEPT !.fatal = fatal, !.pc = "check"]
<1>1. r \in Locals /\ r.pc = "check"
  BY DEF Locals, Labels
<1>2. thread' = [thread EXCEPT ![t] = r]
  BY DEF LogPrint
<1> HIDE DEF r
<1> QED BY <1>1, <1>2, OneMoves

(* log_print_syslog goes on, or returns to its caller or to log_fatal. *)
LEMMA PrintMoves ==
    ASSUME NEW t \in Threads, thread \in [Threads -> Locals],
           PrintReturn(t) \/ Goto(t, "open") \/ Goto(t, "alloc")
             \/ Goto(t, "format") \/ Goto(t, "write")
    PROVE  /\ thread' \in [Threads -> Locals]
           /\ \A u \in Threads \ {t} : thread'[u] = thread[u]
           /\ PrintReturn(t) => thread'[t].pc \in {"idle", "delay"}
           /\ Goto(t, "open") => thread'[t].pc = "open"
           /\ Goto(t, "alloc") => thread'[t].pc = "alloc"
           /\ Goto(t, "format") => thread'[t].pc = "format"
           /\ Goto(t, "write") => thread'[t].pc = "write"
<1>1. {"open", "alloc", "format", "write", "delay"} \subseteq Labels
  BY DEF Labels
<1> QED BY <1>1, GotoMoves, ReturnMoves DEF PrintReturn

(* A semaphore is created, or the call fails and log_open returns. *)
LEMMA CreateMoves ==
    ASSUME NEW t \in Threads, thread \in [Threads -> Locals],
           CreateSemaphore(t)
    PROVE  /\ thread' \in [Threads -> Locals]
           /\ \A u \in Threads \ {t} : thread'[u] = thread[u]
           /\ thread'[t].pc \in {"wait", "idle"}
<1>1. "wait" \in Labels
  BY DEF Labels
<1> QED BY <1>1, GotoMoves, ReturnMoves DEF CreateSemaphore

(* Every action keeps the shapes and the bounds. *)
LEMMA TypeStep ==
    ASSUME LogTypeOK, [Next]_vars
    PROVE  LogTypeOK'
<1> USE DEF LogTypeOK, At
<1>0. thread \in [Threads -> Locals]
  OBVIOUS
<1>1. ASSUME NEW t \in Threads, NEW n \in Names, LogOpen(t, n)
      PROVE  LogTypeOK'
  BY <1>1, LogOpenMoves DEF LogOpen, openVars, printVars
<1>2. ASSUME NEW t \in Threads, CreateSemaphore(t) PROVE LogTypeOK'
  <2>1. /\ thread' \in [Threads -> Locals]
        /\ \A u \in Threads \ {t} : thread'[u] = thread[u]
        /\ thread'[t].pc \in {"wait", "idle"}
    BY <1>2, CreateMoves
  <2>2. CASE sems' = Append(sems, 1) /\ log_mutex' = Len(sems')
    <3>1. /\ sems' \in Seq({0, 1}) /\ Len(sems') = Len(sems) + 1
          /\ log_mutex' \in 1 .. Len(sems') /\ Len(sems) \in Nat
      BY <2>2
    <3>2. /\ UNCHANGED <<active, active_log_fds, opened, used, lost>>
      BY <1>2 DEF CreateSemaphore, printVars
    <3>3. ASSUME NEW u \in Threads
          PROVE  /\ thread'[u].pc = "waiting"
                      => thread'[u].sem \in 1 .. Len(sems')
                 /\ thread'[u].pc = "take" => thread'[u].ndx \in Slots
      BY <2>1, <3>1
    <3> QED BY <2>1, <3>1, <3>2, <3>3
  <2>3. CASE UNCHANGED sems /\ log_mutex' = -1
    BY <1>2, <2>1, <2>3 DEF CreateSemaphore, printVars
  <2> QED BY <1>2, <2>2, <2>3 DEF CreateSemaphore
<1>3. ASSUME NEW t \in Threads, WaitSemaphore(t) PROVE LogTypeOK'
  <2>1. CASE log_mutex < 0
    BY <1>3, <2>1, ReturnMoves DEF WaitSemaphore, openVars, printVars
  <2>2. CASE ~(log_mutex < 0)
    <3> DEFINE r == [thread[t] EXCEPT !.sem = log_mutex, !.pc = "waiting"]
    <3>0. log_mutex \in 1 .. Len(sems) /\ log_mutex \in Int
      BY <2>2
    <3>1. r \in Locals /\ r.pc = "waiting" /\ r.sem = log_mutex
      BY <1>0, <3>0 DEF Locals, Labels
    <3>2. thread' = [thread EXCEPT ![t] = r]
      BY <1>3, <2>2 DEF WaitSemaphore
    <3> HIDE DEF r
    <3> QED BY <1>3, <3>0, <3>1, <3>2, OneMoves
            DEF WaitSemaphore, openVars, printVars
  <2> QED BY <2>1, <2>2
<1>4. ASSUME NEW t \in Threads, Acquired(t) PROVE LogTypeOK'
  <2>1. "scan" \in Labels
    BY DEF Labels
  <2>2. sems' \in Seq({0, 1}) /\ Len(sems') = Len(sems)
    BY <1>4 DEF Acquired
  <2> QED BY <1>4, <2>1, <2>2, GotoMoves DEF Acquired, printVars
<1>5. ASSUME NEW t \in Threads, Scan(t) PROVE LogTypeOK'
  <2> DEFINE n == thread[t].name
             r == [thread[t] EXCEPT !.ndx = Slot(n), !.found = Found(n),
                      !.pc = IF Slot(n) = -1 THEN "signal" ELSE "take"]
  <2>0. Found(n) \in BOOLEAN
    BY DEF Found
  <2>1. Slot(n) \in Slots \cup {-1}
    BY SlotFound
  <2>2. Slot(n) \in Int
    BY <2>1, IndicesAreIntegers
  <2>3. /\ r \in Locals /\ r.pc \in {"signal", "take"}
        /\ r.pc = "take" => r.ndx \in Slots
    BY <1>0, <2>0, <2>1, <2>2 DEF Locals, Labels
  <2>4. thread' = [thread EXCEPT ![t] = r]
    BY <1>5 DEF Scan
  <2> HIDE DEF r
  <2> QED BY <1>5, <2>3, <2>4, OneMoves DEF Scan, openVars, printVars
<1>6. ASSUME NEW t \in Threads, TakeSlot(t) PROVE LogTypeOK'
  <2>1. "signal" \in Labels
    BY DEF Labels
  <2>2. /\ active' \subseteq Slots /\ opened' \in [Slots -> Nat]
        /\ active_log_fds' \in Int
    BY <1>6 DEF TakeSlot
  <2> QED BY <1>6, <2>1, <2>2, GotoMoves DEF TakeSlot, printVars
<1>7. ASSUME NEW t \in Threads, SignalSemaphore(t) PROVE LogTypeOK'
  <2>1. sems' \in Seq({0, 1}) /\ Len(sems') = Len(sems)
    BY <1>7 DEF SignalSemaphore
  <2> QED BY <1>7, <2>1, ReturnMoves DEF SignalSemaphore, printVars
<1>8. ASSUME NEW t \in Threads, NEW fatal \in BOOLEAN, LogPrint(t, fatal)
      PROVE  LogTypeOK'
  BY <1>8, LogPrintMoves DEF LogPrint, openVars, printVars
<1>9. ASSUME NEW t \in Threads, UNCHANGED openVars,
             used' \in Int, lost' \in Nat,
             PrintReturn(t) \/ Goto(t, "open") \/ Goto(t, "alloc")
               \/ Goto(t, "format") \/ Goto(t, "write")
      PROVE  LogTypeOK'
  <2>1. /\ thread' \in [Threads -> Locals]
        /\ \A u \in Threads \ {t} : thread'[u] = thread[u]
        /\ thread'[t].pc \notin {"waiting", "take"}
    BY <1>9, PrintMoves
  <2> QED BY <1>9, <2>1 DEF openVars
<1>10. ASSUME NEW t \in Threads, CheckSyslog(t) \/ OpenSyslog(t)
       PROVE  LogTypeOK'
  BY <1>9, <1>10 DEF CheckSyslog, OpenSyslog, printVars
<1>11. ASSUME NEW t \in Threads, HeapAlloc(t) PROVE LogTypeOK'
  BY <1>9, <1>11 DEF HeapAlloc
<1>12. ASSUME NEW t \in Threads, NEW n \in Lengths, Format(t, n)
       PROVE  LogTypeOK'
  BY <1>9, <1>12 DEF Format
<1>13. ASSUME NEW t \in Threads, Write(t) PROVE LogTypeOK'
  BY <1>9, <1>13 DEF Write
<1>14. ASSUME NEW t \in Threads, Panic(t) PROVE LogTypeOK'
  BY <1>14 DEF Panic, openVars, printVars
<1>15. CASE UNCHANGED vars
  BY <1>15 DEF vars, openVars, printVars
<1> QED
  BY <1>1, <1>2, <1>3, <1>4, <1>5, <1>6, <1>7, <1>8, <1>10, <1>11, <1>12,
     <1>13, <1>14, <1>15 DEF Next, InOpen, InPrint

(* No behaviour leaves the table of logs or the semaphores created. *)
THEOREM TypeCorrect == Spec => []LogTypeOK
<1>1. Init => LogTypeOK
  <2> SUFFICES ASSUME Init PROVE LogTypeOK
    OBVIOUS
  <2>1. Idle.pc = "idle"
    BY DEF Idle
  <2>2. thread \in [Threads -> Locals]
    BY IdleLocals DEF Init
  <2>3. log_mutex \in {-1} /\ sems \in Seq({0, 1})
    BY DEF Init
  <2>4. \A t \in Threads : thread[t].pc = "idle"
    BY <2>1 DEF Init
  <2>5. active \subseteq Slots /\ used \in Int /\ lost \in Nat
    BY DEF Init
  <2>6. opened \in [Slots -> Nat] /\ active_log_fds \in Int
    BY DEF Init
  <2> QED BY <2>2, <2>3, <2>4, <2>5, <2>6 DEF LogTypeOK, At
<1>2. LogTypeOK /\ [Next]_vars => LogTypeOK'
  BY TypeStep
<1> QED BY <1>1, <1>2, PTL DEF Spec

----------------------------------------------------------------------------
Critical == {"scan", "take", "signal"}
Busy == {"waiting"} \cup Critical

(* The parts of the library that touch neither the table nor a semaphore   *)
(* leave the threads in log_open where they are.                           *)
LEMMA OthersStep ==
    ASSUME LogTypeOK, NEW t \in Threads,
           \/ \E n \in Names : LogOpen(t, n)
           \/ \E fatal \in BOOLEAN : LogPrint(t, fatal)
           \/ InPrint(t)
           \/ WaitSemaphore(t) /\ log_mutex < 0
    PROVE  /\ UNCHANGED openVars
           /\ \A u \in Threads \ {t} : thread'[u] = thread[u]
           /\ thread[t].pc \notin Busy /\ thread'[t].pc \notin Busy
<1> USE DEF LogTypeOK, At, Busy, Critical
<1>0. thread \in [Threads -> Locals]
  OBVIOUS
<1>1. CASE \E n \in Names : LogOpen(t, n)
  BY <1>0, <1>1, LogOpenMoves DEF LogOpen
<1>2. CASE \E fatal \in BOOLEAN : LogPrint(t, fatal)
  BY <1>0, <1>2, LogPrintMoves DEF LogPrint
<1>3. CASE \/ CheckSyslog(t) \/ OpenSyslog(t) \/ HeapAlloc(t)
           \/ \E n \in Lengths : Format(t, n)
  BY <1>0, <1>3, PrintMoves DEF CheckSyslog, OpenSyslog, HeapAlloc, Format
<1>4. CASE Write(t)
  BY <1>0, <1>4, PrintMoves DEF Write
<1>5. CASE Panic(t)
  BY <1>5 DEF Panic
<1>6. CASE WaitSemaphore(t) /\ log_mutex < 0
  BY <1>0, <1>6, ReturnMoves DEF WaitSemaphore
<1> QED BY <1>1, <1>2, <1>3, <1>4, <1>5, <1>6 DEF InPrint

(* The steps of a thread that has waited for the semaphore: it alone       *)
(* moves, on to the next place.                                            *)
LEMMA BusyStep ==
    ASSUME LogTypeOK, NEW t \in Threads,
           \/ WaitSemaphore(t) /\ ~(log_mutex < 0)
           \/ Acquired(t) \/ Scan(t) \/ TakeSlot(t) \/ SignalSemaphore(t)
    PROVE  /\ \A u \in Threads \ {t} : thread'[u] = thread[u]
           /\ WaitSemaphore(t) =>
                thread'[t].pc = "waiting" /\ thread'[t].sem = log_mutex
           /\ Acquired(t) => thread'[t].pc = "scan"
           /\ Scan(t) => LET n == thread[t].name IN
                /\ thread'[t].pc \in {"take", "signal"}
                /\ thread'[t].pc = "take" =>
                     /\ Slot(n) # -1
                     /\ thread'[t].ndx = Slot(n) /\ thread'[t].found = Found(n)
           /\ TakeSlot(t) => thread'[t].pc = "signal"
           /\ SignalSemaphore(t) => thread'[t].pc = "idle"
<1> USE DEF LogTypeOK, At
<1>0. thread \in [Threads -> Locals]
  OBVIOUS
<1>1. CASE WaitSemaphore(t) /\ ~(log_mutex < 0)
  <2> DEFINE r == [thread[t] EXCEPT !.sem = log_mutex, !.pc = "waiting"]
  <2>1. log_mutex \in Int
    BY <1>1
  <2>2. r \in Locals /\ r.pc = "waiting" /\ r.sem = log_mutex
    BY <1>0, <2>1 DEF Locals, Labels
  <2>3. thread' = [thread EXCEPT ![t] = r]
    BY <1>1 DEF WaitSemaphore
  <2>4. At(t, "wait")
    BY <1>1 DEF WaitSemaphore
  <2> HIDE DEF r
  <2> QED BY <2>2, <2>3, <2>4, OneMoves
          DEF Acquired, Scan, TakeSlot, SignalSemaphore
<1>2. CASE Acquired(t)
  <2>1. "scan" \in Labels
    BY DEF Labels
  <2> QED BY <1>2, <2>1, GotoMoves
          DEF Acquired, WaitSemaphore, Scan, TakeSlot, SignalSemaphore
<1>3. CASE Scan(t)
  <2> DEFINE n == thread[t].name
             r == [thread[t] EXCEPT !.ndx = Slot(n), !.found = Found(n),
                      !.pc = IF Slot(n) = -1 THEN "signal" ELSE "take"]
  <2>0. Found(n) \in BOOLEAN
    BY DEF Found
  <2>1. Slot(n) \in Int
    BY SlotFound, IndicesAreIntegers
  <2>2. /\ r \in Locals /\ r.pc \in {"signal", "take"}
        /\ r.pc = "take" => Slot(n) # -1
    BY <1>0, <2>0, <2>1 DEF Locals, Labels
  <2>3. r.ndx = Slot(n) /\ r.found = Found(n)
    BY <1>0 DEF Locals
  <2>4. thread' = [thread EXCEPT ![t] = r]
    BY <1>3 DEF Scan
  <2>5. At(t, "scan")
    BY <1>3 DEF Scan
  <2> HIDE DEF r
  <2> QED BY <2>2, <2>3, <2>4, <2>5, OneMoves
          DEF WaitSemaphore, Acquired, TakeSlot, SignalSemaphore
<1>4. CASE TakeSlot(t)
  <2>1. "signal" \in Labels
    BY DEF Labels
  <2> QED BY <1>4, <2>1, GotoMoves
          DEF TakeSlot, WaitSemaphore, Acquired, Scan, SignalSemaphore
<1>5. CASE SignalSemaphore(t)
  BY <1>5, ReturnMoves
     DEF SignalSemaphore, WaitSemaphore, Acquired, Scan, TakeSlot
<1> QED BY <1>1, <1>2, <1>3, <1>4, <1>5

(* A thread that moves enters or leaves the threads inside, or neither. *)
LEMMA InsideMoves ==
    ASSUME NEW t \in Threads, \A u \in Threads \ {t} : thread'[u] = thread[u]
    PROVE  Inside' = IF thread'[t].pc \in Critical
                       THEN Inside \cup {t} ELSE Inside \ {t}
BY DEF Inside, Critical

(* The semaphores that would let a thread in. *)
Free == {k \in DOMAIN sems : sems[k] = 1}

(* The threads inside and the semaphores that would let one in are         *)
(* together no more than the semaphores created: a thread that signals     *)
(* may set another semaphore than the one it took, but only one, and it    *)
(* leaves.                                                                 *)
ExclusionInv == Cardinality(Inside) + Cardinality(Free) <= Len(sems)

(* The sets counted are finite. *)
LEMMA InsideFinite ==
    ASSUME LogTypeOK
    PROVE  /\ IsFiniteSet(Inside) /\ Cardinality(Inside) \in Nat
           /\ IsFiniteSet(Free) /\ Cardinality(Free) \in Nat
           /\ Len(sems) \in Nat /\ DOMAIN sems = 1 .. Len(sems)
<1>1. Len(sems) \in Nat /\ DOMAIN sems = 1 .. Len(sems)
  BY DEF LogTypeOK
<1>2. IsFiniteSet(1 .. Len(sems))
  BY <1>1, FS_Interval
<1>3. Free \subseteq 1 .. Len(sems) /\ Inside \subseteq Threads
  BY <1>1 DEF Free, Inside
<1> QED BY <1>1, <1>2, <1>3, LogAssumption, FS_Subset, FS_CardinalityType

(* Every action keeps the count. *)
LEMMA ExclusionStep ==
    ASSUME LogTypeOK, ExclusionInv, [Next]_vars
    PROVE  ExclusionInv'
<1>0. /\ IsFiniteSet(Inside) /\ Cardinality(Inside) \in Nat
      /\ IsFiniteSet(Free) /\ Cardinality(Free) \in Nat
      /\ Len(sems) \in Nat /\ DOMAIN sems = 1 .. Len(sems)
  BY InsideFinite
<1>1. ASSUME Inside' = Inside, UNCHANGED sems PROVE ExclusionInv'
  BY <1>1 DEF ExclusionInv, Free
<1>2. ASSUME NEW t \in Threads,
             \/ \E n \in Names : LogOpen(t, n)
             \/ \E fatal \in BOOLEAN : LogPrint(t, fatal)
             \/ InPrint(t)
             \/ WaitSemaphore(t) /\ log_mutex < 0
      PROVE  ExclusionInv'
  <2>1. /\ UNCHANGED openVars
        /\ \A u \in Threads \ {t} : thread'[u] = thread[u]
        /\ thread[t].pc \notin Busy /\ thread'[t].pc \notin Busy
    BY <1>2, OthersStep
  <2>2. Inside' = Inside
    BY <2>1 DEF Inside, Busy, Critical
  <2> QED BY <1>1, <2>1, <2>2 DEF openVars
<1>3. ASSUME NEW t \in Threads, CreateSemaphore(t) PROVE ExclusionInv'
  <2>1. /\ \A u \in Threads \ {t} : thread'[u] = thread[u]
        /\ thread'[t].pc \in {"wait", "idle"}
    BY <1>3, CreateMoves DEF LogTypeOK
  <2>2. Inside' = Inside
    BY <1>3, <2>1 DEF Inside, CreateSemaphore, At
  <2>3. CASE sems' = Append(sems, 1)
    <3> DEFINE k == Len(sems) + 1
    <3>1. /\ Len(sems') = k /\ DOMAIN sems' = 1 .. k /\ sems'[k] = 1
          /\ \A j \in 1 .. Len(sems) : sems'[j] = sems[j]
      BY <2>3 DEF LogTypeOK
    <3>2. Free' = Free \cup {k}
      BY <1>0, <3>1 DEF Free
    <3>3. k \notin Free
      BY <1>0 DEF Free
    <3>4. Cardinality(Free') = Cardinality(Free) + 1
      BY <1>0, <3>2, <3>3, FS_AddElement
    <3> QED BY <1>0, <2>2, <3>1, <3>4 DEF ExclusionInv
  <2>4. CASE UNCHANGED sems
    BY <1>1, <2>2, <2>4
  <2> QED BY <1>3, <2>3, <2>4 DEF CreateSemaphore
<1>4. ASSUME NEW t \in Threads, WaitSemaphore(t), ~(log_mutex < 0)
      PROVE  ExclusionInv'
  <2>1. /\ \A u \in Threads \ {t} : thread'[u] = thread[u]
        /\ thread'[t].pc = "waiting"
    BY <1>4, BusyStep
  <2>2. Inside' = Inside /\ UNCHANGED sems
    BY <1>4, <2>1 DEF Inside, WaitSemaphore, At, openVars
  <2> QED BY <1>1, <2>2
<1>5. ASSUME NEW t \in Threads, Acquired(t) PROVE ExclusionInv'
  <2>1. /\ \A u \in Threads \ {t} : thread'[u] = thread[u]
        /\ thread'[t].pc = "scan"
    BY <1>5, BusyStep
  <2>2. Inside' = Inside \cup {t} /\ t \notin Inside
    BY <1>5, <2>1, InsideMoves DEF Inside, Critical, Acquired, At
  <2> DEFINE k == thread[t].sem
  <2>3. /\ k \in 1 .. Len(sems) /\ sems[k] > 0
        /\ sems' = [sems EXCEPT ![k] = @ - 1]
    BY <1>5 DEF Acquired, At, LogTypeOK
  <2> HIDE DEF k
  <2>4. sems \in Seq({0, 1})
    BY DEF LogTypeOK
  <2>5. sems[k] = 1
    <3>1. sems[k] \in {0, 1}
      BY <2>3, <2>4
    <3> QED BY <2>3, <3>1
  <2>6. /\ Len(sems') = Len(sems) /\ DOMAIN sems' = DOMAIN sems
        /\ sems'[k] = 0 /\ \A j \in DOMAIN sems : j # k => sems'[j] = sems[j]
    BY <1>0, <2>3, <2>4, <2>5
  <2>7. Free' = Free \ {k} /\ k \in Free
    BY <1>0, <2>3, <2>5, <2>6 DEF Free
  <2>8. Cardinality(Free') = Cardinality(Free) - 1
    BY <1>0, <2>7, FS_RemoveElement
  <2>9. Cardinality(Inside') = Cardinality(Inside) + 1
    BY <1>0, <2>2, FS_AddElement
  <2> QED BY <1>0, <2>6, <2>8, <2>9 DEF ExclusionInv
<1>6. ASSUME NEW t \in Threads, Scan(t) \/ TakeSlot(t) PROVE ExclusionInv'
  <2>1. /\ \A u \in Threads \ {t} : thread'[u] = thread[u]
        /\ thread'[t].pc \in {"take", "signal"}
    BY <1>6, BusyStep
  <2>2. Inside' = Inside /\ UNCHANGED sems
    BY <1>6, <2>1 DEF Inside, Scan, TakeSlot, openVars, At
  <2> QED BY <1>1, <2>2
<1>7. ASSUME NEW t \in Threads, SignalSemaphore(t) PROVE ExclusionInv'
  <2>1. /\ \A u \in Threads \ {t} : thread'[u] = thread[u]
        /\ thread'[t].pc = "idle"
    BY <1>7, BusyStep
  <2>2. Inside' = Inside \ {t} /\ t \in Inside
    BY <1>7, <2>1, InsideMoves DEF Inside, Critical, SignalSemaphore, At
  <2>3. Cardinality(Inside') = Cardinality(Inside) - 1
    BY <1>0, <2>2, FS_RemoveElement
  <2>4. Cardinality(Free') <= Cardinality(Free) + 1 /\ Len(sems') = Len(sems)
        /\ Cardinality(Free') \in Nat
    <3>1. CASE log_mutex < 0
      BY <1>0, <1>7, <3>1 DEF SignalSemaphore, Free
    <3>2. CASE ~(log_mutex < 0)
      <4> DEFINE k == log_mutex
      <4>1. k \in 1 .. Len(sems) /\ sems' = [sems EXCEPT ![k] = 1]
        BY <1>7, <3>2 DEF SignalSemaphore, LogTypeOK
      <4> HIDE DEF k
      <4>2. sems \in Seq({0, 1})
        BY DEF LogTypeOK
      <4>3. /\ Len(sems') = Len(sems) /\ DOMAIN sems' = DOMAIN sems
            /\ sems'[k] = 1
            /\ \A j \in DOMAIN sems : j # k => sems'[j] = sems[j]
        BY <1>0, <4>1, <4>2
      <4>4. Free' = Free \cup {k}
        BY <1>0, <4>1, <4>3 DEF Free
      <4>5. Cardinality(Free') =
              IF k \in Free THEN Cardinality(Free) ELSE Cardinality(Free) + 1
        BY <1>0, <4>4, FS_AddElement
      <4> QED BY <1>0, <4>3, <4>5
    <3> QED BY <3>1, <3>2
  <2> QED BY <1>0, <2>3, <2>4 DEF ExclusionInv
<1>8. CASE UNCHANGED vars
  <2>1. Inside' = Inside
    BY <1>8 DEF vars, Inside
  <2> QED BY <1>1, <1>8, <2>1 DEF vars, openVars
<1> QED
  BY <1>2, <1>3, <1>4, <1>5, <1>6, <1>7, <1>8 DEF Next, InOpen

(* In every initial state no thread is in a function. *)
LEMMA InitIdle ==
    ASSUME Init
    PROVE  \A t \in Threads : thread[t].pc = "idle"
<1>1. Idle.pc = "idle"
  BY DEF Idle
<1> QED BY <1>1 DEF Init

(* However the threads race to create the semaphore, no more of them are   *)
(* past it than semaphores were created.                                   *)
THEOREM ExclusionCorrect == Spec => []ExclusionInv
<1>1. Init => ExclusionInv
  <2> SUFFICES ASSUME Init PROVE ExclusionInv
    OBVIOUS
  <2>1. Inside = {}
    BY InitIdle DEF Inside
  <2>2. Free = {} /\ Len(sems) = 0
    BY DEF Free, Init
  <2> QED BY <2>1, <2>2, FS_EmptySet DEF ExclusionInv
<1>2. LogTypeOK /\ ExclusionInv /\ [Next]_vars => ExclusionInv'
  BY ExclusionStep
<1> QED BY <1>1, <1>2, TypeCorrect, PTL DEF Spec

----------------------------------------------------------------------------
(* The threads that are about to take slot i for a new log. *)
Takers(i) == {t \in Threads : /\ thread[t].pc = "take"
                              /\ ~thread[t].found /\ thread[t].ndx = i}

(* The logs of a slot and the threads about to take it are no more than    *)
(* the semaphores; with one semaphore each active slot was taken once and  *)
(* the counter agrees with the table.                                      *)
TableInv ==
    /\ \A i \in Slots : /\ i \in active <=> opened[i] > 0
                        /\ opened[i] + Cardinality(Takers(i)) <= Len(sems)
    /\ Len(sems) <= 1 => active_log_fds = Cardinality(active)

(* The threads about to take a slot are inside. *)
LEMMA TakersInside ==
    ASSUME LogTypeOK, NEW i
    PROVE  /\ Takers(i) \subseteq Inside
           /\ IsFiniteSet(Takers(i)) /\ Cardinality(Takers(i)) \in Nat
<1>1. Takers(i) \subseteq Inside
  BY DEF Takers, Inside
<1> QED BY <1>1, InsideFinite, FS_Subset, FS_CardinalityType

(* Every action keeps the table. *)
LEMMA TableStep ==
    ASSUME LogTypeOK, ExclusionInv, TableInv, [Next]_vars
    PROVE  TableInv'
<1>0. /\ opened \in [Slots -> Nat] /\ active \subseteq Slots
      /\ active_log_fds \in Int /\ Len(sems) \in Nat
      /\ \A i \in Slots : Cardinality(Takers(i)) \in Nat
  BY TakersInside, InsideFinite DEF LogTypeOK
<1>1. ASSUME UNCHANGED <<active, active_log_fds, opened>>,
             NEW t \in Threads, thread[t].pc # "take", thread'[t].pc # "take",
             \A u \in Threads \ {t} : thread'[u] = thread[u],
             Len(sems') \in Nat, Len(sems') >= Len(sems)
      PROVE  TableInv'
  <2>1. ASSUME NEW i \in Slots PROVE Takers(i)' = Takers(i)
    BY <1>1 DEF Takers
  <2>2. ASSUME NEW i \in Slots
        PROVE  /\ i \in active' <=> opened'[i] > 0
               /\ opened'[i] + Cardinality(Takers(i)') <= Len(sems')
    <3>1. opened[i] \in Nat /\ Cardinality(Takers(i)) \in Nat
      BY <1>0
    <3>2. /\ i \in active <=> opened[i] > 0
          /\ opened[i] + Cardinality(Takers(i)) <= Len(sems)
      BY DEF TableInv
    <3> QED BY <1>0, <1>1, <2>1, <3>1, <3>2
  <2>3. Len(sems') <= 1 => active_log_fds' = Cardinality(active')
    BY <1>0, <1>1 DEF TableInv
  <2> QED BY <2>2, <2>3 DEF TableInv
<1>2. ASSUME NEW t \in Threads,
             \/ \E n \in Names : LogOpen(t, n)
             \/ \E fatal \in BOOLEAN : LogPrint(t, fatal)
             \/ InPrint(t)
             \/ WaitSemaphore(t) /\ log_mutex < 0
      PROVE  TableInv'
  <2>1. /\ UNCHANGED openVars
        /\ \A u \in Threads \ {t} : thread'[u] = thread[u]
        /\ thread[t].pc \notin Busy /\ thread'[t].pc \notin Busy
    BY <1>2, OthersStep
  <2> QED BY <1>0, <1>1, <2>1 DEF openVars, Busy, Critical
<1>3. ASSUME NEW t \in Threads, CreateSemaphore(t) PROVE TableInv'
  <2>1. /\ \A u \in Threads \ {t} : thread'[u] = thread[u]
        /\ thread'[t].pc \in {"wait", "idle"}
    BY <1>3, CreateMoves DEF LogTypeOK
  <2>2. Len(sems') \in Nat /\ Len(sems') >= Len(sems)
    BY <1>3 DEF CreateSemaphore, LogTypeOK
  <2> QED BY <1>1, <1>3, <2>1, <2>2 DEF CreateSemaphore, At
<1>4. ASSUME NEW t \in Threads,
             \/ WaitSemaphore(t) /\ ~(log_mutex < 0)
             \/ Acquired(t) \/ SignalSemaphore(t)
      PROVE  TableInv'
  <2>1. /\ \A u \in Threads \ {t} : thread'[u] = thread[u]
        /\ thread'[t].pc \in {"waiting", "scan", "idle"}
    BY <1>4, BusyStep
  <2>2. UNCHANGED <<active, active_log_fds, opened>> /\ thread[t].pc # "take"
    BY <1>4 DEF WaitSemaphore, Acquired, SignalSemaphore, openVars, At
  <2>3. Len(sems') = Len(sems)
    BY <1>4 DEF WaitSemaphore, Acquired, SignalSemaphore, openVars, LogTypeOK
  <2> QED BY <1>0, <1>1, <2>1, <2>2, <2>3
<1>5. ASSUME NEW t \in Threads, Scan(t) PROVE TableInv'
  <2> DEFINE n == thread[t].name
  <2>1. /\ \A u \in Threads \ {t} : thread'[u] = thread[u]
        /\ thread'[t].pc \in {"take", "signal"}
        /\ thread'[t].pc = "take" =>
             /\ Slot(n) # -1
             /\ thread'[t].ndx = Slot(n) /\ thread'[t].found = Found(n)
    BY <1>5, BusyStep
  <2>2. /\ thread[t].pc = "scan" /\ UNCHANGED sems
        /\ UNCHANGED <<active, active_log_fds, opened>>
    BY <1>5 DEF Scan, openVars, At
  <2>3. thread'[t].pc = "take" /\ ~thread'[t].found
          => thread'[t].ndx \in Slots \ active
    BY <1>0, <2>1, SlotFound
  <2>4. Inside' = Inside
    BY <2>1, <2>2 DEF Inside
  <2>5. ASSUME NEW i \in Slots
        PROVE  opened[i] + Cardinality(Takers(i)') <= Len(sems)
    <3>1. CASE t \in Takers(i)'
      <4>1. i \notin active
        BY <2>3, <3>1 DEF Takers
      <4>2. opened[i] = 0
        BY <1>0, <4>1 DEF TableInv
      <4>3. Takers(i)' \subseteq Inside
        BY <2>4 DEF Takers, Inside
      <4>4. /\ Cardinality(Takers(i)') <= Cardinality(Inside)
            /\ Cardinality(Takers(i)') \in Nat
        BY <4>3, InsideFinite, FS_Subset, FS_CardinalityType
      <4> QED BY <1>0, <4>2, <4>4, InsideFinite DEF ExclusionInv
    <3>2. CASE t \notin Takers(i)'
      <4>1. Takers(i)' = Takers(i)
        BY <2>1, <2>2, <3>2 DEF Takers
      <4> QED BY <4>1 DEF TableInv
    <3> QED BY <3>1, <3>2
  <2> QED BY <2>2, <2>5 DEF TableInv
<1>6. ASSUME NEW t \in Threads, TakeSlot(t) PROVE TableInv'
  <2>1. /\ \A u \in Threads \ {t} : thread'[u] = thread[u]
        /\ thread'[t].pc = "signal"
    BY <1>6, BusyStep
  <2>2. thread[t].pc = "take" /\ UNCHANGED sems
    BY <1>6 DEF TakeSlot, At
  <2>3. ASSUME NEW i PROVE Takers(i)' = Takers(i) \ {t}
    BY <2>1 DEF Takers
  <2>4. CASE thread[t].found
    <3>1. ASSUME NEW i PROVE Takers(i)' = Takers(i)
      BY <2>3, <2>4 DEF Takers
    <3> QED BY <1>6, <2>2, <2>4, <3>1 DEF TakeSlot, TableInv
  <2>5. CASE ~thread[t].found
    <3>0. PICK k \in Slots : k = thread[t].ndx
      BY <2>2 DEF LogTypeOK, At
    <3>1. t \in Takers(k)
      BY <2>2, <2>5, <3>0 DEF Takers
    <3>2. /\ active' = active \cup {k}
          /\ active_log_fds' = active_log_fds + 1
          /\ opened' = [opened EXCEPT ![k] = @ + 1]
      BY <1>6, <2>5, <3>0 DEF TakeSlot
    <3>3. \A i \in Slots : i # k => Takers(i)' = Takers(i)
      BY <2>3, <3>0 DEF Takers
    <3>4. Cardinality(Takers(k)) \in Nat /\ Cardinality(Takers(k)) >= 1
          /\ Cardinality(Takers(k) \ {t}) = Cardinality(Takers(k)) - 1
      <4>1. IsFiniteSet(Takers(k)) /\ Cardinality(Takers(k)) \in Nat
        BY TakersInside
      <4>2. Cardinality(Takers(k)) # 0
        BY <3>1, <4>1, FS_EmptySet
      <4>3. Cardinality(Takers(k) \ {t}) = Cardinality(Takers(k)) - 1
        BY <3>1, <4>1, FS_RemoveElement
      <4> HIDE DEF Takers
      <4> QED BY <4>1, <4>2, <4>3
    <3>5. opened[k] \in Nat /\ opened'[k] = opened[k] + 1
          /\ \A i \in Slots : i # k => opened'[i] = opened[i]
      BY <1>0, <3>1, <3>2
    <3>6. /\ \A i \in Slots : i \in active <=> opened[i] > 0
          /\ opened[k] + Cardinality(Takers(k)) <= Len(sems)
          /\ \A i \in Slots : opened[i] + Cardinality(Takers(i)) <= Len(sems)
      BY <3>1 DEF TableInv
    <3>7. ASSUME NEW i \in Slots
          PROVE  /\ i \in active' <=> opened'[i] > 0
                 /\ opened'[i] + Cardinality(Takers(i)') <= Len(sems')
      <4>1. CASE i = k
        <5>1. Cardinality(Takers(i)') = Cardinality(Takers(k)) - 1
          BY <2>3, <3>4, <4>1
        <5>2. i \in active' /\ opened'[i] = opened[k] + 1
          BY <3>2, <3>5, <4>1
        <5> QED BY <1>0, <2>2, <3>4, <3>5, <3>6, <5>1, <5>2
      <4>2. CASE i # k
        <5>1. Takers(i)' = Takers(i) /\ opened'[i] = opened[i]
          BY <3>3, <3>5, <4>2
        <5>2. i \in active' <=> i \in active
          BY <3>2, <4>2
        <5> QED BY <2>2, <3>6, <5>1, <5>2
      <4> QED BY <4>1, <4>2
    <3>8. Len(sems') <= 1 => active_log_fds' = Cardinality(active')
      <4> SUFFICES ASSUME Len(sems) <= 1
                   PROVE  active_log_fds' = Cardinality(active')
        BY <2>2
      <4>1. k \notin active
        BY <1>0, <3>1, <3>4, <3>5, <3>6
      <4>2. IsFiniteSet(active)
        BY <1>0, LogAssumption, FS_Subset
      <4>3. Cardinality(active \cup {k}) = Cardinality(active) + 1
        BY <4>1, <4>2, FS_AddElement
      <4> QED BY <3>2, <4>3 DEF TableInv
    <3> QED BY <3>7, <3>8 DEF TableInv
  <2> QED BY <2>4, <2>5
<1>7. CASE UNCHANGED vars
  BY <1>7 DEF vars, openVars, TableInv, Takers
<1> QED
  BY <1>2, <1>3, <1>4, <1>5, <1>6, <1>7 DEF Next, InOpen

(* However the threads race to create the semaphore, no more of them are   *)
(* inside and no slot becomes the handle of more logs than semaphores were *)
(* created, and with one semaphore active_log_fds counts the active slots. *)
THEOREM SlotsCorrect == Spec => []SlotsDistinct
<1>1. Init => TableInv
  <2> SUFFICES ASSUME Init PROVE TableInv
    OBVIOUS
  <2>1. Cardinality(active) = 0 /\ active_log_fds = 0 /\ Len(sems) = 0
    BY FS_EmptySet DEF Init
  <2>2. \A i \in Slots : i \notin active /\ opened[i] = 0
    BY DEF Init
  <2>3. \A i : Takers(i) = {}
    BY InitIdle DEF Takers
  <2>4. \A i : Cardinality(Takers(i)) = 0
    BY <2>3, FS_EmptySet
  <2> QED BY <2>1, <2>2, <2>4 DEF TableInv
<1>2. LogTypeOK /\ ExclusionInv /\ TableInv /\ [Next]_vars => TableInv'
  BY TableStep
<1>3. LogTypeOK /\ ExclusionInv /\ TableInv => SlotsDistinct
  <2> SUFFICES ASSUME LogTypeOK, ExclusionInv, TableInv PROVE SlotsDistinct
    OBVIOUS
  <2>1. Cardinality(Inside) <= Len(sems)
    BY InsideFinite DEF ExclusionInv
  <2>2. ASSUME NEW i \in Slots PROVE opened[i] <= Len(sems)
    <3>1. opened[i] \in Nat /\ Cardinality(Takers(i)) \in Nat
      BY TakersInside DEF LogTypeOK
    <3>2. opened[i] + Cardinality(Takers(i)) <= Len(sems)
      BY DEF TableInv
    <3> QED BY <3>1, <3>2, InsideFinite
  <2> QED BY <2>1, <2>2 DEF SlotsDistinct, TableInv
<1> QED BY <1>1, <1>2, <1>3, TypeCorrect, ExclusionCorrect, PTL DEF Spec

----------------------------------------------------------------------------
(* A thread that moves joins or leaves the threads that hold a block, or   *)
(* neither.                                                                *)
LEMMA HoldingMoves ==
    ASSUME NEW t \in Threads, \A u \in Threads \ {t} : thread'[u] = thread[u]
    PROVE  Holding' = IF thread'[t].pc \in {"format", "write"}
                        THEN Holding \cup {t} ELSE Holding \ {t}
BY DEF Holding

(* A step of log_open touches no block and no thread that holds one. *)
LEMMA OpenHoldsNothing ==
    ASSUME LogTypeOK, NEW t \in Threads,
           \/ \E n \in Names : LogOpen(t, n)
           \/ \E fatal \in BOOLEAN : LogPrint(t, fatal)
           \/ InOpen(t) \/ Acquired(t)
    PROVE  Holding' = Holding /\ UNCHANGED <<used, lost>>
<1> USE DEF At
<1>1. UNCHANGED <<used, lost>> /\ t \notin Holding
  BY DEF LogOpen, LogPrint, InOpen, CreateSemaphore, WaitSemaphore, Acquired,
         Scan, TakeSlot, SignalSemaphore, printVars, Holding
<1>2. /\ \A u \in Threads \ {t} : thread'[u] = thread[u]
      /\ thread'[t].pc \notin {"format", "write"}
  <2>1. CASE CreateSemaphore(t)
    BY <2>1, CreateMoves DEF LogTypeOK
  <2>2. CASE WaitSemaphore(t) /\ log_mutex < 0
    BY <2>2, ReturnMoves DEF WaitSemaphore, LogTypeOK
  <2>3. CASE \/ WaitSemaphore(t) /\ ~(log_mutex < 0)
             \/ Acquired(t) \/ Scan(t) \/ TakeSlot(t) \/ SignalSemaphore(t)
    BY <2>3, BusyStep
  <2>4. CASE \E n \in Names : LogOpen(t, n)
    BY <2>4, LogOpenMoves DEF LogTypeOK
  <2>5. CASE \E fatal \in BOOLEAN : LogPrint(t, fatal)
    BY <2>5, LogPrintMoves DEF LogTypeOK
  <2> QED BY <2>1, <2>2, <2>3, <2>4, <2>5 DEF InOpen
<1> QED BY <1>1, <1>2, HoldingMoves

(* Every action keeps the account of the blocks. *)
LEMMA BlocksStep ==
    ASSUME LogTypeOK, BlocksAccounted, [Next]_vars
    PROVE  BlocksAccounted'
<1>0. IsFiniteSet(Holding) /\ Cardinality(Holding) \in Nat
  BY LogAssumption, FS_Subset, FS_CardinalityType DEF Holding
<1> USE DEF BlocksAccounted
<1>1. ASSUME NEW t \in Threads,
             \/ \E n \in Names : LogOpen(t, n)
             \/ \E fatal \in BOOLEAN : LogPrint(t, fatal)
             \/ InOpen(t) \/ Acquired(t)
      PROVE  BlocksAccounted'
  BY <1>1, OpenHoldsNothing
<1>2. thread \in [Threads -> Locals]
  BY DEF LogTypeOK
<1>3. ASSUME NEW t \in Threads, CheckSyslog(t) \/ OpenSyslog(t)
      PROVE  BlocksAccounted'
  <2>1. /\ \A u \in Threads \ {t} : thread'[u] = thread[u]
        /\ thread'[t].pc \in {"idle", "delay", "open", "alloc"}
    BY <1>2, <1>3, PrintMoves DEF CheckSyslog, OpenSyslog
  <2>2. t \notin Holding /\ UNCHANGED <<used, lost>>
    BY <1>3 DEF CheckSyslog, OpenSyslog, printVars, At, Holding
  <2>3. Holding' = Holding \ {t}
    BY <2>1, HoldingMoves
  <2>4. Holding \ {t} = Holding
    BY <2>2
  <2> QED BY <2>2, <2>3, <2>4
<1>4. ASSUME NEW t \in Threads, HeapAlloc(t) PROVE BlocksAccounted'
  <2>1. t \notin Holding /\ lost' = lost
    BY <1>4 DEF HeapAlloc, At, Holding
  <2>2. CASE used < HeapBlocks
    <3>1. used' = used + 1 /\ Goto(t, "format")
      BY <1>4, <2>2 DEF HeapAlloc
    <3>2. Holding' = Holding \cup {t}
      BY <1>2, <3>1, PrintMoves, HoldingMoves
    <3>3. Cardinality(Holding \cup {t}) = Cardinality(Holding) + 1
      BY <1>0, <2>1, FS_AddElement
    <3> QED BY <1>0, <2>1, <3>1, <3>2, <3>3 DEF LogTypeOK
  <2>3. CASE ~(used < HeapBlocks)
    <3>1. used' = used /\ PrintReturn(t)
      BY <1>4, <2>3 DEF HeapAlloc
    <3>2. Holding' = Holding
      <4>1. /\ \A u \in Threads \ {t} : thread'[u] = thread[u]
            /\ thread'[t].pc \in {"idle", "delay"}
        BY <1>2, <3>1, PrintMoves
      <4> QED BY <2>1, <4>1, HoldingMoves
    <3> QED BY <2>1, <3>1, <3>2
  <2> QED BY <2>2, <2>3
<1>5. ASSUME NEW t \in Threads, t \in Holding, PrintReturn(t)
      PROVE  Cardinality(Holding') = Cardinality(Holding) - 1
  <2>1. Holding' = Holding \ {t}
    BY <1>2, <1>5, PrintMoves, HoldingMoves
  <2> QED BY <1>0, <1>5, <2>1, FS_RemoveElement
<1>6. ASSUME NEW t \in Threads, NEW n \in Lengths, Format(t, n)
      PROVE  BlocksAccounted'
  <2>1. t \in Holding /\ used' = used
    BY <1>6 DEF Format, At, Holding
  <2>2. CASE n < 1
    <3>1. lost' = lost + 1 /\ PrintReturn(t)
      BY <1>6, <2>2 DEF Format
    <3> QED BY <1>0, <1>5, <2>1, <3>1 DEF LogTypeOK
  <2>3. CASE ~(n < 1)
    <3>1. lost' = lost /\ Goto(t, "write")
      BY <1>6, <2>3 DEF Format
    <3>2. Holding' = Holding
      <4>1. /\ \A u \in Threads \ {t} : thread'[u] = thread[u]
            /\ thread'[t].pc = "write"
        BY <1>2, <3>1, PrintMoves
      <4> QED BY <2>1, <4>1, HoldingMoves
    <3> QED BY <2>1, <3>1, <3>2
  <2> QED BY <2>2, <2>3
<1>7. ASSUME NEW t \in Threads, Write(t) PROVE BlocksAccounted'
  <2>1. t \in Holding /\ PrintReturn(t) /\ used' = used - 1 /\ lost' = lost
    BY <1>7 DEF Write, At, Holding
  <2> QED BY <1>0, <1>5, <2>1 DEF LogTypeOK
<1>8. ASSUME NEW t \in Threads, Panic(t) PROVE BlocksAccounted'
  BY <1>8 DEF Panic, printVars, Holding
<1>9. CASE UNCHANGED vars
  BY <1>9 DEF vars, printVars, Holding
<1> QED
  BY <1>1, <1>3, <1>4, <1>6, <1>7, <1>8, <1>9 DEF Next, InPrint

(* A heap block in use is in the hands of a thread, or an empty text lost  *)
(* it.                                                                     *)
THEOREM BlocksCorrect == Spec => []BlocksAccounted
<1>1. Init => BlocksAccounted
  <2> SUFFICES ASSUME Init PROVE BlocksAccounted
    OBVIOUS
  <2>1. Idle.pc = "idle"
    BY DEF Idle
  <2>2. Holding = {}
    <3>1. \A t \in Threads : thread[t] = Idle
      BY DEF Init
    <3> QED BY <2>1, <3>1 DEF Holding
  <2>3. used = 0 /\ lost = 0
    BY DEF Init
  <2> QED BY <2>2, <2>3, FS_EmptySet DEF BlocksAccounted
<1>2. LogTypeOK /\ BlocksAccounted /\ [Next]_vars => BlocksAccounted'
  BY BlocksStep
<1> QED BY <1>1, <1>2, TypeCorrect, PTL DEF Spec
============================================================================
