------------------------------- MODULE Delay -------------------------------
(***************************************************************************)
(* The delays of libraries/libc/lib/delay.c and ios_bsp/bsp_util.c: busy   *)
(* waiting on a timer that wraps around, and delay_ticks, which blocks on  *)
(* a message queue until a timer sends to it.  Word stands for 2^32.       *)
(***************************************************************************)
EXTENDS Integers

CONSTANTS Word,           \* the timer counts modulo Word
          TimerFrequency, \* ticks per Second
          Second,         \* microseconds in a second
          Delays,         \* the microseconds that are asked for
          MaxJump,        \* the most ticks between two looks at the timer
          MaxElapsed      \* bound: ticks a delay is observed for

ASSUME DelayAssumption ==
    /\ {Word, TimerFrequency, Second, MaxJump} \subseteq Nat \ {0}
    /\ Delays \subseteq Nat /\ MaxElapsed \in Nat
    /\ MaxJump < Word /\ Word <= MaxElapsed

VARIABLES
    pc,       \* "idle", "spin" in udelay; "queue", "timer", "receive" in
              \*   delay_ticks
    timer,    \* the hardware timer
    start, ticks, \* of the delay in progress
    due,      \* the ticks asked for, however many
    elapsed,  \* the ticks that really went by since start
    held,     \* kernel objects held: "queue", "timer"
    fired     \* the timer of delay_ticks has sent its message

delayVars == <<pc, timer, start, ticks, due, elapsed, held, fired>>

DelayInit ==
    /\ pc = "idle" /\ timer \in 0 .. Word - 1
    /\ start = 0 /\ ticks = 0 /\ due = 0 /\ elapsed = 0
    /\ held = {} /\ fired = FALSE

usec_to_timer_ticks(u) ==
    LET ticks64 == (TimerFrequency * u) \div Second
    IN  IF ticks64 >= Word THEN Word - 1
        ELSE IF u > 0 /\ ticks64 = 0 THEN 1 ELSE ticks64

(* udelay reads IOS_GetUpTime, udelay_realtime *HW_TIMER, the same way. *)
Udelay(u) ==
    /\ pc = "idle" /\ pc' = "spin"
    /\ start' = timer /\ ticks' = usec_to_timer_ticks(u)
    /\ due' = (TimerFrequency * u) \div Second
    /\ elapsed' = 0
    /\ UNCHANGED <<timer, held, fired>>
UdelayRealtime(u) == Udelay(u)

(* One round of the loop, j ticks after the one before. *)
LookAtTarget(j) ==   \* mutant: while (now < start + ticks)
    /\ pc = "spin"
    /\ timer' = (timer + j) % Word
    /\ elapsed' = IF elapsed + j < MaxElapsed THEN elapsed + j ELSE MaxElapsed
    /\ pc' = IF timer' < (start + ticks) % Word THEN "spin" ELSE "idle"
    /\ UNCHANGED <<start, ticks, due, held, fired>>
Look(j) ==
    /\ pc = "spin"
    /\ timer' = (timer + j) % Word
    /\ elapsed' = IF elapsed + j < MaxElapsed THEN elapsed + j ELSE MaxElapsed
    /\ pc' = IF (timer' - start) % Word < ticks THEN "spin" ELSE "idle"
    /\ UNCHANGED <<start, ticks, due, held, fired>>

----------------------------------------------------------------------------
(* delay_ticks *)
DelayTicks ==
    /\ pc = "idle" /\ pc' = "queue" /\ fired' = FALSE
    /\ UNCHANGED <<timer, start, ticks, due, elapsed, held>>

CreateMessageQueue ==
    /\ pc = "queue"
    /\ \/ held' = held \cup {"queue"} /\ pc' = "timer"
       \/ UNCHANGED held /\ pc' = "idle"
    /\ UNCHANGED <<timer, start, ticks, due, elapsed, fired>>

CreateTimer ==
    /\ pc = "timer"
    /\ \/ held' = held \cup {"timer"} /\ pc' = "receive"
       \/ held' = held \ {"queue"} /\ pc' = "idle"
    /\ UNCHANGED <<timer, start, ticks, due, elapsed, fired>>

(* The kernel's timer sends its message once. *)
Fire ==
    /\ "timer" \in held /\ ~fired /\ fired' = TRUE
    /\ UNCHANGED <<pc, timer, start, ticks, due, elapsed, held>>

ReceiveMessage ==
    /\ pc = "receive" /\ fired
    /\ pc' = "idle" /\ held' = {}
    /\ UNCHANGED <<timer, start, ticks, due, elapsed, fired>>

Working == Fire \/ CreateMessageQueue \/ CreateTimer \/ ReceiveMessage
DelayNext ==
    \/ \E u \in Delays : Udelay(u) \/ UdelayRealtime(u)
    \/ \E j \in 0 .. MaxJump : Look(j)
    \/ DelayTicks \/ Working

(* The timer goes on counting, and the thread looks at it again and again. *)
DelayFairness == /\ WF_delayVars(\E j \in 1 .. MaxJump : Look(j))
                 /\ WF_delayVars(Working)
DelaySpec == DelayInit /\ [][DelayNext]_delayVars /\ DelayFairness

----------------------------------------------------------------------------
(* A delay ends, across a wrap of the timer too, no earlier than asked for *)
(* and at the first look after that, if it leaves the loop room to see the *)
(* end: ticks <= Word - MaxJump.  A delay near the largest word, as one    *)
(* that usec_to_timer_ticks cut to UINT_MAX, may miss it and start over    *)
(* (delay.c:25).  delay_ticks ends too, with nothing left created          *)
(* (delay.c:29-46).                                                        *)
DelayEndsInTime ==
    /\ (pc = "spin" /\ ticks <= Word - MaxJump)
         ~> (pc = "idle" /\ elapsed \in ticks .. ticks + MaxJump
             /\ elapsed >= due)
    /\ pc \notin {"idle", "spin"} ~> (pc = "idle" /\ held = {})
============================================================================
