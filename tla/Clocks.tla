------------------------------- MODULE Clocks -------------------------------
(***************************************************************************)
(* The clocks and ticks of the boards: the CLINT's two-word mtime and      *)
(* mtimecmp (clint.rs), the SysTick counter and its ticks (systick.rs),    *)
(* the esp32c6's SYSTIMER, whose value is latched for all its readers, and *)
(* the esp32s3's CCOUNT, widened by software, with CCOMPARE1 (timer.rs).   *)
(* Time is counted in cycles and passes between two accesses.              *)
(***************************************************************************)
EXTENDS Integers

CONSTANTS
  Clocks,      \* the clocks that are checked
  Readers,     \* the tasks that read them; on the esp32s3, one for each hart
  Lag,         \* on the esp32s3, by how much each hart's CCOUNT is behind
  LowWord,     \* values of a register: 2^32 in the code
  TickPeriod,  \* TICK_PERIOD, or the reload value of SysTick plus 1
  MaxMasked,   \* bound: on the esp32s3, how long a critical section keeps a tick waiting
  MaxInstant   \* bound: time

VARIABLES
  clock,                \* which clock the board has
  instant,              \* the time since boot
  reader,               \* each reader: where, the words it has read, when it began
  truthful,             \* whether every reading was the time during its call
  latched,              \* unit_value (SYSTIMER)
  ticks,                \* SYSTEM_TICKS
  last, carries, readAt,   \* LAST_CCOUNT, CYCLES_HIGH, and when they were written
  cmp, prev,            \* the compare register; MTIMECMP_PREV or CCOMPARE_PREV
  irq,                  \* the timer's interrupt: pending, the handler's place, next
  rearmed, overslept     \* ticks armed; whether a handler ran a period late (mtimecmp),
                         \* or found that the count had come round meanwhile (ccount)

readings == <<reader, truthful, latched, ticks, last, carries, readAt>>
timer == <<cmp, prev, irq, rearmed, overslept>>
clocks == <<clock, instant, readings, timer>>

Larger(a, b) == IF a > b THEN a ELSE b

\* tick_start, at time 0.
ClInit ==
  /\ clock \in Clocks
  /\ instant = 0
  /\ reader = [r \in Readers |-> [at |-> "out", hi |-> 0, lo |-> 0, from |-> 0]]
  /\ truthful = TRUE
  /\ latched = 0 /\ ticks = 0
  /\ last = 0 /\ carries = 0 /\ readAt = 0
  /\ cmp = TickPeriod /\ prev = TickPeriod
  /\ irq = [pending |-> FALSE, at |-> "out", next |-> 0]
  /\ rearmed = 1 /\ overslept = FALSE

\* The readers of mtime and of SysTick share nothing: one is enough.
Reading == IF clock \in {"systimer", "ccount"} THEN Readers
           ELSE {CHOOSE r \in Readers : TRUE}

High(t) == t \div LowWord
Low(t) == t % LowWord

Goes(r, to) == reader' = [reader EXCEPT ![r].at = to]
StartsReading(r, to, hi, lo) ==
  reader' = [reader EXCEPT ![r] = [at |-> to, hi |-> hi, lo |-> lo,
                                   from |-> IF @.at = "out" THEN instant ELSE @.from]]
Returns(r, value) ==
  /\ truthful' = (truthful /\ reader[r].from <= value /\ value <= instant)
  /\ reader' = [reader EXCEPT ![r] = [at |-> "out", hi |-> 0, lo |-> 0, from |-> 0]]

-----------------------------------------------------------------------------
\* read_mtime: the high word, the low word, and the high word again.
ReadHigh(r) ==
  /\ clock = "mtime" /\ reader[r].at \in {"out", "again"}
  /\ StartsReading(r, "low", High(instant), 0)
  /\ UNCHANGED <<clock, instant, truthful, latched, ticks, last, carries, readAt, timer>>

ReadLow(r) ==
  /\ clock = "mtime" /\ reader[r].at = "low"
  /\ reader' = [reader EXCEPT ![r].at = "check", ![r].lo = Low(instant)]
  /\ UNCHANGED <<clock, instant, truthful, latched, ticks, last, carries, readAt, timer>>

CheckHigh_Bad(r) ==
  /\ clock = "mtime" /\ reader[r].at = "check"
  /\ Returns(r, reader[r].hi * LowWord + reader[r].lo)
  /\ UNCHANGED <<clock, instant, latched, ticks, last, carries, readAt, timer>>

CheckHigh(r) ==
  /\ clock = "mtime" /\ reader[r].at = "check"
  /\ IF High(instant) = reader[r].hi
       THEN Returns(r, reader[r].hi * LowWord + reader[r].lo)
       ELSE Goes(r, "again") /\ UNCHANGED truthful
  /\ UNCHANGED <<clock, instant, latched, ticks, last, carries, readAt, timer>>

\* systimer_ticks: the value is latched, and ...
LatchUnit(r) ==
  /\ clock = "systimer" /\ reader[r].at = "out"
  /\ latched' = instant
  /\ StartsReading(r, "low", 0, 0)
  /\ UNCHANGED <<clock, instant, truthful, ticks, last, carries, readAt, timer>>

\* ... read low, high and low again; another task may latch it in between.
ReadUnit(r) ==
  /\ clock = "systimer"
  /\ \/ /\ reader[r].at = "low"
        /\ reader' = [reader EXCEPT ![r].at = "high", ![r].lo = Low(latched)]
        /\ UNCHANGED truthful
     \/ /\ reader[r].at = "high"
        /\ reader' = [reader EXCEPT ![r].at = "check", ![r].hi = High(latched)]
        /\ UNCHANGED truthful
     \/ /\ reader[r].at = "check"
        /\ IF Low(latched) = reader[r].lo
             THEN Returns(r, reader[r].hi * LowWord + reader[r].lo)
             ELSE /\ reader' = [reader EXCEPT ![r].at = "high", ![r].lo = Low(latched)]
                  /\ UNCHANGED truthful
  /\ UNCHANGED <<clock, instant, latched, ticks, last, carries, readAt, timer>>

-----------------------------------------------------------------------------
\* SysTick raises its interrupt when it reloads; handler counts the tick.
TickDue == ticks < instant \div TickPeriod

SysTickHandler ==
  /\ clock = "systick" /\ TickDue
  /\ ticks' = ticks + 1
  /\ UNCHANGED <<clock, instant, reader, truthful, latched, last, carries, readAt, timer>>

\* now_micros_precise, by code that a tick interrupts: the ticks, the counter,
\* and the ticks again.
Precise(r) ==
  /\ clock = "systick" /\ ~TickDue
  /\ \/ /\ reader[r].at \in {"out", "again"}
        /\ StartsReading(r, "counter", ticks, 0)
        /\ UNCHANGED truthful
     \/ /\ reader[r].at = "counter"
        /\ reader' = [reader EXCEPT ![r].at = "check", ![r].lo = instant % TickPeriod]
        /\ UNCHANGED truthful
     \/ /\ reader[r].at = "check"
        /\ IF ticks = reader[r].hi
             THEN Returns(r, reader[r].hi * TickPeriod + reader[r].lo)
             ELSE Goes(r, "again") /\ UNCHANGED truthful
  /\ UNCHANGED <<clock, instant, latched, ticks, last, carries, readAt, timer>>

-----------------------------------------------------------------------------
\* now_us of the esp32s3, in one critical section: the hart's CCOUNT, which has
\* counted for this long, and a carry if it is less than what was read last.
now_us(counted) ==
  LET now == Low(counted)
      carried == IF now < last THEN carries + LowWord ELSE carries
  IN  /\ carries' = carried /\ last' = now /\ readAt' = instant
      /\ truthful' = (truthful /\ carried + now \in counted .. instant)

NowUs(r) ==
  /\ clock = "ccount" /\ instant >= Lag[r]
  /\ now_us(instant - Lag[r])
  /\ UNCHANGED <<clock, instant, reader, latched, ticks, timer>>

-----------------------------------------------------------------------------
\* on_timer_irq of the CLINT, whose interrupt is pending while mtime has
\* reached mtimecmp: the next compare value, ...
ClintIrq ==
  /\ clock = "mtimecmp" /\ irq.at = "out" /\ instant >= cmp
  /\ irq' = [irq EXCEPT !.at = "ones", !.next = Larger(prev + TickPeriod, instant + TickPeriod)]
  /\ overslept' = (overslept \/ instant >= prev + TickPeriod)
  /\ UNCHANGED <<clock, instant, readings, cmp, prev, rearmed>>

\* ... and write_mtimecmp: the low word full, the high word, the low word.
WriteMtimecmp ==
  /\ clock = "mtimecmp"
  /\ \/ /\ irq.at = "ones"
        /\ cmp' = High(cmp) * LowWord + LowWord - 1
        /\ irq' = [irq EXCEPT !.at = "high"]
        /\ UNCHANGED <<prev, rearmed>>
     \/ /\ irq.at = "high"
        /\ cmp' = High(irq.next) * LowWord + Low(cmp)
        /\ irq' = [irq EXCEPT !.at = "low"]
        /\ UNCHANGED <<prev, rearmed>>
     \/ /\ irq.at = "low"
        /\ cmp' = High(cmp) * LowWord + Low(irq.next)
        /\ prev' = irq.next /\ rearmed' = rearmed + 1
        /\ irq' = [irq EXCEPT !.at = "out", !.next = 0]
  /\ UNCHANGED <<clock, instant, readings, overslept>>

\* The tick's handler on the esp32s3, whose interrupt becomes pending when hart 0's
\* CCOUNT equals CCOMPARE1: on_timer_irq arms the larger of two values that may
\* have wrapped, and poll_timers is given the time.
CcompareIrq ==
  /\ clock = "ccount" /\ irq.pending
  /\ LET next == Larger(Low(prev + TickPeriod), Low(Low(instant) + TickPeriod))
         late == Low(instant + LowWord - prev)
     IN  /\ cmp' = next /\ prev' = next
         /\ overslept' = \/ overslept
                         \/ /\ late >= TickPeriod
                            /\ High(prev + TickPeriod) # High(prev + TickPeriod + late)
  /\ irq' = [irq EXCEPT !.pending = FALSE]
  /\ rearmed' = rearmed + 1
  /\ now_us(instant)
  /\ UNCHANGED <<clock, instant, reader, latched, ticks>>

\* Time passes.  A SysTick is counted before the next one is due, a latched value
\* is read before its low word wraps, and a tick of the esp32s3 waits for a
\* critical section at most.
Pass ==
  /\ instant < MaxInstant
  /\ instant' = instant + 1
  /\ irq' = [irq EXCEPT !.pending = @ \/ (clock = "ccount" /\ Low(instant + 1) = cmp)]
  /\ CASE clock = "systick" -> instant + 1 < (ticks + 2) * TickPeriod
       [] clock = "systimer" -> \A r \in Readers : reader[r].at # "out" => instant + 1 < reader[r].from + LowWord
       [] clock = "ccount" -> irq.pending => Low(instant + 1 + LowWord - cmp) <= MaxMasked
       [] OTHER -> TRUE
  /\ UNCHANGED <<clock, readings, cmp, prev, rearmed, overslept>>

ClStep ==
  \/ \E r \in Reading :
       \/ ReadHigh(r) \/ ReadLow(r) \/ CheckHigh(r)
       \/ LatchUnit(r) \/ ReadUnit(r) \/ Precise(r) \/ NowUs(r)
  \/ SysTickHandler \/ ClintIrq \/ WriteMtimecmp \/ CcompareIrq \/ Pass

-----------------------------------------------------------------------------
\* The cores' counters started together.
CoresAgree == \A r \in Readers : Lag[r] = 0

\* A reading is the time at some moment of the call: neither torn nor, compared
\* with one that ended before it, going backwards.  now_us widens a 32-bit count:
\* it needs cores whose counts agree and a tick that comes.
TimeIsTrue == truthful \/ (clock = "ccount" /\ (overslept \/ ~CoresAgree))

\* The next tick is never more than a period away: the compare register that a
\* handler leaves behind is neither behind the clock nor beyond the period, unless
\* the count of the esp32s3 came round while the handler was a period late.
TickStaysArmed ==
  /\ clock = "mtimecmp" /\ irq.at = "out" => cmp - instant <= TickPeriod
  /\ clock = "ccount" =>
       overslept \/ irq.pending \/ Low(cmp + LowWord - Low(instant)) \in 1 .. TickPeriod

ClocksAreTrue == TimeIsTrue /\ TickStaysArmed

\* timer.rs: a tick that a slow handler was late for is coalesced, by arming the next
\* one from the current time instead of in the past.
LateTickIsCoalesced ==
  clock = "ccount" => irq.pending \/ Low(cmp + LowWord - Low(instant)) \in 1 .. TickPeriod

\* clint.rs: while no handler is later than a period, each tick is exactly one
\* period after the one before.
TicksKeepCadence == clock = "mtimecmp" /\ ~overslept => prev = rearmed * TickPeriod
=============================================================================
