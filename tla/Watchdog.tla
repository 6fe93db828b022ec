------------------------------ MODULE Watchdog ------------------------------
(***************************************************************************)
(* The board's watchdog (watchdog.rs init, feed and on_tick; each board's  *)
(* wdt_init, wdt_feed and wdt_check): the deadline of sw_watchdog.rs,      *)
(* checked by the tick, and the counters of the boards that have one.      *)
(* Time is in units of the shortest period.                                *)
(***************************************************************************)
EXTENDS Integers

CONSTANTS
  Dogs,         \* the watchdogs that are checked
  Periods,      \* the periods asked for; 0 asks for none
  MaxReload,    \* the most a reload register holds, in units of time
  Width,        \* lm3s6965 and mps2 compute their reload modulo Width
  MaxTime       \* bound: time

VARIABLES
  dog,          \* which watchdog the board has
  period,       \* PERIOD_US or WDT_PERIOD_US
  deadline,     \* DEADLINE_US
  reload, counter, counting,   \* the hardware's registers
  barked,       \* it has timed out once
  bitten,       \* the board was reset
  dogAt, dogNow,  \* where init and feed are, and the time feed has read
  time, fed,    \* the time; when the call that last armed or fed the dog began
  fedBy,        \* and when it ended
  frozen        \* interrupts are off for good

software == <<period, deadline>>
hardware == <<reload, counter, counting, barked>>
calls == <<dogAt, dogNow>>
watchdog == <<dog, software, hardware, calls, bitten, time, fed, fedBy, frozen>>

IsSoftware == dog = "software"

WdInit ==
  /\ dog \in Dogs
  /\ period = 0 /\ deadline = 0
  /\ reload = 0 /\ counter = 0 /\ counting = FALSE /\ barked = FALSE
  /\ bitten = FALSE
  /\ dogAt = "out" /\ dogNow = 0
  /\ time = 0 /\ fed = 0 /\ fedBy = 0
  /\ frozen = FALSE

\* The hardware of each board: what it loads for a period, cut to what its
\* register holds or to its width, and how often it times out before it resets
\* the board.  (The rp2040 counts its register twice as fast.)
Least(p) == IF p < 1 THEN 1 ELSE p
Clamped == [p \in Periods |-> IF p > MaxReload THEN MaxReload ELSE Least(p)]
Truncated == [p \in Periods |-> Least(p) % Width]

Dog_rp2040 == [reload |-> Clamped, timeouts |-> 1]
Dog_stm32f401 == [reload |-> Clamped, timeouts |-> 1]
Dog_lm3s6965 == [reload |-> Truncated, timeouts |-> 2]
Dog_mps2 == [reload |-> Truncated, timeouts |-> 2]

Hardware ==
  CASE dog = "rp2040" -> Dog_rp2040
    [] dog = "stm32f401" -> Dog_stm32f401
    [] dog = "lm3s6965" -> Dog_lm3s6965
    [] dog = "mps2" -> Dog_mps2

\* A task calls the watchdog while nothing stops it.
CanCall == dogAt = "out" /\ ~bitten /\ ~frozen

-----------------------------------------------------------------------------
\* wdt_init: the period is stored first.
WdtInit(p) ==
  /\ CanCall
  /\ period' = p
  /\ fed' = time /\ fedBy' = time
  /\ IF IsSoftware
       THEN dogAt' = "init" /\ dogNow' = time /\ UNCHANGED hardware
       ELSE /\ IF p = 0 THEN UNCHANGED hardware
                 ELSE /\ reload' = Hardware.reload[p] /\ counter' = reload'
                      /\ counting' = TRUE /\ barked' = FALSE
            /\ UNCHANGED calls
  /\ UNCHANGED <<dog, deadline, bitten, time, frozen>>

\* sw_watchdog: init and feed write the deadline in a critical section, from
\* the time their caller has read.
SetDeadline_Bad ==
  /\ dogAt \in {"init", "feed"} /\ ~bitten /\ ~frozen
  /\ deadline' = dogNow
  /\ fed' = dogNow /\ fedBy' = time
  /\ dogAt' = "out"
  /\ UNCHANGED <<dog, period, hardware, dogNow, bitten, time, frozen>>

SetDeadline ==
  /\ dogAt \in {"init", "feed"} /\ ~bitten /\ ~frozen
  /\ deadline' = dogNow + period
  /\ fed' = dogNow /\ fedBy' = time
  /\ dogAt' = "out"
  /\ UNCHANGED <<dog, period, hardware, dogNow, bitten, time, frozen>>

\* wdt_feed; without a period it does nothing.
WdtFeed ==
  /\ CanCall /\ period # 0
  /\ IF IsSoftware
       THEN dogAt' = "feed" /\ dogNow' = time /\ UNCHANGED <<hardware, fed, fedBy>>
       ELSE /\ counter' = reload /\ barked' = FALSE /\ fed' = time /\ fedBy' = time
            /\ UNCHANGED <<reload, counting, calls>>
  /\ UNCHANGED <<dog, software, bitten, time, frozen>>

-----------------------------------------------------------------------------
\* The hardware counts down; the first timeout of lm3s6965 and mps2 only
\* raises an interrupt.
Count ==
  IF ~counting THEN UNCHANGED <<hardware, bitten>>
  ELSE LET out == counter <= 1 IN
    /\ counter' = IF out THEN reload ELSE counter - 1
    /\ barked' = (barked \/ out)
    /\ bitten' = (bitten \/ (out /\ (barked \/ Hardware.timeouts = 1)))
    /\ UNCHANGED <<reload, counting>>

\* sw_watchdog::expired, and wdt_check at every tick.
Expired == period # 0 /\ time + 1 >= deadline
WdtCheck == bitten' = (~frozen /\ Expired)

WdPass ==
  /\ ~bitten /\ time < MaxTime
  /\ time' = time + 1
  /\ IF IsSoftware THEN WdtCheck /\ UNCHANGED hardware
                   ELSE Count
  /\ UNCHANGED <<dog, software, calls, fed, fedBy, frozen>>

\* The code hangs with interrupts off: no tick comes any more.
Freeze ==
  /\ ~frozen /\ ~bitten /\ period # 0 /\ dogAt = "out"
  /\ frozen' = TRUE
  /\ UNCHANGED <<dog, software, hardware, calls, bitten, time, fed, fedBy>>

WdStep ==
  \/ \E p \in Periods : WdtInit(p)
  \/ SetDeadline \/ WdtFeed \/ WdPass \/ Freeze

-----------------------------------------------------------------------------
\* A board is not reset before its period has passed since it was fed, from the
\* moment the call that fed it began.  (A period the register cannot hold is
\* shortened, wdt_init(0) does not stop a counter, and the tick that comes while
\* a software watchdog is being armed sees the deadline of before.)
Holds(p) == p # 0 /\ (IsSoftware \/ p <= MaxReload)
FedDogSleeps == bitten /\ Holds(period) /\ dogAt # "init" => time >= fed + period

\* A board that is not fed is reset, at the first tick after a call that comes
\* too late: by a software watchdog if ticks come, by
\* a hardware one whatever the code does, though lm3s6965 and mps2 take two
\* periods.
StarvedDogBites ==
  Holds(period) /\ dogAt = "out" /\ ~(IsSoftware /\ frozen) /\ ~bitten =>
    \/ time < fed + (IF IsSoftware THEN 1 ELSE Hardware.timeouts) * period
    \/ time = fedBy

WatchdogKeepsTime == FedDogSleeps /\ StarvedDogBites

\* sw_watchdog.rs: an expiry check is early by a tick at most.
NeverWildlyWrong == bitten /\ Holds(period) => time + 1 >= fed + period
=============================================================================
