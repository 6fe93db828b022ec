------------------------------ MODULE ExtiWait ------------------------------
(***************************************************************************)
(* Waiting for an edge of PC13 (rivet-bsp-stm32f401re/src/wait.rs): one    *)
(* task that arms the line and waits, and the pin.                         *)
(***************************************************************************)
EXTENDS Signal, FiniteSets

VARIABLES
  ex,       \* where the driver is
  edges,    \* the edges it waits for: a subset of {"rising", "falling"}
  level,    \* the pin level wait_for_high or wait_for_low wants, or NoLevel
  high,     \* the pin
  rtsr, ftsr, imr, pr,   \* line 13 of the EXTI
  came      \* an edge waited for has come since the line was armed

waiting == <<ex, edges, level>>
line == <<rtsr, ftsr, imr, pr>>
exti == <<waiting, high, line, came>>

NoLevel == "none"

ExInit ==
  /\ ex = "idle" /\ edges = {} /\ level = NoLevel
  /\ high \in BOOLEAN
  /\ rtsr = FALSE /\ ftsr = FALSE /\ imr = FALSE /\ pr = FALSE
  /\ came = FALSE

\* wait_for_rising_edge, wait_for_falling_edge, wait_for_any_edge; arm followed
\* by wait_armed.
ExCall(e) ==
  /\ ex = "idle"
  /\ edges' = e /\ level' = NoLevel
  /\ ex' = "reset"
  /\ UNCHANGED <<high, line, came, vars>>

\* wait_for_high and wait_for_low.
ExCallLevel(l) ==
  /\ ex = "idle"
  /\ edges' = {IF l = "high" THEN "rising" ELSE "falling"} /\ level' = l
  /\ ex' = "level"
  /\ UNCHANGED <<high, line, came, vars>>

\* The level is looked at before every wait.
ExLevel ==
  /\ ex = "level"
  /\ ex' = IF (level = "high") = high THEN "idle" ELSE "reset"
  /\ UNCHANGED <<edges, level, high, line, came, vars>>

\* wait_for_edge: the latch is cleared, ...
ExReset ==
  /\ ex = "reset" /\ Reset
  /\ ex' = "arm"
  /\ UNCHANGED <<edges, level, high, line, came>>

\* ... set_triggers selects the edges and unmasks the line, ...
ExArm ==
  /\ ex = "arm"
  /\ rtsr' = ("rising" \in edges) /\ ftsr' = ("falling" \in edges) /\ imr' = TRUE
  /\ came' = FALSE
  /\ ex' = "wait"
  /\ UNCHANGED <<edges, level, high, pr, vars>>

\* ... and the signal is waited for.
ExWait ==
  /\ ex = "wait"
  /\ Await \/ Awaited
  /\ ex' = IF pc' # "idle" THEN "wait" ELSE IF level = NoLevel THEN "idle" ELSE "level"
  /\ UNCHANGED <<edges, level, high, line, came>>

ExDrop ==
  /\ ex = "wait" /\ Abandon
  /\ ex' = "idle"
  /\ UNCHANGED <<edges, level, high, line, came>>

\* The pin changes: the selected edge sets the pending bit.
Pin ==
  /\ high' = ~high
  /\ LET edge == IF high THEN "falling" ELSE "rising"
     IN  /\ pr' = (pr \/ (IF high THEN ftsr ELSE rtsr))
         /\ came' = (came \/ (ex = "wait" /\ edge \in edges))
  /\ UNCHANGED <<waiting, rtsr, ftsr, imr, vars>>

\* trigger_software_interrupt: the same bit, whatever edges are selected.
ExTrigger ==
  /\ imr /\ pr' = TRUE
  /\ UNCHANGED <<waiting, high, rtsr, ftsr, imr, came, vars>>

\* Acknowledged, and nobody told.
\* isr: the pending bit is cleared, then the signal.
ExIsr ==
  /\ imr /\ pr
  /\ pr' = FALSE
  /\ SignalIsr
  /\ UNCHANGED <<waiting, high, rtsr, ftsr, imr, came>>

ExStep ==
  \/ \E e \in {{"rising"}, {"falling"}, {"rising", "falling"}} : ExCall(e)
  \/ \E l \in {"high", "low"} : ExCallLevel(l)
  \/ ExLevel \/ ExReset \/ ExArm \/ ExWait \/ ExDrop \/ Pin \/ ExTrigger \/ ExIsr

-----------------------------------------------------------------------------
\* No edge that comes once the line is armed is slept through.
EdgeIsHeard == ex = "wait" /\ pc = "pending" /\ came => woken \/ pr

\* Nobody sleeps for a level the pin has.
LevelIsHeard ==
  ex = "wait" /\ pc = "pending" /\ level # NoLevel => ((level = "high") # high \/ woken \/ pr)
=============================================================================
