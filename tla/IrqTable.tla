------------------------------ MODULE IrqTable ------------------------------
(***************************************************************************)
(* The interrupt table (irq.rs) over a board's intc: the NVIC of a   *)
(* Cortex-M (nvic) or Cortex-M0 (nvic0), the PLIC, and the esp32c6's       *)
(* matrix with its pool of CPU lines.  Tasks of one hart call it and       *)
(* preempt each other between two accesses; an interrupt is handled above  *)
(* them.                                                                   *)
(***************************************************************************)
EXTENDS Integers, FiniteSets

CONSTANTS
  Controllers,  \* the controllers that are checked
  Irqs,         \* the interrupt numbers asked for
  MAX_IRQS,     \* the table has the numbers below
  Sources,      \* those LOGICAL_TO_SOURCE knows (esp32c6)
  IrqLines,     \* the CPU lines of the pool (esp32c6): 1 .. n
  IrqCallers    \* the tasks that call

VARIABLES
  intc,
  handlers, untraced,     \* HANDLERS: the registered numbers; UNTRACED
  enabled,                \* the intc's enable bits: numbers, or lines
  priority,               \* what set_priority wrote, and enable
  lineOf, routed, mie,    \* IRQ_LINE_SOURCE; the matrix; the core's own bits
  configured,             \* MATRIX_CONFIGURED
  call,                   \* each caller: where, what for, and the word it has read
  pend,                   \* interrupts a device has raised
  isr, frames,            \* the dispatch in progress; trace frames still open
  on, silent              \* what the finished calls asked for

table == <<handlers, untraced>>
bits == <<enabled, priority>>
matrix == <<lineOf, routed, mie, configured>>
asked == <<on, silent>>
irqTable == <<intc, table, bits, matrix, call, pend, isr, frames, asked>>

Free == -1
\* LINE_TICK and LINE_RESCHED.
KernelLines == {16, 17}
Matrixed == intc = "esp32c6"
Atomic == intc \in {"nvic", "nvic0"}

IqInit ==
  /\ intc \in Controllers
  /\ handlers = {} /\ untraced = {}
  /\ enabled = {} /\ priority = [i \in Irqs |-> 0]
  /\ lineOf = [l \in IrqLines |-> Free] /\ routed = [i \in Irqs |-> Free] /\ mie = {}
  /\ configured = FALSE
  /\ call = [c \in IrqCallers |-> [at |-> "out", irq |-> 0, word |-> {}, prio |-> priority]]
  /\ pend = {} /\ isr = [at |-> "out", irq |-> 0, traced |-> FALSE] /\ frames = 0
  /\ on = {} /\ silent = {}

\* The interrupt's number, or its line, in the enable register.
Bit(i) == IF Matrixed THEN routed[i] ELSE i
Delivered(i) == Bit(i) \in enabled /\ (Matrixed => Bit(i) \in mie)

Idle(c) == call[c].at = "out" /\ isr.at = "out"
Step(c, from, to) == isr.at = "out" /\ call[c].at = from /\ call' = [call EXCEPT ![c].at = to]

-----------------------------------------------------------------------------
\* register, register_untraced and unregister: the handler, then the flag.
RegisterIrq(c, i) ==
  /\ Idle(c) /\ i < MAX_IRQS
  /\ handlers' = handlers \union {i}
  /\ UNCHANGED <<intc, untraced, bits, matrix, call, pend, isr, frames, asked>>

RegisterUntracedIrq(c, i) ==
  /\ Idle(c) /\ i < MAX_IRQS
  /\ handlers' = handlers \union {i}
  /\ call' = [call EXCEPT ![c].at = "untrace", ![c].irq = i]
  /\ UNCHANGED <<intc, untraced, bits, matrix, pend, isr, frames, asked>>

UnregisterIrq(c, i) ==
  /\ Idle(c) /\ i < MAX_IRQS
  /\ handlers' = handlers \ {i}
  /\ silent' = silent \ {i}
  /\ call' = [call EXCEPT ![c].at = "retrace", ![c].irq = i]
  /\ UNCHANGED <<intc, untraced, bits, matrix, pend, isr, frames, on>>

SetUntraced(c) ==
  /\ \/ /\ Step(c, "untrace", "out")
        /\ untraced' = untraced \union {call[c].irq}
        /\ silent' = silent \union {call[c].irq}
     \/ /\ Step(c, "retrace", "out")
        /\ untraced' = untraced \ {call[c].irq}
        /\ silent' = silent \ {call[c].irq}
  /\ UNCHANGED <<intc, handlers, bits, matrix, pend, isr, frames, on>>

-----------------------------------------------------------------------------
\* irq_line_for: the number's own line, or the first free one.
LineFor(i) ==
  LET own == {l \in IrqLines : lineOf[l] = i}
      free == {l \in IrqLines : lineOf[l] = Free}
  IN  IF own # {} THEN CHOOSE l \in own : \A k \in own : l <= k
      ELSE IF free # {} THEN CHOOSE l \in free : \A k \in free : l <= k ELSE Free

\* A PLIC or a matrix reads and writes a whole enable register: its callers are
\* taken to come one after the other.
MayCall(c) == Idle(c) /\ (Atomic \/ \A k \in IrqCallers : call[k].at = "out")

\* enable and disable.
Begin(c, i, op) ==
  /\ ~Matrixed /\ MayCall(c)
  /\ on' = on \ {i}
  /\ call' = [call EXCEPT ![c].at = op, ![c].irq = i]
  /\ UNCHANGED <<intc, table, bits, matrix, pend, isr, frames, silent>>

\* configure_interrupt_matrix, once: the kernel's own lines.
Configured(S) == IF configured THEN S ELSE S \union KernelLines

ClaimLine(c, i, op) ==
  /\ Matrixed /\ MayCall(c)
  /\ on' = on \ {i}
  /\ IF op = "enable"
       THEN configured' = TRUE /\ enabled' = Configured(enabled) /\ mie' = Configured(mie)
       ELSE UNCHANGED <<configured, enabled, mie>>
  /\ LET line == LineFor(i) IN
       /\ lineOf' = IF line = Free THEN lineOf ELSE [lineOf EXCEPT ![line] = i]
       /\ call' = IF line = Free \/ (op = "enable" /\ i \notin Sources) THEN call
                  ELSE [call EXCEPT ![c].at = op, ![c].irq = i, ![c].word = {line}]
  /\ UNCHANGED <<intc, table, priority, routed, pend, isr, frames, silent>>

\* ISER and ICER take the bits that are written as one.
SetBit(c) ==
  /\ Atomic
  /\ LET i == call[c].irq IN
     \/ /\ Step(c, "enable", "out")
        /\ enabled' = enabled \union {i}
        /\ on' = on \union {i}
     \/ /\ Step(c, "disable", "out")
        /\ enabled' = enabled \ {i}
        /\ on' = on \ {i}
  /\ UNCHANGED <<intc, table, priority, matrix, pend, isr, frames, silent>>

Word(c, bit) == IF call[c].at = "enable" THEN enabled \union {bit} ELSE enabled \ {bit}
ReadWord(c, bit) ==
  /\ isr.at = "out" /\ call[c].at \in {"enable", "disable"}
  /\ call' = [call EXCEPT ![c].at = IF @ = "enable" THEN "on" ELSE "off", ![c].word = Word(c, bit)]

\* The PLIC: priority 1, the register read, ...
PlicRead(c) ==
  /\ intc = "plic"
  /\ ReadWord(c, call[c].irq)
  /\ priority' = IF call[c].at = "enable" THEN [priority EXCEPT ![call[c].irq] = 1] ELSE priority
  /\ UNCHANGED <<intc, table, enabled, matrix, pend, isr, frames, asked>>

\* ... and written back.
PlicWrite(c) ==
  /\ intc = "plic"
  /\ \/ Step(c, "on", "out") /\ on' = on \union {call[c].irq}
     \/ Step(c, "off", "out") /\ on' = on \ {call[c].irq}
  /\ enabled' = call[c].word
  /\ UNCHANGED <<intc, table, priority, matrix, pend, isr, frames, silent>>

\* The matrix: the source's line, the line's priority, the register read, and ...
MatrixRead(c) ==
  /\ Matrixed
  /\ LET i == call[c].irq
         line == CHOOSE l \in call[c].word : TRUE
         begun == call[c].at = "enable"
     IN  /\ ReadWord(c, line)
         /\ priority' = IF begun THEN [priority EXCEPT ![i] = 4] ELSE priority
         /\ routed' = IF begun THEN [routed EXCEPT ![i] = line] ELSE routed
  /\ UNCHANGED <<intc, table, enabled, lineOf, mie, configured, pend, isr, frames, asked>>

\* ... written back, and the core's own bit, which stays.
MatrixWrite(c) ==
  /\ Matrixed
  /\ LET i == call[c].irq IN
     \/ Step(c, "on", "out") /\ mie' = mie \union {routed[i]} /\ on' = on \union {i}
     \/ Step(c, "off", "out") /\ on' = on \ {i} /\ UNCHANGED mie
  /\ enabled' = call[c].word
  /\ UNCHANGED <<intc, table, priority, lineOf, routed, configured, pend, isr, frames, silent>>

\* set_priority: one byte of the NVIC, one word of the PLIC, ...
SetPriority(c, i, p) ==
  /\ intc \in {"nvic", "plic"} /\ MayCall(c)
  /\ priority' = [priority EXCEPT ![i] = p]
  /\ UNCHANGED <<intc, table, enabled, matrix, call, pend, isr, frames, asked>>

\* ... the line of the number on the esp32c6, where no priority is 0, ...
SetLinePriority(c, i, p) ==
  /\ Matrixed /\ MayCall(c)
  /\ LineFor(i) # Free
  /\ priority' = [priority EXCEPT ![i] = IF p = 0 THEN 1 ELSE p]
  /\ lineOf' = [lineOf EXCEPT ![LineFor(i)] = i]
  /\ UNCHANGED <<intc, table, enabled, routed, mie, configured, call, pend, isr, frames, asked>>

\* ... and on a Cortex-M0 a word of four numbers, read and written back.
ReadPriorities(c, i, p) ==
  /\ intc = "nvic0" /\ MayCall(c)
  /\ call' = [call EXCEPT ![c].at = "prio", ![c].prio = [priority EXCEPT ![i] = p]]
  /\ UNCHANGED <<intc, table, bits, matrix, pend, isr, frames, asked>>

WritePriorities(c) ==
  /\ Step(c, "prio", "out")
  /\ priority' = call[c].prio
  /\ UNCHANGED <<intc, table, enabled, matrix, pend, isr, frames, asked>>

-----------------------------------------------------------------------------
\* A device, or pend(), raises an interrupt.
Raise(i) ==
  /\ pend' = pend \union {i}
  /\ UNCHANGED <<intc, table, bits, matrix, call, isr, frames, asked>>

\* dispatch looks the handler up ...
Lookup(irq) ==
  isr' = IF irq \in handlers THEN [at |-> "enter", irq |-> irq, traced |-> irq \notin untraced]
                             ELSE isr

\* ... for rivet_irq_handler, ...
DispatchNvic(i) ==
  /\ Atomic /\ isr.at = "out" /\ i \in pend /\ Delivered(i)
  /\ pend' = pend \ {i}
  /\ Lookup(i)
  /\ UNCHANGED <<intc, table, bits, matrix, call, frames, asked>>

\* ... for claim_dispatch_complete, ...
DispatchPlic(i) ==
  /\ intc = "plic" /\ isr.at = "out" /\ i \in pend /\ Delivered(i)
  /\ pend' = pend \ {i}
  /\ Lookup(i)
  /\ UNCHANGED <<intc, table, bits, matrix, call, frames, asked>>

\* ... and for on_async_trap, under the number that has claimed the line; ...
DispatchLine(i) ==
  /\ Matrixed /\ isr.at = "out" /\ i \in pend /\ Delivered(i)
  /\ pend' = pend \ {i}
  /\ IF lineOf[routed[i]] = Free THEN UNCHANGED isr ELSE Lookup(lineOf[routed[i]])
  /\ UNCHANGED <<intc, table, bits, matrix, call, frames, asked>>

\* ... it opens a frame, ...
EnterFrame ==
  /\ isr.at = "enter"
  /\ frames' = frames + (IF isr.traced THEN 1 ELSE 0)
  /\ isr' = [isr EXCEPT !.at = "run"]
  /\ UNCHANGED <<intc, table, bits, matrix, call, pend, asked>>

\* ... calls the handler, which may deregister itself, ...
RunHandler ==
  /\ isr.at = "run"
  /\ \/ UNCHANGED <<table, silent>>
     \/ /\ handlers' = handlers \ {isr.irq} /\ untraced' = untraced \ {isr.irq}
        /\ silent' = silent \ {isr.irq}
  /\ isr' = [isr EXCEPT !.at = "leave"]
  /\ UNCHANGED <<intc, bits, matrix, call, pend, frames, on>>

\* ... and closes the frame it has opened.
LeaveFrame_Bad ==
  /\ isr.at = "leave"
  /\ frames' = frames - (IF isr.irq \in untraced THEN 0 ELSE 1)
  /\ isr' = [at |-> "out", irq |-> 0, traced |-> FALSE]
  /\ UNCHANGED <<intc, table, bits, matrix, call, pend, asked>>

LeaveFrame ==
  /\ isr.at = "leave"
  /\ frames' = frames - (IF isr.traced THEN 1 ELSE 0)
  /\ isr' = [at |-> "out", irq |-> 0, traced |-> FALSE]
  /\ UNCHANGED <<intc, table, bits, matrix, call, pend, asked>>

IqStep ==
  \/ \E c \in IrqCallers :
       \/ \E i \in Irqs :
            \/ RegisterIrq(c, i) \/ RegisterUntracedIrq(c, i) \/ UnregisterIrq(c, i)
            \/ \E op \in {"enable", "disable"} : Begin(c, i, op) \/ ClaimLine(c, i, op)
            \/ \E p \in {0, 255} :
                 SetPriority(c, i, p) \/ SetLinePriority(c, i, p) \/ ReadPriorities(c, i, p)
       \/ SetUntraced(c) \/ SetBit(c) \/ WritePriorities(c)
       \/ PlicRead(c) \/ PlicWrite(c) \/ MatrixRead(c) \/ MatrixWrite(c)
  \/ \E i \in Irqs : Raise(i) \/ DispatchNvic(i) \/ DispatchPlic(i) \/ DispatchLine(i)
  \/ EnterFrame \/ RunHandler \/ LeaveFrame

-----------------------------------------------------------------------------
\* Between calls the intc delivers exactly the interrupts whose last call
\* enabled them, a line leads to the number that claimed it, and the kernel's
\* own lines stay enabled.
EnablesStick ==
  (\A c \in IrqCallers : call[c].at = "out") =>
    /\ \A i \in Irqs : i \in on <=> Delivered(i)
    /\ Matrixed => \A i \in on : lineOf[routed[i]] = i
    /\ configured => KernelLines \subseteq enabled \intersect mie

\* Trace frames pair up, and a handler whose register_untraced has returned
\* opens none.
FramesPairUp ==
  /\ frames = (IF isr.at \in {"run", "leave"} /\ isr.traced THEN 1 ELSE 0)
  /\ isr.traced /\ isr.at = "enter" => isr.irq \notin silent

InterruptsAreRouted == EnablesStick /\ FramesPairUp
=============================================================================
