-------------------------------- MODULE Boot --------------------------------
(***************************************************************************)
(* From reset to the first task: what hart 0 of each board goes through,   *)
(* one step after another, the interrupts that may be taken on the way,    *)
(* and the cores that come up beside it.                                   *)
(***************************************************************************)
EXTENDS Integers, Sequences

CONSTANTS
  Bsps,         \* the boards that are checked
  CORES,        \* the cores of each board's chip
  RIVET_HARTS,  \* RIVET_MAX_HARTS of each board's build
  SPAWNS        \* how many tasks main may spawn before it calls rivet::run

VARIABLES
  bsp,          \* the board
  steps,        \* what hart 0 has still to do
  built,        \* what its steps have put in place
  dogs, keyed,  \* Espressif's watchdogs that run, and those unlocked
  stage,        \* where each core is
  open,         \* the cores whose global interrupt gate is open
  unmasked,     \* the sources each core lets through that gate
  raised,       \* the sources pending at each core
  runnable,     \* the ready tasks
  dispatched,   \* sched::current of each core
  kernelReady,  \* KERNEL_READY
  astray        \* what a handler has found missing

boot == <<bsp, steps, built, dogs, keyed, stage, open, unmasked, raised,
          runnable, dispatched, kernelReady, astray>>

Cores == 0 .. CORES[bsp] - 1
Secondaries == Cores \ {0}
NoTask == -1
CortexM(b) == b \in {"stm32f401re", "lm3s6965", "mps2_an385", "rp2040"}
Riscv(b) == b \in {"qemu_virt", "esp32c6"}

-----------------------------------------------------------------------------
\* The tail of a board_init with an interrupt-driven UART: the handler, the
\* controller, the receiver's interrupt, and the ring.
WireUart == << <<"register", "uart">>, <<"enable", "uart">>, <<"listen", "uart">>, <<"irq_tx">> >>

\* Each key opens one watchdog's registers, and is taken away again.
Stop(dog, key) == << <<"unlock", dog, key>>, <<"stop", dog>>, <<"lock", dog>> >>

c6_disable_watchdogs ==
  Stop("rwdt", "wdt") \o Stop("swd", "wdt") \o Stop("mwdt", "wdt")
s3_disable_watchdogs ==
  Stop("rwdt", "wdt") \o Stop("swd", "swd_s3") \o Stop("mwdt", "wdt")

\* __rivet_board_init of each board, ...
qemu_virt_init == << <<"clock">>, <<"intc">> >> \o WireUart
stm32f401re_init == << <<"uart">> >> \o WireUart
lm3s6965_init == WireUart
mps2_an385_init == << <<"uart">>, <<"register", "uart">>, <<"enable", "uart">> >> \o WireUart
\* the USB device is built, put in its cell and given its interrupt, and then the
\* UART is taken out of its reset
usb_init == << <<"usb_bus">>, <<"usb_state">>, <<"register", "usb">>, <<"enable", "usb">> >>
rp2040_init == << <<"clock">> >> \o usb_init \o << <<"uart">> >> \o WireUart
esp32c6_init == c6_disable_watchdogs \o << <<"clock">> >>
esp32s3_init == s3_disable_watchdogs \o << <<"clock">>, <<"release_app_cpu">> >>

BoardInit(b) ==
  CASE b = "qemu_virt" -> qemu_virt_init
    [] b = "stm32f401re" -> stm32f401re_init
    [] b = "lm3s6965" -> lm3s6965_init
    [] b = "mps2_an385" -> mps2_an385_init
    [] b = "rp2040" -> rp2040_init
    [] b = "esp32c6" -> esp32c6_init
    [] b = "esp32s3" -> esp32s3_init

\* ... what runs before rivet_main: .data and .bss, on the S3 after __pre_init has
\* stopped the watchdogs that could bite in the middle of that copy, ...
_start == << <<"copy">> >>
CmReset == << <<"copy">> >>
__pre_init == s3_disable_watchdogs
XtReset == __pre_init \o << <<"copy">> >>

ResetCode(b) == IF Riscv(b) THEN _start ELSE IF CortexM(b) THEN CmReset ELSE XtReset

\* ... rivet::init, whose console comes before the board that feeds it, ...
KernelInit_Bad(b) ==
  << <<"arch">> >> \o BoardInit(b)
  \o << <<"console">>, <<"tick">>, <<"log">>, <<"executor">>, <<"spawn", 0>> >>

KernelInit(b) ==
  << <<"arch">>, <<"console">> >> \o BoardInit(b)
  \o << <<"tick">>, <<"log">>, <<"executor">>, <<"spawn", 0>> >>

\* ... preempt::start, ...
Start == << <<"mask">>, <<"pick">>, <<"launch">> >>

\* ... and the whole of it.
Script(b, spawns) ==
  ResetCode(b) \o KernelInit(b) \o [i \in 1 .. spawns |-> <<"spawn", i>>]
  \o << <<"run">> >> \o Start

\* PRIMASK is clear out of reset and so is PS.INTLEVEL; mstatus.MIE need not be
\* where a boot ROM ran first.  mie is unspecified at reset; nothing but PRIMASK
\* masks PendSV.
BtInit ==
  /\ bsp \in Bsps
  /\ \E n \in SPAWNS : steps = Script(bsp, n)
  /\ built = {}
  /\ dogs = (IF bsp \in {"esp32c6", "esp32s3"} THEN {"rwdt", "swd", "mwdt"} ELSE {})
  /\ keyed = {}
  /\ stage = [c \in Cores |-> IF c = 0 THEN "boot"
                              ELSE IF bsp = "esp32s3" THEN "held" ELSE "reset"]
  /\ \/ open = IF Riscv(bsp) THEN {} ELSE Cores
     \/ bsp = "esp32c6" /\ open = {0}
  /\ \E mie \in {{}, {"soft"}} :
       unmasked = [c \in Cores |-> IF CortexM(bsp) THEN {"soft"}
                                   ELSE IF Riscv(bsp) /\ c # 0 THEN mie ELSE {}]
  /\ raised = [c \in Cores |-> {}]
  /\ runnable = {}
  /\ dispatched = [c \in Cores |-> NoTask]
  /\ kernelReady = FALSE
  /\ astray = {}

-----------------------------------------------------------------------------
\* __rivet_arch_init.  RV32 clears MIE before the vectors are set, ...
rv_arch_init(c) == open' = open \ {c} /\ UNCHANGED unmasked

\* ... a Cortex-M sets the vectors and gives every interrupt the lowest priority,
\* but masks none, ...
cm_arch_init == UNCHANGED <<open, unmasked>>
m0_arch_init == UNCHANGED <<open, unmasked>>

\* ... and each core of the S3 lets through the two lines that another core, or
\* itself, asks for a reschedule by.
xt_arch_init(c) ==
  /\ unmasked' = [unmasked EXCEPT ![c] = @ \cup {"soft"}]
  /\ UNCHANGED open

ArchInit(c) ==
  \/ Riscv(bsp) /\ rv_arch_init(c)
  \/ CortexM(bsp) /\ bsp # "rp2040" /\ cm_arch_init
  \/ bsp = "rp2040" /\ m0_arch_init
  \/ bsp = "esp32s3" /\ xt_arch_init(c)

\* The lines tick_start lets through, but on a Cortex-M, whose SysTick starts with
\* the first task, ...
TickMask == IF CortexM(bsp) THEN {} ELSE {"tick", "soft"}

\* ... and those start_first_task does, on its way into the task.
LaunchMask(c) ==
  IF bsp = "esp32s3" THEN {"tick", "soft"}
  ELSE IF CortexM(bsp) THEN unmasked[c] \cup {"tick"}
  ELSE unmasked[c]

\* ready_add wakes the other harts, whatever they are doing.
WakeOthers(c) ==
  [h \in Cores |-> IF h # c /\ h < RIVET_HARTS[bsp] THEN raised[h] \cup {"soft"} ELSE raised[h]]

Did(what) == steps[1][1] = what
On(what) == steps[1][2] = what
Same(what) == built' = built \cup {what}

\* A step of hart 0, but those of preempt::start.
Enable ==
  /\ Did("enable")
  /\ unmasked' = [unmasked EXCEPT ![0] = @ \cup {steps[1][2]}]
  /\ Same(steps[1])
  /\ UNCHANGED <<dogs, keyed, stage, open, raised, runnable, kernelReady>>

Arch ==
  /\ Did("arch") /\ Same(<<"arch">>) /\ ArchInit(0)
  /\ UNCHANGED <<dogs, keyed, stage, raised, runnable, kernelReady>>

Tick ==
  /\ Did("tick") /\ Same(<<"tick">>)
  /\ unmasked' = [unmasked EXCEPT ![0] = @ \cup TickMask]
  /\ UNCHANGED <<dogs, keyed, stage, open, raised, runnable, kernelReady>>

\* A register write that a locked watchdog ignores.
WatchdogWrite ==
  /\ \/ /\ Did("unlock")
        /\ keyed' = IF steps[1][3] = (IF bsp = "esp32s3" /\ On("swd") THEN "swd_s3" ELSE "wdt")
                    THEN keyed \cup {steps[1][2]} ELSE keyed
        /\ UNCHANGED dogs
     \/ /\ Did("stop")
        /\ dogs' = IF steps[1][2] \in keyed THEN dogs \ {steps[1][2]} ELSE dogs
        /\ UNCHANGED keyed
     \/ /\ Did("lock")
        /\ keyed' = keyed \ {steps[1][2]}
        /\ UNCHANGED dogs
  /\ UNCHANGED <<built, stage, open, unmasked, raised, runnable, kernelReady>>

\* release_app_cpu: the second core leaves its reset, if the build has a use
\* for it.
ReleaseAppCpu ==
  /\ Did("release_app_cpu")
  /\ stage' = [c \in Cores |-> IF c # 0 /\ RIVET_HARTS[bsp] >= 2 THEN "reset" ELSE stage[c]]
  /\ UNCHANGED <<built, dogs, keyed, open, unmasked, raised, runnable, kernelReady>>

Spawn ==
  /\ Did("spawn") /\ Same(steps[1])
  /\ runnable' = runnable \cup {steps[1][2]}
  /\ raised' = WakeOthers(0)
  /\ UNCHANGED <<dogs, keyed, stage, open, unmasked, kernelReady>>

Run ==
  /\ Did("run") /\ kernelReady' = TRUE
  /\ UNCHANGED <<built, dogs, keyed, stage, open, unmasked, raised, runnable>>

\* The steps that only put something in place.
Put ==
  /\ steps[1][1] \in {"copy", "console", "clock", "intc", "uart", "usb_bus", "usb_state", "register",
                      "listen", "irq_tx", "log", "executor"}
  /\ Same(steps[1])
  /\ UNCHANGED <<dogs, keyed, stage, open, unmasked, raised, runnable, kernelReady>>

BootStep ==
  /\ stage[0] = "boot" /\ steps # <<>>
  /\ Enable \/ Arch \/ Tick \/ WatchdogWrite \/ ReleaseAppCpu \/ Spawn \/ Run \/ Put
  /\ steps' = Tail(steps)
  /\ UNCHANGED <<bsp, dispatched, astray>>

-----------------------------------------------------------------------------
\* schedule, set_current and Running, in the kernel's critical section.
Claim(c, t) ==
  /\ t \in runnable
  /\ runnable' = runnable \ {t}
  /\ dispatched' = [dispatched EXCEPT ![c] = t]

\* start and start_secondary_hart are one masked region, from the choice of the
\* first task to that task.
MaskRegion(c) == open \ {c}

\* start_first_task: the task runs, with interrupts on.
Launch(c) ==
  /\ stage' = [stage EXCEPT ![c] = "task"]
  /\ open' = open \cup {c}
  /\ unmasked' = [unmasked EXCEPT ![c] = LaunchMask(c)]

\* preempt::start, which panics when nothing is ready.
StartStep ==
  /\ stage[0] = "boot" /\ steps # <<>>
  /\ \/ /\ Did("mask") /\ open' = MaskRegion(0)
        /\ UNCHANGED <<stage, unmasked, runnable, dispatched>>
     \/ /\ Did("pick") /\ \E t \in runnable : Claim(0, t)
        /\ UNCHANGED <<stage, open, unmasked>>
     \/ /\ Did("pick") /\ runnable = {}
        /\ stage' = [stage EXCEPT ![0] = "panic"]
        /\ UNCHANGED <<open, unmasked, runnable, dispatched>>
     \/ Did("launch") /\ Launch(0) /\ UNCHANGED <<runnable, dispatched>>
  /\ steps' = Tail(steps)
  /\ UNCHANGED <<bsp, built, dogs, keyed, raised, kernelReady, astray>>

Goto(c, place) == stage' = [stage EXCEPT ![c] = place]

\* A secondary core out of reset: a hart the build has no state for parks, ...
secondary_entry(c) ==
  /\ Goto(c, IF c < RIVET_HARTS[bsp] THEN "spin" ELSE "parked")
  /\ UNCHANGED unmasked

\* ... the S3's masks whatever the ROM left, ...
rivet_appcpu_rust_entry(c) ==
  /\ Goto(c, "spin")
  /\ unmasked' = [unmasked EXCEPT ![c] = {}]

Arrive(c) ==
  /\ stage[c] = "reset"
  /\ IF bsp = "esp32s3" THEN rivet_appcpu_rust_entry(c) ELSE secondary_entry(c)
  /\ UNCHANGED <<bsp, steps, built, dogs, keyed, open, raised, runnable, dispatched,
                 kernelReady, astray>>

\* ... waits for the kernel, and runs arch::init, ...
Ready_Bad(c) == TRUE

Ready(c) == kernelReady

BringUp(c) ==
  /\ stage[c] = "spin" /\ Ready(c)
  /\ Goto(c, "loop")
  /\ ArchInit(c)
  /\ UNCHANGED <<bsp, steps, built, dogs, keyed, raised, runnable, dispatched,
                 kernelReady, astray>>

\* ... start_secondary_hart: the first task that is ready, or none yet, ...
PickFirst(c) ==
  /\ stage[c] = "loop"
  /\ \/ \E t \in runnable : Claim(c, t) /\ Goto(c, "picked") /\ open' = MaskRegion(c)
     \/ runnable = {} /\ Goto(c, "idle") /\ UNCHANGED <<open, runnable, dispatched>>
  /\ UNCHANGED <<bsp, steps, built, dogs, keyed, unmasked, raised, kernelReady, astray>>

LaunchFirst(c) ==
  /\ stage[c] = "picked"
  /\ Launch(c)
  /\ UNCHANGED <<bsp, steps, built, dogs, keyed, raised, runnable, dispatched,
                 kernelReady, astray>>

\* ... wfi and waiti end when a source that is let through is pending, with the
\* gate closed as with it open, ...
HartIdle(c) ==
  /\ stage[c] = "idle" /\ raised[c] \cap unmasked[c] # {}
  /\ Goto(c, "loop")
  /\ UNCHANGED <<bsp, steps, built, dogs, keyed, open, unmasked, raised, runnable,
                 dispatched, kernelReady, astray>>

\* ... and a task that blocks makes room for the next.
BlockTask(c) ==
  /\ stage[c] = "task" /\ c # 0 /\ "soft" \in unmasked[c]
  /\ \E t \in runnable : Claim(c, t)
  /\ UNCHANGED <<bsp, steps, built, dogs, keyed, stage, open, unmasked, raised,
                 kernelReady, astray>>

-----------------------------------------------------------------------------
\* A byte for the UART, the USB host, and the timer once it is armed.
RaiseLine(s) ==
  /\ s \notin raised[0]
  /\ CASE s = "uart" -> <<"listen", "uart">> \in built
       [] s = "usb" -> <<"usb_bus">> \in built
       [] s = "tick" -> <<"tick">> \in built /\ ~CortexM(bsp)
  /\ raised' = [raised EXCEPT ![0] = @ \cup {s}]
  /\ UNCHANGED <<bsp, steps, built, dogs, keyed, stage, open, unmasked, runnable,
                 dispatched, kernelReady, astray>>

\* What the handler of each interrupt uses: the vectors, the rings, its entry in
\* the table, the clock.
Uses(s) ==
  { <<"copy">>, <<"arch">> }
  \cup (IF s = "uart" THEN { <<"console">>, <<"register", "uart">> } ELSE {})
  \cup (IF s = "usb" THEN { <<"usb_state">>, <<"register", "usb">> } ELSE {})
  \cup (IF s = "tick" THEN { <<"clock">> } ELSE {})

\* A handler between the choice of a core's first task and that task takes the
\* core's registers for the task's.
Context(c) == IF dispatched[c] # NoTask /\ stage[c] # "task" THEN {<<"context">>} ELSE {}

TakeInterrupt(c, s) ==
  /\ c \in open /\ s \in raised[c] \cap unmasked[c]
  /\ stage[c] \in {"boot", "spin", "loop", "picked", "idle"}
  /\ astray' = astray \cup {<<s, w>> : w \in (Uses(s) \ built) \cup Context(c)}
  /\ raised' = [raised EXCEPT ![c] = @ \ {s}]
  /\ stage' = [stage EXCEPT ![c] = IF @ = "idle" THEN "loop" ELSE @]
  /\ UNCHANGED <<bsp, steps, built, dogs, keyed, open, unmasked, runnable,
                 dispatched, kernelReady>>

BtStep ==
  \/ BootStep \/ StartStep
  \/ \E c \in Secondaries :
       Arrive(c) \/ BringUp(c) \/ PickFirst(c) \/ LaunchFirst(c) \/ HartIdle(c) \/ BlockTask(c)
  \/ \E s \in {"uart", "usb", "tick"} : RaiseLine(s)
  \/ \E c \in Cores, s \in {"uart", "usb", "tick", "soft"} : TakeInterrupt(c, s)

-----------------------------------------------------------------------------
\* An interrupt that comes while a core is booting finds what its handler uses,
\* the vector, the entry in the table, the rings and the clock, and none comes
\* between the choice of the core's first task and that task.
HandlersFindTheirState == astray = {}

\* A task runs, on whatever core, only when hart 0 has done everything that
\* comes before preempt::start, the spawns of main's included, and no watchdog
\* that the ROM left armed is running.
TasksFindABootedKernel ==
  (\E c \in Cores : dispatched[c] # NoTask) =>
    /\ \A i \in DOMAIN steps : \E k \in DOMAIN Start : steps[i] = Start[k]
    /\ dogs = {}

\* A core that waits for work, or runs a task, hears the others.
HartsHear == \A c \in Cores : stage[c] \in {"idle", "task"} => "soft" \in unmasked[c]

\* Cores come to a kernel that is up, and are not deaf when they do.
HartsJoinABootedKernel == TasksFindABootedKernel /\ HartsHear

\* Hart 0 finds a task, when at least one was spawned.
StartFindsATask == stage[0] # "panic"

BtSpec == BtInit /\ [][BtStep]_boot
=============================================================================
