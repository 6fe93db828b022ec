------------------------------- MODULE Riscv -------------------------------
(***************************************************************************)
(* The RV32 port: traps save a frame on the interrupted task's stack, run  *)
(* the handler on the hart's slice of .isr_stack, and resume the frame the *)
(* handler answers with.  External interrupts come through the PLIC.       *)
(***************************************************************************)
EXTENDS Machine

CONSTANT Sources    \* PLIC sources

VARIABLES
  mscratch,   \* each hart's mscratch
  mie,        \* the interrupts each hart's mie lets through
  isr,        \* the stack each hart's handler runs on
  raised,     \* PLIC sources with an interrupt pending
  enabled,    \* PLIC sources that are enabled
  claimed     \* PLIC sources claimed and not completed

riscv == <<mscratch, mie, isr, raised, enabled, claimed>>

\* The top of hart h's slice of .isr_stack.
isr_stack_top(h) == <<"isr_stack", h>>

\* init_task_stack: a frame that enters the trampoline with the task's entry
\* and argument.
rv_init_task_stack(f, t) == [f EXCEPT ![t] = Fresh(t)]

RvTasks ==
  /\ sp = [t \in Tasks |-> <<"frame", t>>]
  /\ frame = [t \in Tasks |-> IF t \in BootTasks THEN Fresh(t) ELSE Lost]

\* __rivet_arch_init has run on every hart, interrupts are off until the first
\* mret.  Only hart 0 sets its mie (tick_start and plic::init); another's is what
\* its reset left, and nothing changes it.
RvInit ==
  /\ mscratch = [h \in Harts |-> isr_stack_top(h)]
  /\ mie \in [Harts -> {{}, {"timer", "soft", "ext"}}] /\ mie[0] # {}
  /\ isr = [h \in Harts |-> isr_stack_top(h)]
  /\ raised = {} /\ enabled = {} /\ claimed = {}

\* rivet_trap_resume: reload the registers from the frame and return with
\* interrupts on.
rivet_trap_resume(h, s) ==
  /\ regs' = [regs EXCEPT ![h] = frame[s[2]]]
  /\ phase' = [phase EXCEPT ![h] = "task"]

\* start_first_task: the same epilogue, from the task's first frame or a later
\* one.
RvStart(h) ==
  /\ \E c \in Tasks : StartsWith(h, c) /\ rivet_trap_resume(h, sp[c])
  /\ UNCHANGED <<board, spawned, done, sp, resume, at, masked, pend, frame, riscv>>

RvExecute(h) ==
  /\ Execute(h)
  /\ UNCHANGED <<kernel, phase, masked, pend, frame, riscv>>

\* spawn, in the critical section of the running task.
RvSpawn(h, t) ==
  /\ Running(h) /\ h \in masked /\ t \notin spawned
  /\ spawned' = spawned \cup {t}
  /\ frame' = rv_init_task_stack(frame, t)
  /\ sp' = [sp EXCEPT ![t] = <<"frame", t>>]
  /\ UNCHANGED <<board, done, current, at, regs, phase, masked, pend, resume>>
  /\ UNCHANGED <<mscratch, mie, isr, raised, enabled, claimed>>

\* plic::enable and plic::disable by the running task, and a device.
RvPlicSet(h, s) ==
  /\ Running(h)
  /\ enabled' = IF s \in enabled THEN enabled \ {s} ELSE enabled \cup {s}
  /\ UNCHANGED <<machine, mscratch, mie, isr, raised, claimed>>

RvDevice(s) ==
  /\ s \notin raised
  /\ raised' = raised \cup {s}
  /\ UNCHANGED <<machine, mscratch, mie, isr, enabled, claimed>>

\* A source whose last interrupt was never completed is not delivered again.
Claimable == (raised \cap enabled) \ claimed

Causes(h) == (pend[h] \cup IF h = 0 /\ Claimable # {} THEN {"ext"} ELSE {}) \cap mie[h]

-----------------------------------------------------------------------------
\* rivet_trap_entry: the registers go to a frame on the task's stack, and sp
\* and mscratch change places.  A trap taken while interrupts are on.
RvTrap(h, cause) ==
  /\ phase[h] = "task"
  /\ \/ cause \in Causes(h) /\ h \notin masked
     \/ cause = "fault" /\ Running(h)
  /\ frame' = [frame EXCEPT ![regs[h].task] = regs[h]]
  /\ mscratch' = [mscratch EXCEPT ![h] = <<"frame", regs[h].task>>]
  /\ isr' = [isr EXCEPT ![h] = mscratch[h]]
  /\ phase' = [phase EXCEPT ![h] = cause]
  /\ UNCHANGED <<kernel, at, regs, masked, pend, mie, raised, enabled, claimed>>

InterruptedSp(h) == mscratch[h]

\* mcause 7 and 3: acknowledge (the tick is re-armed), then the scheduling
\* decision.
RvReschedule(h, cause) ==
  /\ cause \in {"timer", "soft"}
  /\ phase[h] = cause
  /\ pend' = [pend EXCEPT ![h] = @ \ {cause}]
  /\ OnTick(h, InterruptedSp(h))
  /\ phase' = [phase EXCEPT ![h] = "exit"]
  /\ UNCHANGED <<board, spawned, at, regs, masked, frame, riscv>>

\* mcause 11: claim_dispatch_complete.  Claim the source; none may be left.
RvClaim(h) ==
  /\ phase[h] = "ext"
  /\ IF Claimable = {}
     THEN /\ phase' = [phase EXCEPT ![h] = "exit"]
          /\ UNCHANGED <<raised, claimed>>
     ELSE \E s \in Claimable :
            /\ raised' = raised \ {s}
            /\ claimed' = claimed \cup {s}
            /\ phase' = [phase EXCEPT ![h] = "dispatch"]
  /\ resume' = [resume EXCEPT ![h] = InterruptedSp(h)]
  /\ UNCHANGED <<board, spawned, done, current, sp, at, regs, masked, pend, frame>>
  /\ UNCHANGED <<mscratch, mie, isr, enabled>>

\* The claimed source never completed.
RvComplete_Bad(h) ==
  /\ phase[h] = "dispatch"
  /\ \E woken \in SUBSET {"soft"} : pend' = [pend EXCEPT ![h] = @ \cup woken]
  /\ phase' = [phase EXCEPT ![h] = "exit"]
  /\ UNCHANGED <<kernel, at, regs, masked, frame, riscv>>

\* The registered handler runs, may wake a task, and the source is completed.
RvComplete(h) ==
  /\ phase[h] = "dispatch"
  /\ \E woken \in SUBSET {"soft"} : pend' = [pend EXCEPT ![h] = @ \cup woken]
  /\ claimed' = {}
  /\ phase' = [phase EXCEPT ![h] = "exit"]
  /\ UNCHANGED <<kernel, at, regs, masked, frame, mscratch, mie, isr, raised, enabled>>

\* mcause 1, 5 and 7 of an exception: the fault policy.  Interrupts the task
\* held off come back with the next task's mret.
RvFault(h) ==
  /\ phase[h] = "fault"
  /\ OnFault(h)
  /\ masked' = masked \ {h}
  /\ phase' = [phase EXCEPT ![h] = "exit"]
  /\ UNCHANGED <<board, spawned, sp, at, regs, pend, frame, riscv>>

\* Hart 0's slice, as before the port knew more than one hart.
rearmed_Bad(h) == isr_stack_top(0)

\* The top of the slice mscratch is re-armed with.
rearmed(h) == isr_stack_top(h)

\* The end of rivet_trap_entry: re-arm mscratch, and resume.
RvExit(h) ==
  /\ phase[h] = "exit"
  /\ mscratch' = [mscratch EXCEPT ![h] = rearmed(h)]
  /\ rivet_trap_resume(h, resume[h])
  /\ resume' = [resume EXCEPT ![h] = <<"none">>]
  /\ UNCHANGED <<board, spawned, done, current, sp, at, masked, pend, frame>>
  /\ UNCHANGED <<mie, isr, raised, enabled, claimed>>

RvNext ==
  \/ /\ \E h \in Harts : TaskCode(h) \/ \E i \in {"timer", "soft"} : Raise(h, i)
     /\ UNCHANGED riscv
  \/ \E s \in Sources : RvDevice(s)
  \/ \E h \in Harts :
       \/ RvStart(h) \/ RvExecute(h)
       \/ \E t \in Tasks : RvSpawn(h, t)
       \/ \E s \in Sources : RvPlicSet(h, s)
       \/ \E cause \in {"timer", "soft", "ext", "fault"} : RvTrap(h, cause)
       \/ \E cause \in {"timer", "soft"} : RvReschedule(h, cause)
       \/ RvClaim(h) \/ RvComplete(h) \/ RvFault(h) \/ RvExit(h)

-----------------------------------------------------------------------------
\* No two harts run their handlers on one slice of .isr_stack.
InHandler(h) == phase[h] \notin {"off", "boot", "task"}

IsrStacksDisjoint ==
  \A g, h \in Harts : g # h /\ InHandler(g) /\ InHandler(h) => isr[g] # isr[h]

\* A source is claimed only while its handler runs: once the hart is back in a
\* task, every source that is enabled can interrupt again.
ClaimsCompleted == phase[0] = "task" => claimed = {}
=============================================================================
